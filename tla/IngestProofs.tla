---------------------------- MODULE IngestProofs ----------------------------
(***************************************************************************)
(* Theorems about Ingest, for any number of ingests, batches and times.    *)
(***************************************************************************)
EXTENDS Ingest, FiniteSetTheorems, SequenceTheorems, TLAPS

-----------------------------------------------------------------------------
(***************************************************************************)
(* Type correctness                                                        *)
(***************************************************************************)

LEMMA ObservedType ==
    ASSUME NEW b \in Batches, NEW k \in SignalsIn(b), NEW t \in Nat
    PROVE  Observed(b, k, t) \in Signal
BY IngestAssumption DEF Observed, SignalsIn, Batch, MaterialSignal, Signal

LEMMA WithdrawnType ==
    ASSUME NEW s \in Signal, NEW t \in Nat
    PROVE  Withdrawn(s, t) \in Signal /\ Withdrawn(s, t).observed_at = t
BY DEF Withdrawn, Signal

\* The repository's transactions keep the tables well typed.
LEMMA UpsertSignalType ==
    ASSUME StoreTypeOK, NEW k \in SignalKeys, NEW s \in Signal,
           UpsertSignal(k, s)
    PROVE  StoreTypeOK'
<1> USE NoneAssumption
<1>1. CASE DiscoverSignal(k, s)
  BY <1>1 DEF UpsertSignal, DiscoverSignal, AppendChange, StoreTypeOK,
              SignalRow, Signal, Change, ChangeTypes
<1>2. CASE IgnoreStaleSignal(k, s)
  BY <1>2 DEF UpsertSignal, IgnoreStaleSignal, StoreTypeOK
<1>3. CASE RefreshSignal(k, s)
  <2>1. signals' \in [SignalKeys -> SignalRow \cup {None}]
    BY <1>3 DEF RefreshSignal, StoreTypeOK, SignalRow, Signal
  <2>2. changes' \in Seq(Change)
    <3> DEFINE previous == signals[k].signal
    <3>1. previous \in Signal
      BY <1>3 DEF RefreshSignal, StoreTypeOK, SignalRow
    <3>2. ChangeType(previous, s) \in ChangeTypes
      BY DEF ChangeType, ChangeTypes
    <3>3. s.observed_at \in Nat
      BY DEF Signal
    <3> DEFINE entry == [signal_key |-> k,
                         change_type |-> ChangeType(previous, s),
                         recorded_at |-> s.observed_at,
                         previous |-> previous, current |-> s]
    <3>4. entry \in Change
      BY <3>1, <3>2, <3>3 DEF Change
    <3>5. changes' = changes \/ changes' = Append(changes, entry)
      BY <1>3 DEF RefreshSignal, AppendChange
    <3> HIDE DEF entry
    <3>6. changes \in Seq(Change)
      BY DEF StoreTypeOK
    <3>7. QED
      BY <3>4, <3>5, <3>6
  <2>3. QED
    BY <2>1, <2>2 DEF UpsertSignal, StoreTypeOK
<1>4. QED
  BY <1>1, <1>2, <1>3 DEF UpsertSignal

LEMMA UpsertConsumerType ==
    ASSUME StoreTypeOK, NEW c \in ConsumerIds, NEW p \in Payloads,
           NEW t \in Nat, UpsertConsumer(c, p, t)
    PROVE  StoreTypeOK'
BY DEF UpsertConsumer, Seen, StoreTypeOK, EvidenceRow

LEMMA UpsertDependencyType ==
    ASSUME StoreTypeOK, NEW d \in DependencyKeys, NEW p \in Payloads,
           NEW t \in Nat, UpsertDependency(d, p, t)
    PROVE  StoreTypeOK'
BY DEF UpsertDependency, Seen, StoreTypeOK, EvidenceRow

LEMMA ReconcileType ==
    ASSUME StoreTypeOK, NEW ids, NEW keys, NEW t \in Nat,
           ReconcileConsumerSnapshot(ids, keys, t)
    PROVE  StoreTypeOK'
BY DEF ReconcileConsumerSnapshot, StoreTypeOK, EvidenceRow

\* The entries a step adds to the log are changes.
LEMMA AppendedType ==
    ASSUME StoreTypeOK, StoreTypeOK', NEW i \in Ingests, RecordAppended(i),
           appended \in [Ingests -> Seq(Change)]
    PROVE  appended' \in [Ingests -> Seq(Change)]
<1> DEFINE new == SubSeq(changes', Len(changes) + 1, Len(changes'))
<1>1. new \in Seq(Change)
  BY DEF StoreTypeOK
<1>2. appended[i] \o new \in Seq(Change)
  BY <1>1
<1>3. QED
  BY <1>2 DEF RecordAppended

LEMMA CountsType ==
    ASSUME NEW log \in Seq(Change)
    PROVE  Counts(log) \in [ChangeTypes -> Nat]
<1> SUFFICES ASSUME NEW type \in ChangeTypes
             PROVE  Cardinality({n \in 1..Len(log) : log[n].change_type = type})
                        \in Nat
  BY DEF Counts
<1> DEFINE S == {n \in 1..Len(log) : log[n].change_type = type}
<1>1. IsFiniteSet(1..Len(log))
  BY FS_Interval
<1>2. IsFiniteSet(S)
  BY <1>1, FS_Subset
<1>3. QED
  BY <1>2, FS_CardinalityType

LEMMA InitTypeOK == Init => TypeOK
BY IngestAssumption
   DEF Init, StoreInit, TypeOK, StoreTypeOK, Begun

LEMMA NextTypeOK == TypeOK /\ [Next]_vars => TypeOK'
<1> SUFFICES ASSUME TypeOK, [Next]_vars PROVE TypeOK'
  OBVIOUS
<1> USE DEF TypeOK, Begun
<1>1. ASSUME NEW i \in Ingests, Begin(i) PROVE TypeOK'
  BY <1>1, IngestAssumption DEF Begin, storeVars, StoreTypeOK
<1>2. ASSUME NEW i \in Ingests, CountChangesBefore(i) PROVE TypeOK'
  BY <1>2 DEF CountChangesBefore, storeVars, StoreTypeOK
<1>3. ASSUME NEW i \in Ingests, PutConsumer(i) PROVE TypeOK'
  <2>1. batch[i] \in Batches
    BY <1>3 DEF PutConsumer
  <2>2. PICK c \in ConsumersIn(batch[i]) \ consumersPut[i] :
            /\ UpsertConsumer(c, batch[i].consumers[c], observedAt[i])
            /\ consumersPut' = [consumersPut EXCEPT ![i] = @ \cup {c}]
    BY <1>3 DEF PutConsumer
  <2>3. c \in ConsumerIds /\ batch[i].consumers[c] \in Payloads
    BY <2>1, IngestAssumption DEF ConsumersIn, Batch
  <2>4. StoreTypeOK'
    BY <2>2, <2>3, UpsertConsumerType
  <2>5. consumersPut' \in [Ingests -> SUBSET ConsumerIds]
    BY <2>2, <2>3
  <2>6. QED
    BY <1>3, <2>4, <2>5 DEF PutConsumer
<1>4. ASSUME NEW i \in Ingests, PutDependency(i) PROVE TypeOK'
  <2>1. batch[i] \in Batches
    BY <1>4 DEF PutDependency, DependenciesDue
  <2>2. PICK d \in DependenciesDue(i) :
            /\ UpsertDependency(d, batch[i].dependencies[d], observedAt[i])
            /\ dependenciesPut' = [dependenciesPut EXCEPT ![i] = @ \cup {d}]
    BY <1>4 DEF PutDependency
  <2>3. d \in DependencyKeys /\ batch[i].dependencies[d] \in Payloads
    BY <2>1, IngestAssumption DEF DependenciesDue, DependenciesIn, Batch
  <2>4. StoreTypeOK'
    BY <2>2, <2>3, UpsertDependencyType
  <2>5. dependenciesPut' \in [Ingests -> SUBSET DependencyKeys]
    BY <2>2, <2>3
  <2>6. QED
    BY <1>4, <2>4, <2>5 DEF PutDependency
<1>5. ASSUME NEW i \in Ingests, RejectDependency(i) PROVE TypeOK'
  BY <1>5 DEF RejectDependency, DependenciesDue, storeVars, StoreTypeOK
<1>6. ASSUME NEW i \in Ingests, PutSignal(i) PROVE TypeOK'
  <2>1. batch[i] \in Batches
    BY <1>6 DEF PutSignal, EdgesWritten
  <2>2. PICK k \in SignalsIn(batch[i]) \ signalsPut[i] :
            /\ UpsertSignal(k, Observed(batch[i], k, observedAt[i]))
            /\ signalsPut' = [signalsPut EXCEPT ![i] = @ \cup {k}]
    BY <1>6 DEF PutSignal
  <2>3. k \in SignalKeys
    BY DEF SignalsIn
  <2>4. StoreTypeOK'
    BY <2>1, <2>2, <2>3, ObservedType, UpsertSignalType
  <2>5. signalsPut' \in [Ingests -> SUBSET SignalKeys]
    BY <2>2, <2>3
  <2>6. appended' \in [Ingests -> Seq(Change)]
    BY <1>6, <2>4, AppendedType DEF PutSignal
  <2>7. QED
    BY <1>6, <2>4, <2>5, <2>6 DEF PutSignal
<1>7. ASSUME NEW i \in Ingests, ListActiveSignals(i) PROVE TypeOK'
  <2>1. \A k \in SignalKeys :
            Missing(batch[i], k) => signals[k].signal \in Signal
    BY DEF Missing, StoreTypeOK, SignalRow
  <2>2. withdrawals' \in [Ingests -> [SignalKeys -> Signal \cup {None}]]
    BY <1>7, <2>1 DEF ListActiveSignals
  <2>3. QED
    BY <1>7, <2>2 DEF ListActiveSignals, EdgesWritten, storeVars, StoreTypeOK
<1>8. ASSUME NEW i \in Ingests, WithdrawSignal(i) PROVE TypeOK'
  <2>1. PICK k \in SignalKeys :
            /\ withdrawals[i][k] # None
            /\ UpsertSignal(k, Withdrawn(withdrawals[i][k], observedAt[i]))
            /\ withdrawals' = [withdrawals EXCEPT ![i][k] = None]
    BY <1>8 DEF WithdrawSignal
  <2>2. StoreTypeOK'
    BY <2>1, WithdrawnType, UpsertSignalType
  <2>3. withdrawals' \in [Ingests -> [SignalKeys -> Signal \cup {None}]]
    BY <2>1
  <2>4. appended' \in [Ingests -> Seq(Change)]
    BY <1>8, <2>2, AppendedType DEF WithdrawSignal
  <2>5. QED
    BY <1>8, <2>2, <2>3, <2>4 DEF WithdrawSignal
<1>9. ASSUME NEW i \in Ingests, ReconcileConsumers(i) PROVE TypeOK'
  <2>1. StoreTypeOK'
    BY <1>9, ReconcileType DEF ReconcileConsumers, storeVars, StoreTypeOK
  <2>2. QED
    BY <1>9, <2>1 DEF ReconcileConsumers
<1>10. ASSUME NEW i \in Ingests, Summarise(i) PROVE TypeOK'
  <2> DEFINE log == SubSeq(changes, changesBefore[i] + 1, Len(changes))
  <2>1. log \in Seq(Change)
    BY DEF StoreTypeOK
  <2>2. Counts(log) \in [ChangeTypes -> Nat]
    BY <2>1, CountsType
  <2>3. QED
    BY <1>10, <2>2 DEF Summarise, storeVars, StoreTypeOK
<1>11. ASSUME NEW i \in Ingests, Die(i) PROVE TypeOK'
  BY <1>11 DEF Die, Running, Ended, storeVars, StoreTypeOK
<1>12. CASE UNCHANGED vars
  BY <1>12 DEF vars, storeVars, ingestVars, StoreTypeOK
<1>13. QED
  BY <1>1, <1>2, <1>3, <1>4, <1>5, <1>6, <1>7, <1>8, <1>9, <1>10, <1>11,
     <1>12 DEF Next, Step

\* Every reachable state of any number of overlapping imports is well typed.
THEOREM TypeCorrect == Spec => []TypeOK
BY InitTypeOK, NextTypeOK, PTL DEF Spec

-----------------------------------------------------------------------------
(***************************************************************************)
(* The newest evidence stands: the signals                                 *)
(*                                                                         *)
(* NewestEvidenceStands is not inductive: it says nothing of an ingest     *)
(* that is not the newest, and a stale withdrawal copy could in principle  *)
(* carry anything.  The strengthening has two halves.  A row is never      *)
(* older than any ingest that wrote it, and every row is the work of some  *)
(* begun ingest observed at exactly the row's time.  For the newest ingest *)
(* the two meet: only itself can be the author.                            *)
(***************************************************************************)

\* An ingest writes only what its batch holds, and withdraws only the rest.
SignalsInBatch ==
    \A i \in Ingests :
        /\ signalsPut[i] # {} => Begun(i)
        /\ signalsPut[i] \subseteq SignalsIn(batch[i])
        /\ \A k \in SignalKeys : withdrawals[i][k] # None =>
               Begun(i) /\ k \notin SignalsIn(batch[i])

WrittenSignalsKept ==
    \A i \in Ingests : \A k \in signalsPut[i] :
        signals[k] # None /\ signals[k].last_seen >= observedAt[i]

\* Ingest i is the author of signal row k.
SignalAuthor(i, k) ==
    /\ Begun(i)
    /\ signals[k].last_seen = observedAt[i]
    /\ k \in SignalsIn(batch[i]) =>
           signals[k].signal = Observed(batch[i], k, observedAt[i])

SignalsHaveAuthors ==
    \A k \in SignalKeys : signals[k] # None =>
        \E i \in Ingests : SignalAuthor(i, k)

SignalInv == SignalsInBatch /\ WrittenSignalsKept /\ SignalsHaveAuthors

\* What upsert_signal does to the row of k, and that it touches no other row.
LEMMA UpsertSignalEffect ==
    ASSUME StoreTypeOK, NEW k \in SignalKeys, NEW s \in Signal,
           UpsertSignal(k, s)
    PROVE  /\ \A l \in SignalKeys \ {k} : signals'[l] = signals[l]
           /\ signals'[k] # None
           /\ signals'[k].last_seen >= s.observed_at
           /\ signals[k] # None => signals'[k].last_seen >= signals[k].last_seen
           /\ \/ signals[k] # None /\ signals'[k] = signals[k]
              \/ signals'[k].signal = s /\ signals'[k].last_seen = s.observed_at
<1> USE NoneAssumption
<1>1. CASE DiscoverSignal(k, s)
  <2>1. [signal |-> s, first_seen |-> s.observed_at,
         last_seen |-> s.observed_at] \in SignalRow
    BY DEF SignalRow, Signal
  <2>2. QED
    BY <1>1, <2>1 DEF DiscoverSignal, StoreTypeOK, SignalRow, Signal
<1>2. CASE IgnoreStaleSignal(k, s)
  BY <1>2 DEF IgnoreStaleSignal, StoreTypeOK, SignalRow, Signal
<1>3. CASE RefreshSignal(k, s)
  <2>1. [signal |-> s, first_seen |-> signals[k].first_seen,
         last_seen |-> s.observed_at] \in SignalRow
    BY <1>3 DEF RefreshSignal, StoreTypeOK, SignalRow, Signal
  <2>2. QED
    BY <1>3, <2>1 DEF RefreshSignal, StoreTypeOK, SignalRow, Signal
<1>4. QED
  BY <1>1, <1>2, <1>3 DEF UpsertSignal

\* A signal ingest i writes, or withdraws without its batch holding it, keeps
\* every row authored and every written row kept.
LEMMA UpsertKeepsAuthors ==
    ASSUME TypeOK, SignalInv, NEW i \in Ingests, Begun(i),
           NEW k \in SignalKeys, NEW s \in Signal, UpsertSignal(k, s),
           s.observed_at = observedAt[i],
           k \in SignalsIn(batch[i]) => s = Observed(batch[i], k, observedAt[i]),
           UNCHANGED <<pc, batch, observedAt>>
    PROVE  /\ SignalsHaveAuthors'
           /\ signals'[k] # None /\ signals'[k].last_seen >= observedAt[i]
           /\ \A j \in Ingests : \A l \in signalsPut[j] :
                  signals'[l] # None /\ signals'[l].last_seen >= observedAt[j]
<1> DEFINE kept == signals[k] # None /\ signals'[k] = signals[k]
<1>1. /\ \A l \in SignalKeys \ {k} : signals'[l] = signals[l]
      /\ signals'[k] # None
      /\ signals'[k].last_seen >= s.observed_at
      /\ signals[k] # None => signals'[k].last_seen >= signals[k].last_seen
      /\ \/ kept
         \/ signals'[k].signal = s /\ signals'[k].last_seen = s.observed_at
  BY UpsertSignalEffect DEF TypeOK
<1>2. StoreTypeOK'
  BY UpsertSignalType DEF TypeOK
<1>3. ASSUME NEW l \in SignalKeys, signals'[l] # None
      PROVE  \E j \in Ingests : SignalAuthor(j, l)'
  <2>1. CASE signals'[l] = signals[l] /\ signals[l] # None
    BY <2>1 DEF SignalInv, SignalsHaveAuthors, SignalAuthor, Begun
  <2>2. CASE /\ l = k
             /\ signals'[k].signal = s /\ signals'[k].last_seen = s.observed_at
    BY <2>2 DEF SignalAuthor, Begun
  <2>3. QED
    BY <1>1, <1>3, <2>1, <2>2
<1>4. ASSUME NEW j \in Ingests, NEW l \in signalsPut[j]
      PROVE  signals'[l] # None /\ signals'[l].last_seen >= observedAt[j]
  <2>1. l \in SignalKeys /\ observedAt[j] \in Nat
    BY DEF TypeOK
  <2>2. signals[l] # None /\ signals[l].last_seen >= observedAt[j]
    BY DEF SignalInv, WrittenSignalsKept
  <2>3. signals[l] \in SignalRow /\ (signals'[l] # None => signals'[l] \in SignalRow)
    BY <1>2, <2>1, <2>2 DEF TypeOK, StoreTypeOK
  <2>4. QED
    BY <1>1, <2>1, <2>2, <2>3 DEF SignalRow
<1>5. QED
  BY <1>1, <1>3, <1>4 DEF SignalsHaveAuthors

LEMMA InitSignalInv == Init => SignalInv
BY DEF Init, StoreInit, SignalInv, SignalsInBatch, WrittenSignalsKept,
       SignalsHaveAuthors, Begun

\* A step that leaves the signals and what was written of them alone.
LEMMA QuietSignalStep ==
    ASSUME TypeOK, SignalInv,
           \A j \in Ingests : Begun(j) =>
               Begun(j)' /\ batch'[j] = batch[j] /\ observedAt'[j] = observedAt[j],
           UNCHANGED <<signals, signalsPut, withdrawals>>
    PROVE  SignalInv'
<1>1. SignalsInBatch'
  BY DEF SignalInv, SignalsInBatch
<1>2. WrittenSignalsKept'
  BY DEF SignalInv, SignalsInBatch, WrittenSignalsKept
<1>3. SignalsHaveAuthors'
  BY DEF SignalInv, SignalsHaveAuthors, SignalAuthor
<1>4. QED
  BY <1>1, <1>2, <1>3 DEF SignalInv

LEMMA NextSignalInv == TypeOK /\ SignalInv /\ [Next]_vars => SignalInv'
<1> SUFFICES ASSUME TypeOK, SignalInv, [Next]_vars PROVE SignalInv'
  OBVIOUS
<1>1. ASSUME NEW i \in Ingests, Begin(i) PROVE SignalInv'
  <2>1. \A j \in Ingests : Begun(j) =>
            Begun(j)' /\ batch'[j] = batch[j] /\ observedAt'[j] = observedAt[j]
    BY <1>1 DEF Begin, Begun, TypeOK
  <2>2. QED
    BY <1>1, <2>1, QuietSignalStep DEF Begin, storeVars
<1>2. ASSUME NEW i \in Ingests,
             \/ CountChangesBefore(i) \/ PutConsumer(i) \/ PutDependency(i)
             \/ RejectDependency(i) \/ ReconcileConsumers(i) \/ Summarise(i)
             \/ Die(i)
      PROVE  SignalInv'
  <2>1. UNCHANGED <<signals, signalsPut, withdrawals, batch, observedAt>>
    BY <1>2 DEF CountChangesBefore, PutConsumer, PutDependency,
                RejectDependency, ReconcileConsumers, Summarise, Die,
                UpsertConsumer, UpsertDependency, ReconcileConsumerSnapshot,
                storeVars
  <2>2. \A j \in Ingests : Begun(j) => Begun(j)'
    BY <1>2 DEF CountChangesBefore, PutConsumer, PutDependency,
                RejectDependency, ReconcileConsumers, Summarise, Die, Begun,
                TypeOK
  <2>3. QED
    BY <2>1, <2>2, QuietSignalStep
<1>3. ASSUME NEW i \in Ingests, PutSignal(i) PROVE SignalInv'
  <2>1. PICK k \in SignalsIn(batch[i]) \ signalsPut[i] :
            /\ UpsertSignal(k, Observed(batch[i], k, observedAt[i]))
            /\ signalsPut' = [signalsPut EXCEPT ![i] = @ \cup {k}]
    BY <1>3 DEF PutSignal
  <2> DEFINE s == Observed(batch[i], k, observedAt[i])
  <2>2. Begun(i) /\ batch[i] \in Batches /\ observedAt[i] \in Nat
    BY <1>3 DEF PutSignal, EdgesWritten, Begun, TypeOK
  <2>3. k \in SignalKeys /\ s \in Signal /\ s.observed_at = observedAt[i]
    BY <2>2, ObservedType DEF SignalsIn, Observed
  <2>4. UNCHANGED <<pc, batch, observedAt, withdrawals>>
    BY <1>3 DEF PutSignal
  <2>5. /\ SignalsHaveAuthors'
        /\ signals'[k] # None /\ signals'[k].last_seen >= observedAt[i]
        /\ \A j \in Ingests : \A l \in signalsPut[j] :
               signals'[l] # None /\ signals'[l].last_seen >= observedAt[j]
    <3> HIDE DEF s
    <3>1. UpsertSignal(k, s) /\ s = Observed(batch[i], k, observedAt[i])
      BY <2>1 DEF s
    <3>2. QED
      BY <2>2, <2>3, <2>4, <3>1, UpsertKeepsAuthors
  <2>6. \A j \in Ingests : \A l \in signalsPut'[j] :
            l \in signalsPut[j] \/ (j = i /\ l = k)
    BY <2>1 DEF TypeOK
  <2>7. SignalsInBatch'
    BY <2>1, <2>2, <2>4, <2>6 DEF SignalInv, SignalsInBatch, Begun, TypeOK
  <2>8. WrittenSignalsKept'
    BY <2>4, <2>5, <2>6 DEF WrittenSignalsKept
  <2>9. QED
    BY <2>5, <2>7, <2>8 DEF SignalInv
<1>4. ASSUME NEW i \in Ingests, ListActiveSignals(i) PROVE SignalInv'
  <2>1. UNCHANGED <<signals, signalsPut, batch, observedAt>>
    BY <1>4 DEF ListActiveSignals, storeVars
  <2>2. \A j \in Ingests : Begun(j) => Begun(j)'
    BY <1>4 DEF ListActiveSignals, Begun, TypeOK
  <2>3. Begun(i)
    BY <1>4 DEF ListActiveSignals, EdgesWritten, Begun
  <2>4. \A j \in Ingests, k \in SignalKeys : withdrawals'[j][k] # None =>
            \/ withdrawals[j][k] # None
            \/ j = i /\ k \notin SignalsIn(batch[i])
    BY <1>4 DEF ListActiveSignals, Missing, TypeOK
  <2>5. SignalsInBatch'
    BY <2>1, <2>2, <2>3, <2>4 DEF SignalInv, SignalsInBatch
  <2>6. WrittenSignalsKept' /\ SignalsHaveAuthors'
    BY <2>1, <2>2 DEF SignalInv, WrittenSignalsKept, SignalsHaveAuthors,
                      SignalAuthor
  <2>7. QED
    BY <2>5, <2>6 DEF SignalInv
<1>5. ASSUME NEW i \in Ingests, WithdrawSignal(i) PROVE SignalInv'
  <2>1. PICK k \in SignalKeys :
            /\ withdrawals[i][k] # None
            /\ UpsertSignal(k, Withdrawn(withdrawals[i][k], observedAt[i]))
            /\ withdrawals' = [withdrawals EXCEPT ![i][k] = None]
    BY <1>5 DEF WithdrawSignal
  <2> DEFINE s == Withdrawn(withdrawals[i][k], observedAt[i])
  <2>2. Begun(i) /\ k \notin SignalsIn(batch[i])
    BY <2>1 DEF SignalInv, SignalsInBatch
  <2>3. s \in Signal /\ s.observed_at = observedAt[i]
    <3>1. withdrawals[i][k] \in Signal /\ observedAt[i] \in Nat
      BY <2>1 DEF TypeOK
    <3>2. QED
      BY <3>1, WithdrawnType
  <2>4. UNCHANGED <<pc, batch, observedAt, signalsPut>>
    BY <1>5 DEF WithdrawSignal
  <2>5. /\ SignalsHaveAuthors'
        /\ \A j \in Ingests : \A l \in signalsPut[j] :
               signals'[l] # None /\ signals'[l].last_seen >= observedAt[j]
    <3> HIDE DEF s
    <3>1. UpsertSignal(k, s)
      BY <2>1 DEF s
    <3>2. QED
      BY <2>2, <2>3, <2>4, <3>1, UpsertKeepsAuthors
  <2>6. \A j \in Ingests, l \in SignalKeys :
            withdrawals'[j][l] # None => withdrawals[j][l] # None
    BY <2>1 DEF TypeOK
  <2>7. SignalsInBatch'
    BY <2>4, <2>6 DEF SignalInv, SignalsInBatch, Begun
  <2>8. WrittenSignalsKept'
    BY <2>4, <2>5 DEF WrittenSignalsKept
  <2>9. QED
    BY <2>5, <2>7, <2>8 DEF SignalInv
<1>6. CASE UNCHANGED vars
  BY <1>6, QuietSignalStep DEF vars, storeVars, ingestVars, Begun
<1>7. QED
  BY <1>1, <1>2, <1>3, <1>4, <1>5, <1>6 DEF Next, Step

-----------------------------------------------------------------------------
(***************************************************************************)
(* The newest evidence stands: consumers and edges                         *)
(*                                                                         *)
(* The same two halves, except that a reconcile deletes rows: what an      *)
(* ingest wrote is kept, or another snapshot at least as recent did not    *)
(* have it.                                                                *)
(***************************************************************************)

\* Another begun snapshot, at least as recent as i, lacks consumer c of i.
Superseded(i, c) ==
    \E j \in Ingests \ {i} :
        /\ Begun(j)
        /\ observedAt[j] >= observedAt[i]
        /\ batch[j].consumersAuthoritative
        /\ c \in ConsumersIn(batch[i]) \ ConsumersIn(batch[j])

\* Another begun ingest is at least as recent as i.
Contested(i) ==
    \E j \in Ingests \ {i} : Begun(j) /\ observedAt[j] >= observedAt[i]

\* An ingest writes only what its batch holds, an edge after its consumer.
ConsumersInBatch ==
    \A i \in Ingests :
        /\ consumersPut[i] # {} \/ dependenciesPut[i] # {} => Begun(i)
        /\ consumersPut[i] \subseteq ConsumersIn(batch[i])
        /\ dependenciesPut[i] \subseteq DependenciesIn(batch[i])
        /\ \A d \in dependenciesPut[i] : d[1] \in consumersPut[i]

WrittenConsumersKept ==
    \A i \in Ingests : \A c \in consumersPut[i] :
        \/ consumers[c] # None /\ consumers[c].last_seen >= observedAt[i]
        \/ Superseded(i, c)

WrittenEdgesKept ==
    \A i \in Ingests : \A d \in dependenciesPut[i] :
        \/ dependencies[d] # None /\ dependencies[d].last_seen >= observedAt[i]
        \/ Contested(i)

ConsumerAuthor(i, c) ==
    /\ Begun(i)
    /\ consumers[c] = [payload |-> batch[i].consumers[c],
                       last_seen |-> observedAt[i]]

EdgeAuthor(i, d) ==
    /\ Begun(i)
    /\ dependencies[d] = [payload |-> batch[i].dependencies[d],
                          last_seen |-> observedAt[i]]

ConsumersHaveAuthors ==
    /\ \A c \in ConsumerIds : consumers[c] # None =>
           \E i \in Ingests : ConsumerAuthor(i, c)
    /\ \A d \in DependencyKeys : dependencies[d] # None =>
           \E i \in Ingests : EdgeAuthor(i, d)

ConsumerInv ==
    /\ ConsumersInBatch
    /\ WrittenConsumersKept
    /\ WrittenEdgesKept
    /\ ConsumersHaveAuthors
    /\ NoOrphanEdges
    /\ RejectedOnlyByNewerSnapshot

LEMMA InitConsumerInv == Init => ConsumerInv
BY DEF Init, StoreInit, ConsumerInv, ConsumersInBatch, WrittenConsumersKept,
       WrittenEdgesKept, ConsumersHaveAuthors, NoOrphanEdges,
       RejectedOnlyByNewerSnapshot, DependencyKeys, Begun

\* Begun ingests stay begun, with their batch and time.
LEMMA BegunStable ==
    ASSUME TypeOK, [Next]_vars, NEW j \in Ingests, Begun(j)
    PROVE  Begun(j)' /\ batch'[j] = batch[j] /\ observedAt'[j] = observedAt[j]
<1>1. ASSUME NEW i \in Ingests, Begin(i)
      PROVE  Begun(j)' /\ batch'[j] = batch[j] /\ observedAt'[j] = observedAt[j]
  BY <1>1 DEF Begin, Begun, TypeOK
<1>2. ASSUME NEW i \in Ingests, Step(i) \/ Die(i)
      PROVE  Begun(j)' /\ batch'[j] = batch[j] /\ observedAt'[j] = observedAt[j]
  BY <1>2 DEF Step, CountChangesBefore, PutConsumer, PutDependency,
              RejectDependency, PutSignal, ListActiveSignals, WithdrawSignal,
              ReconcileConsumers, Summarise, Die, Begun, TypeOK
<1>3. CASE UNCHANGED vars
  BY <1>3 DEF vars, ingestVars, Begun
<1>4. QED
  BY <1>1, <1>2, <1>3 DEF Next

\* Hence what supersedes or contests an ingest does so for ever.
LEMMA SupersededStable ==
    ASSUME TypeOK, [Next]_vars, NEW i \in Ingests, Begun(i)
    PROVE  /\ Contested(i) => Contested(i)'
           /\ \A c \in ConsumerIds : Superseded(i, c) => Superseded(i, c)'
BY BegunStable DEF Contested, Superseded

\* A step that leaves the consumer tables and what was written of them alone,
\* and rejects nobody.
LEMMA QuietConsumerStep ==
    ASSUME TypeOK, [Next]_vars, ConsumerInv,
           UNCHANGED <<consumers, dependencies, consumersPut, dependenciesPut>>,
           \A i \in Ingests : pc'[i] = "rejected" => pc[i] = "rejected"
    PROVE  ConsumerInv'
<1>1. ConsumersInBatch'
  BY BegunStable DEF ConsumerInv, ConsumersInBatch
<1>2. WrittenConsumersKept'
  <2> SUFFICES ASSUME NEW i \in Ingests, NEW c \in consumersPut[i]
               PROVE  \/ /\ consumers[c] # None
                         /\ consumers[c].last_seen >= observedAt'[i]
                      \/ Superseded(i, c)'
    BY DEF WrittenConsumersKept
  <2>1. Begun(i) /\ c \in ConsumerIds
    BY DEF ConsumerInv, ConsumersInBatch, TypeOK
  <2>2. QED
    BY <2>1, BegunStable, SupersededStable DEF ConsumerInv, WrittenConsumersKept
<1>3. WrittenEdgesKept'
  <2> SUFFICES ASSUME NEW i \in Ingests, NEW d \in dependenciesPut[i]
               PROVE  \/ /\ dependencies[d] # None
                         /\ dependencies[d].last_seen >= observedAt'[i]
                      \/ Contested(i)'
    BY DEF WrittenEdgesKept
  <2>1. Begun(i)
    BY DEF ConsumerInv, ConsumersInBatch
  <2>2. QED
    BY <2>1, BegunStable, SupersededStable DEF ConsumerInv, WrittenEdgesKept
<1>4. ConsumersHaveAuthors'
  BY BegunStable DEF ConsumerInv, ConsumersHaveAuthors, ConsumerAuthor, EdgeAuthor
<1>5. NoOrphanEdges'
  BY DEF ConsumerInv, NoOrphanEdges
<1>6. RejectedOnlyByNewerSnapshot'
  <2> SUFFICES ASSUME NEW i \in Ingests, pc[i] = "rejected"
               PROVE  (\E j \in Ingests \ {i} :
                          /\ Begun(j)
                          /\ observedAt[j] >= observedAt[i]
                          /\ batch[j].consumersAuthoritative
                          /\ ConsumersIn(batch[i]) \ ConsumersIn(batch[j]) # {})'
    BY DEF RejectedOnlyByNewerSnapshot
  <2>1. Begun(i)
    BY DEF Begun
  <2>2. QED
    BY <2>1, BegunStable DEF ConsumerInv, RejectedOnlyByNewerSnapshot
<1>7. QED
  BY <1>1, <1>2, <1>3, <1>4, <1>5, <1>6 DEF ConsumerInv

\* A timestamped upsert never moves a row back, and either keeps it or makes
\* it the work of the caller.
LEMMA SeenEffect ==
    ASSUME NEW row \in EvidenceRow \cup {None}, NEW p \in Payloads, NEW t \in Nat
    PROVE  /\ Seen(row, p, t) \in EvidenceRow
           /\ Seen(row, p, t) # None
           /\ Seen(row, p, t).last_seen >= t
           /\ row # None => Seen(row, p, t).last_seen >= row.last_seen
           /\ \/ Seen(row, p, t) = row /\ row # None
              \/ Seen(row, p, t) = [payload |-> p, last_seen |-> t]
BY NoneAssumption DEF Seen, EvidenceRow

LEMMA PutConsumerInv ==
    ASSUME TypeOK, [Next]_vars, ConsumerInv, NEW i \in Ingests, PutConsumer(i)
    PROVE  ConsumerInv'
<1>1. PICK c \in ConsumersIn(batch[i]) \ consumersPut[i] :
          /\ UpsertConsumer(c, batch[i].consumers[c], observedAt[i])
          /\ consumersPut' = [consumersPut EXCEPT ![i] = @ \cup {c}]
  BY DEF PutConsumer
<1> DEFINE row == Seen(consumers[c], batch[i].consumers[c], observedAt[i])
<1>2. /\ Begun(i)
      /\ c \in ConsumerIds
      /\ batch[i].consumers[c] \in Payloads
      /\ observedAt[i] \in Nat
      /\ consumers[c] \in EvidenceRow \cup {None}
  <2>1. Begun(i) /\ batch[i] \in Batches
    BY DEF PutConsumer, Begun, TypeOK
  <2>2. c \in ConsumerIds /\ batch[i].consumers[c] \in Payloads
    BY <1>1, <2>1, IngestAssumption DEF ConsumersIn, Batch
  <2>3. QED
    BY <2>1, <2>2 DEF TypeOK, StoreTypeOK
<1>3. UNCHANGED <<pc, batch, observedAt, dependencies, dependenciesPut>>
  BY <1>1 DEF PutConsumer, UpsertConsumer
<1>4. /\ consumers'[c] = row
      /\ \A b \in ConsumerIds \ {c} : consumers'[b] = consumers[b]
  BY <1>1, <1>2 DEF UpsertConsumer, TypeOK, StoreTypeOK
<1>5. /\ row \in EvidenceRow
      /\ row # None
      /\ row.last_seen >= observedAt[i]
      /\ consumers[c] # None => row.last_seen >= consumers[c].last_seen
      /\ \/ row = consumers[c] /\ consumers[c] # None
         \/ row = [payload |-> batch[i].consumers[c], last_seen |-> observedAt[i]]
  BY <1>2, SeenEffect
<1> HIDE DEF row
<1>6. \A j \in Ingests : \A b \in consumersPut'[j] :
          b \in consumersPut[j] \/ (j = i /\ b = c)
  BY <1>1 DEF TypeOK
<1>7. \A j \in Ingests : consumersPut[j] \subseteq consumersPut'[j]
  BY <1>1 DEF TypeOK
<1>8. ConsumersInBatch'
  <2>1. c \in ConsumersIn(batch[i])
    BY <1>1
  <2>2. \A j \in Ingests : Begun(j)' = Begun(j)
    BY <1>3 DEF Begun
  <2>3. ASSUME NEW j \in Ingests
        PROVE  /\ consumersPut'[j] # {} => Begun(j)
               /\ consumersPut'[j] \subseteq ConsumersIn(batch[j])
    BY <1>2, <1>6, <2>1 DEF ConsumerInv, ConsumersInBatch
  <2>4. ASSUME NEW j \in Ingests, NEW d \in dependenciesPut[j]
        PROVE  d[1] \in consumersPut'[j]
    BY <1>7 DEF ConsumerInv, ConsumersInBatch
  <2>5. QED
    BY <1>3, <2>2, <2>3, <2>4 DEF ConsumerInv, ConsumersInBatch
<1>9. WrittenConsumersKept'
  <2> SUFFICES ASSUME NEW j \in Ingests, NEW b \in consumersPut'[j]
               PROVE  \/ /\ consumers'[b] # None
                         /\ consumers'[b].last_seen >= observedAt[j]
                      \/ Superseded(j, b)'
    BY <1>3 DEF WrittenConsumersKept
  <2>1. CASE j = i /\ b = c
    BY <2>1, <1>4, <1>5
  <2>2. CASE b \in consumersPut[j]
    <3>1. Begun(j) /\ b \in ConsumerIds /\ observedAt[j] \in Nat
      BY <2>2 DEF ConsumerInv, ConsumersInBatch, TypeOK
    <3>2. CASE Superseded(j, b)
      BY <3>1, <3>2, SupersededStable
    <3>3. CASE consumers[b] # None /\ consumers[b].last_seen >= observedAt[j]
      <4>1. consumers[b] \in EvidenceRow
        BY <3>1, <3>3 DEF TypeOK, StoreTypeOK
      <4>2. QED
        BY <3>1, <3>3, <4>1, <1>4, <1>5 DEF EvidenceRow
    <3>4. QED
      BY <2>2, <3>2, <3>3 DEF ConsumerInv, WrittenConsumersKept
  <2>3. QED
    BY <1>6, <2>1, <2>2
<1>10. WrittenEdgesKept'
  BY <1>3 DEF ConsumerInv, WrittenEdgesKept, Contested, Begun
<1>11. ConsumersHaveAuthors'
  <2>1. ASSUME NEW b \in ConsumerIds, consumers'[b] # None
        PROVE  \E j \in Ingests : ConsumerAuthor(j, b)'
    <3>1. CASE consumers'[b] = consumers[b]
      BY <2>1, <3>1, <1>3
         DEF ConsumerInv, ConsumersHaveAuthors, ConsumerAuthor, Begun
    <3>2. CASE b = c /\ row = [payload |-> batch[i].consumers[c],
                               last_seen |-> observedAt[i]]
      BY <3>2, <1>2, <1>3, <1>4 DEF ConsumerAuthor, Begun
    <3>3. QED
      BY <2>1, <3>1, <3>2, <1>4, <1>5
  <2>2. QED
    BY <2>1, <1>3 DEF ConsumerInv, ConsumersHaveAuthors, EdgeAuthor, Begun
<1>12. NoOrphanEdges'
  BY <1>3, <1>4, <1>5 DEF ConsumerInv, NoOrphanEdges, DependencyKeys
<1>13. RejectedOnlyByNewerSnapshot'
  BY <1>3 DEF ConsumerInv, RejectedOnlyByNewerSnapshot, Begun
<1>14. QED
  BY <1>8, <1>9, <1>10, <1>11, <1>12, <1>13 DEF ConsumerInv

LEMMA PutDependencyInv ==
    ASSUME TypeOK, [Next]_vars, ConsumerInv, NEW i \in Ingests, PutDependency(i)
    PROVE  ConsumerInv'
<1>1. PICK d \in DependenciesDue(i) :
          /\ UpsertDependency(d, batch[i].dependencies[d], observedAt[i])
          /\ dependenciesPut' = [dependenciesPut EXCEPT ![i] = @ \cup {d}]
  BY DEF PutDependency
<1> DEFINE row == Seen(dependencies[d], batch[i].dependencies[d], observedAt[i])
<1>2. /\ pc[i] = "writing"
      /\ consumersPut[i] = ConsumersIn(batch[i])
      /\ d \in DependenciesIn(batch[i])
  BY <1>1 DEF DependenciesDue
<1>3. /\ Begun(i)
      /\ batch[i] \in Batches
      /\ d \in DependencyKeys
      /\ batch[i].dependencies[d] \in Payloads
      /\ observedAt[i] \in Nat
      /\ dependencies[d] \in EvidenceRow \cup {None}
  BY <1>2, IngestAssumption
     DEF Begun, TypeOK, StoreTypeOK, DependenciesIn, Batch
<1>4. UNCHANGED <<pc, batch, observedAt, consumers, consumersPut>>
  BY <1>1 DEF PutDependency, UpsertDependency
<1>5. /\ dependencies'[d] = row
      /\ \A e \in DependencyKeys \ {d} : dependencies'[e] = dependencies[e]
  BY <1>1, <1>3 DEF UpsertDependency, TypeOK, StoreTypeOK
<1>6. /\ row \in EvidenceRow
      /\ row # None
      /\ row.last_seen >= observedAt[i]
      /\ dependencies[d] # None => row.last_seen >= dependencies[d].last_seen
      /\ \/ row = dependencies[d] /\ dependencies[d] # None
         \/ row = [payload |-> batch[i].dependencies[d],
                   last_seen |-> observedAt[i]]
  BY <1>3, SeenEffect
<1> HIDE DEF row
<1>7. \A j \in Ingests : \A e \in dependenciesPut'[j] :
          e \in dependenciesPut[j] \/ (j = i /\ e = d)
  BY <1>1 DEF TypeOK
<1>8. d[1] \in consumersPut[i]
  BY <1>2, <1>3, IngestAssumption DEF WellFormed
<1>9. ConsumersInBatch'
  BY <1>2, <1>3, <1>4, <1>7, <1>8 DEF ConsumerInv, ConsumersInBatch, Begun
<1>10. WrittenConsumersKept'
  BY <1>4 DEF ConsumerInv, WrittenConsumersKept, Superseded, Begun
<1>11. WrittenEdgesKept'
  <2> SUFFICES ASSUME NEW j \in Ingests, NEW e \in dependenciesPut'[j]
               PROVE  \/ /\ dependencies'[e] # None
                         /\ dependencies'[e].last_seen >= observedAt[j]
                      \/ Contested(j)'
    BY <1>4 DEF WrittenEdgesKept
  <2>1. CASE j = i /\ e = d
    BY <2>1, <1>5, <1>6
  <2>2. CASE e \in dependenciesPut[j]
    <3>1. Begun(j) /\ e \in DependencyKeys /\ observedAt[j] \in Nat
      BY <2>2 DEF ConsumerInv, ConsumersInBatch, TypeOK
    <3>2. CASE Contested(j)
      BY <3>1, <3>2, SupersededStable
    <3>3. CASE dependencies[e] # None /\ dependencies[e].last_seen >= observedAt[j]
      <4>1. dependencies[e] \in EvidenceRow
        BY <3>1, <3>3 DEF TypeOK, StoreTypeOK
      <4>2. QED
        BY <3>1, <3>3, <4>1, <1>5, <1>6 DEF EvidenceRow
    <3>4. QED
      BY <2>2, <3>2, <3>3 DEF ConsumerInv, WrittenEdgesKept
  <2>3. QED
    BY <1>7, <2>1, <2>2
<1>12. ConsumersHaveAuthors'
  <2>1. ASSUME NEW e \in DependencyKeys, dependencies'[e] # None
        PROVE  \E j \in Ingests : EdgeAuthor(j, e)'
    <3>1. CASE dependencies'[e] = dependencies[e]
      BY <2>1, <3>1, <1>4
         DEF ConsumerInv, ConsumersHaveAuthors, EdgeAuthor, Begun
    <3>2. CASE e = d /\ row = [payload |-> batch[i].dependencies[d],
                               last_seen |-> observedAt[i]]
      BY <3>2, <1>3, <1>4, <1>5 DEF EdgeAuthor, Begun
    <3>3. QED
      BY <2>1, <3>1, <3>2, <1>5, <1>6
  <2>2. QED
    BY <2>1, <1>4 DEF ConsumerInv, ConsumersHaveAuthors, ConsumerAuthor, Begun
<1>13. NoOrphanEdges'
  <2>1. consumers[d[1]] # None
    BY <1>1, <1>3 DEF UpsertDependency, ForeignKeyHolds, ConsumerInv, NoOrphanEdges
  <2>2. QED
    BY <2>1, <1>4, <1>5 DEF ConsumerInv, NoOrphanEdges
<1>14. RejectedOnlyByNewerSnapshot'
  BY <1>4 DEF ConsumerInv, RejectedOnlyByNewerSnapshot, Begun
<1>15. QED
  BY <1>9, <1>10, <1>11, <1>12, <1>13, <1>14 DEF ConsumerInv

\* A rejected edge belongs to a consumer the ingest had written, and only a
\* snapshot that supersedes it can have removed it since.
LEMMA RejectDependencyInv ==
    ASSUME TypeOK, [Next]_vars, ConsumerInv, NEW i \in Ingests,
           RejectDependency(i)
    PROVE  ConsumerInv'
<1>1. PICK d \in DependenciesDue(i) : ~ForeignKeyHolds(d)
  BY DEF RejectDependency
<1>2. /\ Begun(i)
      /\ batch[i] \in Batches
      /\ d \in DependenciesIn(batch[i])
      /\ consumersPut[i] = ConsumersIn(batch[i])
  BY <1>1 DEF DependenciesDue, Begun, TypeOK
<1>3. d[1] \in consumersPut[i]
  BY <1>2, IngestAssumption DEF WellFormed
<1>4. Superseded(i, d[1])
  BY <1>1, <1>3 DEF ForeignKeyHolds, ConsumerInv, WrittenConsumersKept
<1>5. UNCHANGED <<consumers, dependencies, consumersPut, dependenciesPut,
                  batch, observedAt>>
  BY DEF RejectDependency, storeVars
<1>6. /\ \A j \in Ingests : Begun(j)' = Begun(j)
      /\ \A j \in Ingests : pc'[j] = "rejected" => pc[j] = "rejected" \/ j = i
  BY <1>2 DEF RejectDependency, Begun, TypeOK
<1>7. ConsumersInBatch' /\ ConsumersHaveAuthors' /\ NoOrphanEdges'
  BY <1>5, <1>6
     DEF ConsumerInv, ConsumersInBatch, ConsumersHaveAuthors, ConsumerAuthor,
         EdgeAuthor, NoOrphanEdges
<1>8. WrittenConsumersKept' /\ WrittenEdgesKept'
  BY <1>5, <1>6
     DEF ConsumerInv, WrittenConsumersKept, WrittenEdgesKept, Superseded, Contested
<1>9. RejectedOnlyByNewerSnapshot'
  BY <1>4, <1>5, <1>6
     DEF ConsumerInv, RejectedOnlyByNewerSnapshot, Superseded
<1>10. QED
  BY <1>7, <1>8, <1>9 DEF ConsumerInv

LEMMA ReconcileInv ==
    ASSUME TypeOK, [Next]_vars, ConsumerInv, NEW i \in Ingests,
           ReconcileConsumers(i), batch[i].consumersAuthoritative
    PROVE  ConsumerInv'
<1> DEFINE b == batch[i]
           t == observedAt[i]
           gone == ObsoleteConsumers(ConsumersIn(b), t)
<1>1. ReconcileConsumerSnapshot(ConsumersIn(b), DependenciesIn(b), t)
  BY DEF ReconcileConsumers
<1>2. /\ Begun(i)
      /\ t \in Nat
      /\ UNCHANGED <<batch, observedAt, consumersPut, dependenciesPut>>
  BY DEF ReconcileConsumers, Begun, TypeOK
<1>3. /\ \A j \in Ingests : Begun(j)' = Begun(j)
      /\ \A j \in Ingests : pc'[j] = "rejected" => pc[j] = "rejected"
  BY <1>2 DEF ReconcileConsumers, Begun, TypeOK
<1>4. \A c \in ConsumerIds :
          consumers'[c] = IF c \in gone THEN None ELSE consumers[c]
  BY <1>1 DEF ReconcileConsumerSnapshot
<1>5. \A d \in DependencyKeys :
          \/ dependencies'[d] = dependencies[d] /\ d[1] \notin gone
          \/ dependencies'[d] = None /\ d[1] \in gone
          \/ /\ dependencies'[d] = None
             /\ d \notin DependenciesIn(b)
             /\ Obsolete(dependencies[d], t)
  BY <1>1 DEF ReconcileConsumerSnapshot
<1>6. \A c \in gone : /\ c \in ConsumerIds
                      /\ c \notin ConsumersIn(b)
                      /\ consumers[c] # None
                      /\ consumers[c].last_seen <= t
  BY DEF ObsoleteConsumers, Obsolete
<1> HIDE DEF gone
<1>7. ConsumersInBatch'
  BY <1>2, <1>3 DEF ConsumerInv, ConsumersInBatch
<1>8. ASSUME NEW j \in Ingests, NEW c \in consumersPut[j], c \in gone
      PROVE  Superseded(j, c)
  <2>1. c \in ConsumersIn(batch[j]) /\ observedAt[j] \in Nat
    BY DEF ConsumerInv, ConsumersInBatch, TypeOK
  <2>2. j # i
    BY <2>1, <1>6, <1>8
  <2>3. CASE consumers[c].last_seen >= observedAt[j]
    <3>1. consumers[c] \in EvidenceRow
      BY <1>6, <1>8 DEF TypeOK, StoreTypeOK
    <3>2. t >= observedAt[j]
      BY <2>1, <2>3, <3>1, <1>2, <1>6, <1>8 DEF EvidenceRow
    <3>3. QED
      BY <2>1, <2>2, <3>2, <1>2, <1>6, <1>8 DEF Superseded
  <2>4. QED
    BY <2>3 DEF ConsumerInv, WrittenConsumersKept
<1>9. WrittenConsumersKept'
  <2>1. \A j \in Ingests, c \in ConsumerIds : Superseded(j, c)' = Superseded(j, c)
    BY <1>2, <1>3 DEF Superseded
  <2>2. QED
    BY <2>1, <1>2, <1>4, <1>8
       DEF ConsumerInv, WrittenConsumersKept, TypeOK
<1>10. ASSUME NEW j \in Ingests, NEW d \in dependenciesPut[j],
              dependencies'[d] # dependencies[d]
       PROVE  Contested(j)
  <2>1. /\ d \in DependencyKeys
        /\ d[1] \in consumersPut[j]
        /\ d \in DependenciesIn(batch[j])
        /\ observedAt[j] \in Nat
    BY DEF ConsumerInv, ConsumersInBatch, TypeOK
  <2>2. CASE d[1] \in gone
    BY <2>1, <2>2, <1>8 DEF Superseded, Contested
  <2>3. CASE d \notin DependenciesIn(b) /\ Obsolete(dependencies[d], t)
    <3>1. j # i
      BY <2>1, <2>3
    <3>2. CASE dependencies[d].last_seen >= observedAt[j]
      <4>1. dependencies[d] \in EvidenceRow /\ dependencies[d].last_seen <= t
        BY <2>1, <2>3 DEF TypeOK, StoreTypeOK, Obsolete
      <4>2. t >= observedAt[j]
        BY <2>1, <3>2, <4>1, <1>2 DEF EvidenceRow
      <4>3. QED
        BY <3>1, <4>2, <1>2 DEF Contested
    <3>3. QED
      BY <3>2 DEF ConsumerInv, WrittenEdgesKept
  <2>4. QED
    BY <2>1, <2>2, <2>3, <1>5, <1>10
<1>11. WrittenEdgesKept'
  <2>1. \A j \in Ingests : Contested(j)' = Contested(j)
    BY <1>2, <1>3 DEF Contested
  <2>2. QED
    BY <2>1, <1>2, <1>10 DEF ConsumerInv, WrittenEdgesKept
<1>12. ConsumersHaveAuthors'
  BY <1>2, <1>3, <1>4, <1>5
     DEF ConsumerInv, ConsumersHaveAuthors, ConsumerAuthor, EdgeAuthor
<1>13. NoOrphanEdges'
  BY <1>4, <1>5 DEF ConsumerInv, NoOrphanEdges, DependencyKeys
<1>14. RejectedOnlyByNewerSnapshot'
  BY <1>2, <1>3 DEF ConsumerInv, RejectedOnlyByNewerSnapshot
<1>15. QED
  BY <1>7, <1>9, <1>11, <1>12, <1>13, <1>14 DEF ConsumerInv

LEMMA NextConsumerInv == TypeOK /\ ConsumerInv /\ [Next]_vars => ConsumerInv'
<1> SUFFICES ASSUME TypeOK, ConsumerInv, [Next]_vars PROVE ConsumerInv'
  OBVIOUS
<1>1. ASSUME NEW i \in Ingests,
             \/ Begin(i) \/ CountChangesBefore(i) \/ PutSignal(i)
             \/ ListActiveSignals(i) \/ WithdrawSignal(i) \/ Summarise(i)
             \/ Die(i)
      PROVE  ConsumerInv'
  <2>1. UNCHANGED <<consumers, dependencies, consumersPut, dependenciesPut>>
    BY <1>1 DEF Begin, CountChangesBefore, PutSignal, ListActiveSignals,
                WithdrawSignal, Summarise, Die, UpsertSignal, storeVars
  <2>2. \A j \in Ingests : pc'[j] = "rejected" => pc[j] = "rejected"
    BY <1>1 DEF Begin, CountChangesBefore, PutSignal, ListActiveSignals,
                WithdrawSignal, Summarise, Die, TypeOK
  <2>3. QED
    BY <2>1, <2>2, QuietConsumerStep
<1>2. ASSUME NEW i \in Ingests, PutConsumer(i) PROVE ConsumerInv'
  BY <1>2, PutConsumerInv
<1>3. ASSUME NEW i \in Ingests, PutDependency(i) PROVE ConsumerInv'
  BY <1>3, PutDependencyInv
<1>4. ASSUME NEW i \in Ingests, RejectDependency(i) PROVE ConsumerInv'
  BY <1>4, RejectDependencyInv
<1>5. ASSUME NEW i \in Ingests, ReconcileConsumers(i) PROVE ConsumerInv'
  <2>1. CASE batch[i].consumersAuthoritative
    BY <1>5, <2>1, ReconcileInv
  <2>2. CASE ~batch[i].consumersAuthoritative
    <3>1. /\ UNCHANGED <<consumers, dependencies, consumersPut, dependenciesPut>>
          /\ \A j \in Ingests : pc'[j] = "rejected" => pc[j] = "rejected"
      BY <1>5, <2>2 DEF ReconcileConsumers, storeVars, TypeOK
    <3>2. QED
      BY <3>1, QuietConsumerStep
  <2>3. QED
    BY <2>1, <2>2
<1>6. CASE UNCHANGED vars
  BY <1>6, QuietConsumerStep DEF vars, storeVars, ingestVars
<1>7. QED
  BY <1>1, <1>2, <1>3, <1>4, <1>5, <1>6 DEF Next, Step

-----------------------------------------------------------------------------
(***************************************************************************)
(* The theorems                                                            *)
(***************************************************************************)

LEMMA InvariantHolds == Spec => [](TypeOK /\ SignalInv /\ ConsumerInv)
<1>1. Init => TypeOK /\ SignalInv /\ ConsumerInv
  BY InitTypeOK, InitSignalInv, InitConsumerInv
<1>2. TypeOK /\ SignalInv /\ ConsumerInv /\ [Next]_vars
          => (TypeOK /\ SignalInv /\ ConsumerInv)'
  BY NextTypeOK, NextSignalInv, NextConsumerInv
<1>3. QED
  BY <1>1, <1>2, PTL DEF Spec

\* The author of a row at least as recent as the newest ingest is that ingest.
LEMMA NewestIsAuthor ==
    ASSUME TypeOK, NEW i \in Ingests, Newest(i), NEW j \in Ingests, Begun(j),
           observedAt[j] >= observedAt[i]
    PROVE  j = i
BY DEF Newest, TypeOK

LEMMA AuthorsImplyNewest ==
    TypeOK /\ SignalInv /\ ConsumerInv => NewestEvidenceStands
<1> SUFFICES ASSUME TypeOK, SignalInv, ConsumerInv, NEW i \in Ingests, Newest(i)
             PROVE  /\ \A k \in signalsPut[i] :
                           /\ signals[k] # None
                           /\ signals[k].signal =
                                  Observed(batch[i], k, observedAt[i])
                    /\ \A c \in consumersPut[i] : consumers[c] =
                           [payload |-> batch[i].consumers[c],
                            last_seen |-> observedAt[i]]
                    /\ \A d \in dependenciesPut[i] : dependencies[d] =
                           [payload |-> batch[i].dependencies[d],
                            last_seen |-> observedAt[i]]
  BY DEF NewestEvidenceStands
<1>1. ~Contested(i) /\ \A c \in ConsumerIds : ~Superseded(i, c)
  BY NewestIsAuthor DEF Contested, Superseded
<1>2. ASSUME NEW k \in signalsPut[i]
      PROVE  /\ signals[k] # None
             /\ signals[k].signal = Observed(batch[i], k, observedAt[i])
  <2>1. k \in SignalKeys /\ k \in SignalsIn(batch[i])
    BY DEF SignalInv, SignalsInBatch, TypeOK
  <2>2. signals[k] # None /\ signals[k].last_seen >= observedAt[i]
    BY DEF SignalInv, WrittenSignalsKept
  <2>3. PICK j \in Ingests : SignalAuthor(j, k)
    BY <2>1, <2>2 DEF SignalInv, SignalsHaveAuthors
  <2>4. j = i
    BY <2>2, <2>3, NewestIsAuthor DEF SignalAuthor
  <2>5. QED
    BY <2>1, <2>2, <2>3, <2>4 DEF SignalAuthor
<1>3. ASSUME NEW c \in consumersPut[i]
      PROVE  consumers[c] = [payload |-> batch[i].consumers[c],
                             last_seen |-> observedAt[i]]
  <2>1. c \in ConsumerIds
    BY DEF TypeOK
  <2>2. consumers[c] # None /\ consumers[c].last_seen >= observedAt[i]
    BY <2>1, <1>1 DEF ConsumerInv, WrittenConsumersKept
  <2>3. PICK j \in Ingests : ConsumerAuthor(j, c)
    BY <2>1, <2>2 DEF ConsumerInv, ConsumersHaveAuthors
  <2>4. j = i
    BY <2>2, <2>3, NewestIsAuthor DEF ConsumerAuthor
  <2>5. QED
    BY <2>3, <2>4 DEF ConsumerAuthor
<1>4. ASSUME NEW d \in dependenciesPut[i]
      PROVE  dependencies[d] = [payload |-> batch[i].dependencies[d],
                                last_seen |-> observedAt[i]]
  <2>1. d \in DependencyKeys
    BY DEF TypeOK
  <2>2. dependencies[d] # None /\ dependencies[d].last_seen >= observedAt[i]
    BY <1>1 DEF ConsumerInv, WrittenEdgesKept
  <2>3. PICK j \in Ingests : EdgeAuthor(j, d)
    BY <2>1, <2>2 DEF ConsumerInv, ConsumersHaveAuthors
  <2>4. j = i
    BY <2>2, <2>3, NewestIsAuthor DEF EdgeAuthor
  <2>5. QED
    BY <2>3, <2>4 DEF EdgeAuthor
<1>5. QED
  BY <1>2, <1>3, <1>4

\* Whatever the number of overlapping imports, their times, their batches and
\* where they die: what the strictly newest one wrote stands as it wrote it.
THEOREM NewestEvidence == Spec => []NewestEvidenceStands
BY InvariantHolds, AuthorsImplyNewest, PTL

\* No interleaving of imports leaves an edge without its consumer.
THEOREM EdgesHaveConsumers == Spec => []NoOrphanEdges
<1>1. TypeOK /\ SignalInv /\ ConsumerInv => NoOrphanEdges
  BY DEF ConsumerInv
<1>2. QED
  BY <1>1, InvariantHolds, PTL

\* An import fails on the foreign key only because of another one at least as
\* recent whose consumer map lacks the consumer.
THEOREM RejectionsExplained == Spec => []RejectedOnlyByNewerSnapshot
<1>1. TypeOK /\ SignalInv /\ ConsumerInv => RejectedOnlyByNewerSnapshot
  BY DEF ConsumerInv
<1>2. QED
  BY <1>1, InvariantHolds, PTL

\* No step of any import takes a stored signal back in time, or rewrites the
\* log.
THEOREM NeverRegresses == Spec => EvidenceNeverRegresses
<1> DEFINE Kept == /\ \A k \in SignalKeys : RowAdvances(k)
                   /\ Len(changes') >= Len(changes)
                   /\ \A n \in 1..Len(changes) : changes'[n] = changes[n]
<1>1. ASSUME TypeOK, UNCHANGED <<signals, changes>> PROVE Kept
  BY <1>1 DEF TypeOK, StoreTypeOK, RowAdvances
<1>2. ASSUME TypeOK, NEW k \in SignalKeys, NEW s \in Signal, UpsertSignal(k, s)
      PROVE  Kept
  <2>1. /\ \A l \in SignalKeys \ {k} : signals'[l] = signals[l]
        /\ signals'[k] # None
        /\ signals[k] # None => signals'[k].last_seen >= signals[k].last_seen
    BY <1>2, UpsertSignalEffect DEF TypeOK
  <2>2. signals[k] # None => signals'[k].first_seen = signals[k].first_seen
    BY <1>2 DEF UpsertSignal, DiscoverSignal, IgnoreStaleSignal, RefreshSignal,
                TypeOK, StoreTypeOK
  <2>3. \A l \in SignalKeys : RowAdvances(l)
    BY <2>1, <2>2 DEF RowAdvances
  <2>4. changes' = changes \/ \E e : changes' = Append(changes, e)
    BY <1>2 DEF UpsertSignal, DiscoverSignal, IgnoreStaleSignal, RefreshSignal,
                AppendChange
  <2>5. /\ Len(changes') >= Len(changes)
        /\ \A n \in 1..Len(changes) : changes'[n] = changes[n]
    BY <2>4 DEF TypeOK, StoreTypeOK
  <2>6. QED
    BY <2>3, <2>5
<1>3. TypeOK /\ [Next]_vars => [Kept]_vars
  <2> SUFFICES ASSUME TypeOK, [Next]_vars PROVE Kept
    OBVIOUS
  <2> HIDE DEF Kept
  <2>1. ASSUME NEW i \in Ingests, PutSignal(i) PROVE Kept
    <3>1. batch[i] \in Batches /\ observedAt[i] \in Nat
      BY <2>1 DEF PutSignal, EdgesWritten, TypeOK, Begun
    <3>2. PICK k \in SignalsIn(batch[i]) :
              UpsertSignal(k, Observed(batch[i], k, observedAt[i]))
      BY <2>1 DEF PutSignal
    <3>3. k \in SignalKeys /\ Observed(batch[i], k, observedAt[i]) \in Signal
      BY <3>1, ObservedType DEF SignalsIn
    <3>4. QED
      BY <3>2, <3>3, <1>2
  <2>2. ASSUME NEW i \in Ingests, WithdrawSignal(i) PROVE Kept
    <3>1. PICK k \in SignalKeys :
              /\ withdrawals[i][k] # None
              /\ UpsertSignal(k, Withdrawn(withdrawals[i][k], observedAt[i]))
      BY <2>2 DEF WithdrawSignal
    <3>2. withdrawals[i][k] \in Signal /\ observedAt[i] \in Nat
      BY <3>1 DEF TypeOK
    <3>3. QED
      BY <3>1, <3>2, WithdrawnType, <1>2
  <2>3. ASSUME NEW i \in Ingests,
               \/ Begin(i) \/ CountChangesBefore(i) \/ PutConsumer(i)
               \/ PutDependency(i) \/ RejectDependency(i) \/ ListActiveSignals(i)
               \/ ReconcileConsumers(i) \/ Summarise(i) \/ Die(i)
        PROVE  Kept
    <3>1. UNCHANGED <<signals, changes>>
      BY <2>3 DEF Begin, CountChangesBefore, PutConsumer, PutDependency,
                  RejectDependency, ListActiveSignals, ReconcileConsumers,
                  Summarise, Die, UpsertConsumer, UpsertDependency,
                  ReconcileConsumerSnapshot, storeVars
    <3>2. QED
      BY <3>1, <1>1
  <2>4. CASE UNCHANGED vars
    BY <2>4, <1>1 DEF vars, storeVars
  <2>5. QED
    BY <2>1, <2>2, <2>3, <2>4 DEF Next, Step
<1>4. QED
  BY <1>3, TypeCorrect, PTL DEF Spec, EvidenceNeverRegresses

-----------------------------------------------------------------------------
(***************************************************************************)
(* The change log implements ChangeFeed                                    *)
(***************************************************************************)

FeedOf(log) == [n \in 1..Len(log) |-> FeedEntry(log[n])]

\* Appending to the log appends the entry's view to the feed.
LEMMA FeedAppend ==
    ASSUME NEW log \in Seq(Change), NEW entry \in Change
    PROVE  FeedOf(Append(log, entry)) = Append(FeedOf(log), FeedEntry(entry))
<1> DEFINE longer == Append(log, entry)
           feed == FeedOf(log)
           wanted == Append(feed, FeedEntry(entry))
<1>1. /\ Len(longer) = Len(log) + 1
      /\ \A n \in 1..Len(log) : longer[n] = log[n]
      /\ longer[Len(log) + 1] = entry
  OBVIOUS
<1>2. Len(log) \in Nat
  OBVIOUS
<1>3. feed \in Seq({FeedEntry(log[n]) : n \in 1..Len(log)} \cup {FeedEntry(entry)})
  BY <1>2 DEF FeedOf
<1>4. Len(feed) = Len(log)
  BY <1>2, <1>3 DEF FeedOf
<1>5. /\ wanted \in Seq({FeedEntry(log[n]) : n \in 1..Len(log)} \cup {FeedEntry(entry)})
      /\ Len(wanted) = Len(log) + 1
      /\ \A n \in 1..Len(log) : wanted[n] = feed[n]
      /\ wanted[Len(log) + 1] = FeedEntry(entry)
  BY <1>3, <1>4
<1>6. FeedOf(longer) \in
          Seq({FeedEntry(log[n]) : n \in 1..Len(log)} \cup {FeedEntry(entry)})
  BY <1>1, <1>2 DEF FeedOf
<1>7. Len(FeedOf(longer)) = Len(log) + 1
  BY <1>1, <1>2, <1>6 DEF FeedOf
<1>8. \A n \in 1..(Len(log) + 1) : FeedOf(longer)[n] = wanted[n]
  BY <1>1, <1>2, <1>5 DEF FeedOf
<1>9. QED
  BY <1>5, <1>6, <1>7, <1>8, SeqEqual

LEMMA FeedEmpty == FeedOf(<<>>) = <<>>
<1>1. FeedOf(<<>>) \in Seq({}) /\ Len(FeedOf(<<>>)) = 0
  BY DEF FeedOf
<1>2. QED
  BY <1>1

\* One signal's view moved to s, together with the entry that says so.
LEMMA TransitionStep ==
    ASSUME TypeOK, StoreTypeOK', NEW k \in SignalKeys, NEW entry \in Change,
           NEW row \in SignalRow,
           signals' = [signals EXCEPT ![k] = row],
           changes' = Append(changes, entry),
           entry.signal_key = k, entry.current = row.signal,
           MaterialOrNone(entry.previous) = View[k],
           View[k] # Material(row.signal)
    PROVE  Feed!Next
<1>1. Material(row.signal) \in MaterialSignal
  BY DEF Material, MaterialSignal, SignalRow, Signal
<1>2. View' = [View EXCEPT ![k] = Material(row.signal)]
  BY NoneAssumption DEF View, TypeOK, StoreTypeOK
<1>3. FeedOf(changes)' = Append(FeedOf(changes), FeedEntry(entry))
  BY FeedAppend DEF TypeOK, StoreTypeOK
<1>4. FeedEntry(entry) = [key |-> k, from |-> View[k], to |-> Material(row.signal)]
  BY DEF FeedEntry
<1>5. QED
  BY <1>1, <1>2, <1>3, <1>4 DEF Feed!Next, Feed!Transition, FeedOf

LEMMA UpsertImplementsFeed ==
    ASSUME TypeOK, NEW k \in SignalKeys, NEW s \in Signal, UpsertSignal(k, s)
    PROVE  Feed!Next \/ UNCHANGED <<View, FeedOf(changes)>>
<1> USE NoneAssumption
<1>1. StoreTypeOK'
  BY UpsertSignalType DEF TypeOK
<1>2. CASE DiscoverSignal(k, s)
  <2> DEFINE row == [signal |-> s, first_seen |-> s.observed_at,
                     last_seen |-> s.observed_at]
             entry == [signal_key |-> k, change_type |-> "discovered",
                       recorded_at |-> s.observed_at, previous |-> None,
                       current |-> s]
  <2>1. row \in SignalRow /\ row.signal = s
    BY DEF SignalRow, Signal
  <2>2. /\ entry \in Change
        /\ entry.signal_key = k /\ entry.current = s /\ entry.previous = None
    BY DEF Change, ChangeTypes, Signal
  <2>3. signals' = [signals EXCEPT ![k] = row] /\ changes' = Append(changes, entry)
    BY <1>2 DEF DiscoverSignal, AppendChange
  <2>4. View[k] = None /\ Material(s) # None
    BY <1>2, IngestAssumption
       DEF DiscoverSignal, View, Material, MaterialSignal, Signal
  <2>5. MaterialOrNone(entry.previous) = View[k]
    BY <2>2, <2>4 DEF MaterialOrNone
  <2> HIDE DEF row, entry
  <2>6. QED
    BY <1>1, <2>1, <2>2, <2>3, <2>4, <2>5, TransitionStep
<1>3. CASE IgnoreStaleSignal(k, s)
  BY <1>3 DEF IgnoreStaleSignal, View, FeedOf
<1>4. CASE RefreshSignal(k, s)
  <2> DEFINE previous == signals[k].signal
             row == [signal |-> s, first_seen |-> signals[k].first_seen,
                     last_seen |-> s.observed_at]
             entry == [signal_key |-> k,
                       change_type |-> ChangeType(previous, s),
                       recorded_at |-> s.observed_at,
                       previous |-> previous, current |-> s]
  <2>1. signals[k] \in SignalRow /\ previous \in Signal
    BY <1>4 DEF RefreshSignal, TypeOK, StoreTypeOK, SignalRow
  <2>2. row \in SignalRow /\ row.signal = s
    BY <2>1 DEF SignalRow, Signal
  <2>3. signals' = [signals EXCEPT ![k] = row]
    BY <1>4 DEF RefreshSignal
  <2>4. View[k] = Material(previous)
    BY <1>4 DEF RefreshSignal, View
  <2>5. CASE Material(previous) = Material(s)
    <3>1. View' = View
      BY <2>2, <2>3, <2>4, <2>5 DEF View, TypeOK, StoreTypeOK
    <3>2. QED
      BY <1>4, <2>5, <3>1 DEF RefreshSignal, FeedOf
  <2>6. CASE Material(previous) # Material(s)
    <3>1. changes' = Append(changes, entry)
      BY <1>4, <2>6 DEF RefreshSignal, AppendChange
    <3>2. ChangeType(previous, s) \in ChangeTypes
      BY DEF ChangeType, ChangeTypes
    <3>3. /\ entry \in Change
          /\ entry.signal_key = k /\ entry.current = s
          /\ entry.previous = previous
      BY <2>1, <3>2 DEF Change, Signal
    <3>4. MaterialOrNone(entry.previous) = View[k]
      BY <2>1, <2>4, <3>3 DEF MaterialOrNone
    <3>5. View[k] # Material(s)
      BY <2>4, <2>6
    <3> HIDE DEF row, entry, previous
    <3>6. QED
      BY <1>1, <2>2, <2>3, <3>1, <3>3, <3>4, <3>5, TransitionStep
  <2>7. QED
    BY <2>5, <2>6
<1>5. QED
  BY <1>2, <1>3, <1>4 DEF UpsertSignal

\* Overlapping, dying, back-dated imports: to a reader of the change feed they
\* are one sequence of transitions, each told exactly once.
THEOREM IngestImplementsChangeFeed == Spec => ImplementsChangeFeed
<1>1. Init => Feed!Init
  BY FeedEmpty DEF Init, StoreInit, Feed!Init, View, FeedOf
<1>2. TypeOK /\ [Next]_vars => Feed!Next \/ UNCHANGED <<View, FeedOf(changes)>>
  <2> SUFFICES ASSUME TypeOK, [Next]_vars
               PROVE  Feed!Next \/ UNCHANGED <<View, FeedOf(changes)>>
    OBVIOUS
  <2>1. ASSUME NEW i \in Ingests, PutSignal(i)
        PROVE  Feed!Next \/ UNCHANGED <<View, FeedOf(changes)>>
    <3>1. batch[i] \in Batches /\ observedAt[i] \in Nat
      BY <2>1 DEF PutSignal, EdgesWritten, TypeOK, Begun
    <3>2. PICK k \in SignalsIn(batch[i]) :
              UpsertSignal(k, Observed(batch[i], k, observedAt[i]))
      BY <2>1 DEF PutSignal
    <3>3. k \in SignalKeys /\ Observed(batch[i], k, observedAt[i]) \in Signal
      BY <3>1, ObservedType DEF SignalsIn
    <3>4. QED
      BY <3>2, <3>3, UpsertImplementsFeed
  <2>2. ASSUME NEW i \in Ingests, WithdrawSignal(i)
        PROVE  Feed!Next \/ UNCHANGED <<View, FeedOf(changes)>>
    <3>1. PICK k \in SignalKeys :
              /\ withdrawals[i][k] # None
              /\ UpsertSignal(k, Withdrawn(withdrawals[i][k], observedAt[i]))
      BY <2>2 DEF WithdrawSignal
    <3>2. withdrawals[i][k] \in Signal /\ observedAt[i] \in Nat
      BY <3>1 DEF TypeOK
    <3>3. Withdrawn(withdrawals[i][k], observedAt[i]) \in Signal
      BY <3>2, WithdrawnType
    <3>4. QED
      BY <3>1, <3>3, UpsertImplementsFeed
  <2>3. ASSUME NEW i \in Ingests,
               \/ Begin(i) \/ CountChangesBefore(i) \/ PutConsumer(i)
               \/ PutDependency(i) \/ RejectDependency(i) \/ ListActiveSignals(i)
               \/ ReconcileConsumers(i) \/ Summarise(i) \/ Die(i)
        PROVE  UNCHANGED <<View, FeedOf(changes)>>
    <3>1. UNCHANGED <<signals, changes>>
      BY <2>3 DEF Begin, CountChangesBefore, PutConsumer, PutDependency,
                  RejectDependency, ListActiveSignals, ReconcileConsumers,
                  Summarise, Die, UpsertConsumer, UpsertDependency,
                  ReconcileConsumerSnapshot, storeVars
    <3>2. QED
      BY <3>1 DEF View, FeedOf
  <2>4. CASE UNCHANGED vars
    BY <2>4 DEF vars, storeVars, View, FeedOf
  <2>5. QED
    BY <2>1, <2>2, <2>3, <2>4 DEF Next, Step
<1>3. TypeOK /\ [Next]_vars => [Feed!Next]_<<View, FeedOf(changes)>>
  BY <1>2
<1>4. FeedOf(changes) = [n \in 1..Len(changes) |-> FeedEntry(changes[n])]
  BY DEF FeedOf
<1>5. QED
  BY <1>1, <1>3, TypeCorrect, PTL DEF Spec, ImplementsChangeFeed, Feed!Spec, FeedOf

-----------------------------------------------------------------------------
(***************************************************************************)
(* The change log is a history of the signals table                        *)
(*                                                                         *)
(* Its three properties are inductive together: an entry can be replayed   *)
(* because the row it departs from is explained by the last entry of its   *)
(* key, and that entry is old enough because rows keep their own time.     *)
(***************************************************************************)

\* Entry n is the last one of key k.
LastOf(k, n) ==
    /\ n \in 1..Len(changes)
    /\ changes[n].signal_key = k
    /\ \A m \in 1..Len(changes) : changes[m].signal_key = k => m <= n

RowExplained(k) ==
    IF signals[k] = None
    THEN \A n \in 1..Len(changes) : changes[n].signal_key # k
    ELSE \E n \in 1..Len(changes) :
            /\ LastOf(k, n)
            /\ Material(changes[n].current) = Material(signals[k].signal)
            /\ changes[n].recorded_at <= signals[k].last_seen

EntryReplays(n) ==
    IF changes[n].previous = None
    THEN /\ changes[n].change_type = "discovered"
         /\ \A m \in 1..(n - 1) : changes[m].signal_key # changes[n].signal_key
    ELSE /\ changes[n].change_type =
                ChangeType(changes[n].previous, changes[n].current)
         /\ Material(changes[n].previous) # Material(changes[n].current)
         /\ \E m \in 1..(n - 1) :
                /\ Follows(m, n)
                /\ Material(changes[m].current) = Material(changes[n].previous)

RowDated(k) ==
    signals[k] # None =>
        /\ signals[k].first_seen <= signals[k].last_seen
        /\ signals[k].signal.observed_at = signals[k].last_seen

LogDated ==
    \A m, n \in 1..Len(changes) :
        m < n /\ changes[m].signal_key = changes[n].signal_key
            => changes[m].recorded_at <= changes[n].recorded_at

HistoryInv ==
    /\ \A n \in 1..Len(changes) : EntryReplays(n)
    /\ \A k \in SignalKeys : RowExplained(k) /\ RowDated(k)
    /\ LogDated

LEMMA HistoryInvGivesProperties ==
    HistoryInv => HistoryReplays /\ HistoryExplainsRows /\ HistoryInOrder
<1> SUFFICES ASSUME HistoryInv
             PROVE  HistoryReplays /\ HistoryExplainsRows /\ HistoryInOrder
    OBVIOUS
<1>1. HistoryReplays
    BY DEF HistoryInv, EntryReplays, HistoryReplays
<1>2. HistoryInOrder
    BY DEF HistoryInv, RowDated, LogDated, HistoryInOrder
<1>3. ASSUME NEW k \in SignalKeys, signals[k] = None
      PROVE  {n \in 1..Len(changes) : changes[n].signal_key = k} = {}
    BY <1>3 DEF HistoryInv, RowExplained
<1>4. ASSUME NEW k \in SignalKeys, signals[k] # None
      PROVE  \E n \in {n \in 1..Len(changes) : changes[n].signal_key = k} :
                /\ \A m \in {n_1 \in 1..Len(changes) :
                                changes[n_1].signal_key = k} : m <= n
                /\ Material(changes[n].current) = Material(signals[k].signal)
                /\ changes[n].recorded_at <= signals[k].last_seen
    BY <1>4 DEF HistoryInv, RowExplained, LastOf
<1>5. HistoryExplainsRows
    BY <1>3, <1>4 DEF HistoryExplainsRows
<1> QED BY <1>1, <1>2, <1>5

LEMMA HistoryInvInit == Init => HistoryInv
BY DEF Init, StoreInit, HistoryInv, RowExplained, RowDated, LogDated

\* A step that leaves the table and the log alone.
LEMMA QuietHistory ==
    ASSUME HistoryInv, UNCHANGED <<signals, changes>>
    PROVE  HistoryInv'
BY DEF HistoryInv, EntryReplays, Follows, RowExplained, LastOf, RowDated, LogDated

\* A row that is seen again without a difference keeps its explanation.
LEMMA SeenAgain ==
    ASSUME TypeOK, HistoryInv, NEW k \in SignalKeys, NEW s \in Signal,
           RefreshSignal(k, s), Material(signals[k].signal) = Material(s)
    PROVE  HistoryInv'
<1>1. /\ UNCHANGED changes /\ signals[k] \in SignalRow
      /\ s.observed_at >= signals[k].last_seen
      /\ signals' = [signals EXCEPT ![k] =
            [signal |-> s, first_seen |-> signals[k].first_seen,
             last_seen |-> s.observed_at]]
    BY DEF RefreshSignal, TypeOK, StoreTypeOK
<1>2. /\ signals[k] # None
      /\ \A l \in SignalKeys : l # k => signals'[l] = signals[l]
      /\ signals'[k].signal = s /\ signals'[k].last_seen = s.observed_at
      /\ signals'[k].first_seen = signals[k].first_seen
    BY <1>1 DEF RefreshSignal, TypeOK, StoreTypeOK
<1>3. (\A n \in 1..Len(changes) : EntryReplays(n))' /\ LogDated'
    BY <1>1 DEF HistoryInv, EntryReplays, Follows, LogDated
<1>4. ASSUME NEW l \in SignalKeys, l # k
      PROVE  RowExplained(l)' /\ RowDated(l)'
    BY <1>1, <1>2, <1>4 DEF HistoryInv, RowExplained, LastOf, RowDated
<1>5. RowExplained(k)'
    <2>1. PICK n \in 1..Len(changes) :
              /\ LastOf(k, n)
              /\ Material(changes[n].current) = Material(s)
              /\ changes[n].recorded_at <= signals[k].last_seen
        BY <1>2 DEF HistoryInv, RowExplained
    <2>2. changes[n].recorded_at <= s.observed_at
        <3>1. changes[n] \in Change
            BY DEF TypeOK, StoreTypeOK
        <3> QED BY <1>1, <2>1, <3>1 DEF Change, SignalRow, Signal
    <2>3. LastOf(k, n)'
        BY <1>1, <2>1 DEF LastOf
    <2>4. signals'[k] # None
        BY <1>1, NoneAssumption DEF TypeOK, StoreTypeOK, SignalRow, Signal
    <2> QED BY <1>1, <1>2, <2>1, <2>2, <2>3, <2>4 DEF RowExplained
<1>6. RowDated(k)'
    BY <1>1, <1>2 DEF HistoryInv, RowDated, SignalRow, Signal
<1> QED BY <1>3, <1>4, <1>5, <1>6 DEF HistoryInv

\* An entry for key k, with the row it describes.
LEMMA EntryAppended ==
    ASSUME TypeOK, HistoryInv, NEW k \in SignalKeys, NEW s \in Signal,
           NEW type, NEW previous, AppendChange(k, type, previous, s),
           NEW first \in Nat, first <= s.observed_at,
           signals' = [signals EXCEPT ![k] =
               [signal |-> s, first_seen |-> first, last_seen |-> s.observed_at]],
           IF signals[k] = None
           THEN type = "discovered" /\ previous = None
           ELSE /\ previous = signals[k].signal /\ previous # None
                /\ type = ChangeType(previous, s)
                /\ Material(previous) # Material(s)
                /\ signals[k].last_seen <= s.observed_at
    PROVE  HistoryInv'
<1>0. PICK last \in Nat : last = Len(changes)
    <2>1. changes \in Seq(Change)
        BY DEF TypeOK, StoreTypeOK
    <2>2. Len(changes) \in Nat
        BY <2>1
    <2> QED BY <2>2
<1>1. /\ last \in Nat
      /\ Len(changes') = last + 1
      /\ \A n \in 1..last : changes'[n] = changes[n] /\ changes[n] \in Change
      /\ changes'[last + 1] =
            [signal_key |-> k, change_type |-> type,
             recorded_at |-> s.observed_at, previous |-> previous, current |-> s]
    BY <1>0 DEF AppendChange, TypeOK, StoreTypeOK
<1>2. /\ changes'[last + 1].signal_key = k
      /\ changes'[last + 1].change_type = type
      /\ changes'[last + 1].recorded_at = s.observed_at
      /\ changes'[last + 1].previous = previous
      /\ changes'[last + 1].current = s
    BY <1>1
<1>3. /\ \A l \in SignalKeys : l # k => signals'[l] = signals[l]
      /\ signals'[k].signal = s /\ signals'[k].last_seen = s.observed_at
      /\ signals'[k].first_seen = first
      /\ signals'[k] # None
    BY NoneAssumption DEF TypeOK, StoreTypeOK, SignalRow, Signal
<1>4. ASSUME NEW n \in 1..last
      PROVE  EntryReplays(n)'
    <2>1. EntryReplays(n)
        BY <1>0 DEF HistoryInv
    <2>2. n \in 1..last /\ \A m \in 1..(n - 1) : m \in 1..last
        BY <1>1
    <2>3. \A m \in 1..(n - 1) : Follows(m, n) => Follows(m, n)'
        <3> SUFFICES ASSUME NEW m \in 1..(n - 1), Follows(m, n)
                     PROVE  Follows(m, n)'
            OBVIOUS
        <3>1. \A l \in (m + 1)..(n - 1) : l \in 1..last
            BY <1>1
        <3> QED BY <1>1, <2>2, <3>1 DEF Follows
    <2> QED BY <1>1, <2>1, <2>2, <2>3 DEF EntryReplays
<1>5. EntryReplays(last + 1)'
    <2>1. CASE signals[k] = None
        <3>1. \A m \in 1..last : changes[m].signal_key # k
            BY <1>0, <2>1 DEF HistoryInv, RowExplained
        <3>2. (last + 1) - 1 = last
            BY <1>1
        <3> QED BY <1>1, <1>2, <2>1, <3>1, <3>2 DEF EntryReplays
    <2>2. CASE signals[k] # None
        <3>1. PICK m \in 1..last :
                  /\ LastOf(k, m)
                  /\ Material(changes[m].current) = Material(signals[k].signal)
            BY <1>0, <2>2 DEF HistoryInv, RowExplained
        <3>2. /\ m \in 1..((last + 1) - 1) /\ m < last + 1
              /\ \A l \in (m + 1)..((last + 1) - 1) : l \in 1..last /\ ~(l <= m)
            BY <1>1
        <3>3. Follows(m, last + 1)'
            BY <1>0, <1>1, <1>2, <3>1, <3>2 DEF Follows, LastOf
        <3> QED BY <1>1, <1>2, <2>2, <3>1, <3>2, <3>3 DEF EntryReplays
    <2> QED BY <2>1, <2>2
<1>6. \A n \in 1..(last + 1) : n \in 1..last \/ n = last + 1
    BY <1>1
<1>7. ASSUME NEW l \in SignalKeys, l # k
      PROVE  RowExplained(l)' /\ RowDated(l)'
    <2>1. RowDated(l)' /\ RowExplained(l)
        BY <1>3, <1>7 DEF HistoryInv, RowDated
    <2>2. CASE signals[l] = None
        BY <1>0, <1>1, <1>2, <1>3, <1>6, <1>7, <2>1, <2>2 DEF RowExplained
    <2>3. CASE signals[l] # None
        <3>1. PICK n \in 1..last :
                  /\ LastOf(l, n)
                  /\ Material(changes[n].current) = Material(signals[l].signal)
                  /\ changes[n].recorded_at <= signals[l].last_seen
            BY <1>0, <2>1, <2>3 DEF RowExplained
        <3>2. n \in 1..(last + 1)
            BY <1>1
        <3>3. LastOf(l, n)'
            BY <1>0, <1>1, <1>2, <1>6, <1>7, <3>1, <3>2 DEF LastOf
        <3> QED BY <1>1, <1>3, <1>7, <2>1, <2>3, <3>1, <3>2, <3>3 DEF RowExplained
    <2> QED BY <2>1, <2>2, <2>3
<1>8. RowExplained(k)'
    <2>1. LastOf(k, last + 1)'
        BY <1>1, <1>2, <1>6 DEF LastOf
    <2>2. s.observed_at <= s.observed_at /\ last + 1 \in 1..(last + 1)
        BY <1>1 DEF Signal
    <2> QED BY <1>1, <1>2, <1>3, <2>1, <2>2 DEF RowExplained
<1>9. RowDated(k)'
    BY <1>3 DEF RowDated
<1>10. ASSUME NEW m \in 1..last, changes[m].signal_key = k
       PROVE  changes[m].recorded_at <= s.observed_at
    <2>1. signals[k] # None
        BY <1>0, <1>10 DEF HistoryInv, RowExplained
    <2>2. PICK n \in 1..last :
              /\ LastOf(k, n)
              /\ changes[n].recorded_at <= signals[k].last_seen
        BY <1>0, <2>1 DEF HistoryInv, RowExplained
    <2>3. m = n \/ changes[m].recorded_at <= changes[n].recorded_at
        <3>1. m <= n /\ changes[n].signal_key = k
            BY <1>0, <1>10, <2>2 DEF LastOf
        <3>2. m = n \/ m < n
            BY <1>1, <3>1
        <3> QED BY <1>0, <1>10, <3>1, <3>2 DEF HistoryInv, LogDated
    <2>4. /\ changes[m].recorded_at \in Nat /\ changes[n].recorded_at \in Nat
          /\ signals[k].last_seen \in Nat /\ s.observed_at \in Nat
        BY <1>1, <2>1 DEF Change, TypeOK, StoreTypeOK, SignalRow, Signal
    <2> QED BY <2>1, <2>2, <2>3, <2>4
<1>11. LogDated'
    <2> SUFFICES ASSUME NEW m \in 1..(last + 1), NEW n \in 1..(last + 1),
                        m < n, changes'[m].signal_key = changes'[n].signal_key
                 PROVE  changes'[m].recorded_at <= changes'[n].recorded_at
        BY <1>1 DEF LogDated
    <2>1. m \in 1..last
        BY <1>1
    <2>2. CASE n \in 1..last
        BY <1>0, <1>1, <2>1, <2>2 DEF HistoryInv, LogDated
    <2>3. CASE n = last + 1
        BY <1>1, <1>2, <1>10, <2>1, <2>3
    <2> QED BY <1>6, <2>2, <2>3
<1>12. (\A n \in 1..Len(changes) : EntryReplays(n))'
    BY <1>1, <1>4, <1>5, <1>6
<1> QED BY <1>7, <1>8, <1>9, <1>11, <1>12 DEF HistoryInv

\* upsert_signal keeps the history, whatever signal reaches it and when.
LEMMA UpsertKeepsHistory ==
    ASSUME TypeOK, HistoryInv, NEW k \in SignalKeys, NEW s \in Signal,
           UpsertSignal(k, s)
    PROVE  HistoryInv'
<1>1. CASE DiscoverSignal(k, s)
    <2>1. s.observed_at \in Nat /\ s.observed_at <= s.observed_at
        BY DEF Signal
    <2> QED BY <1>1, <2>1, EntryAppended DEF DiscoverSignal
<1>2. CASE IgnoreStaleSignal(k, s)
    BY <1>2, QuietHistory DEF IgnoreStaleSignal
<1>3. CASE RefreshSignal(k, s)
    <2>1. CASE Material(signals[k].signal) = Material(s)
        BY <1>3, <2>1, SeenAgain
    <2>2. CASE Material(signals[k].signal) # Material(s)
        <3> DEFINE previous == signals[k].signal
        <3>1. /\ signals[k] \in SignalRow /\ signals[k] # None
              /\ signals[k].last_seen <= s.observed_at
              /\ AppendChange(k, ChangeType(previous, s), previous, s)
              /\ signals' = [signals EXCEPT ![k] =
                    [signal |-> s, first_seen |-> signals[k].first_seen,
                     last_seen |-> s.observed_at]]
            BY <1>3, <2>2 DEF RefreshSignal, TypeOK, StoreTypeOK, SignalRow, Signal
        <3>2. previous \in Signal /\ previous # None
            BY <3>1, NoneAssumption DEF SignalRow
        <3>3. /\ signals[k].first_seen \in Nat
              /\ signals[k].first_seen <= s.observed_at
            BY <3>1 DEF HistoryInv, RowDated, SignalRow, Signal
        <3> QED BY <2>2, <3>1, <3>2, <3>3, EntryAppended
    <2> QED BY <2>1, <2>2
<1> QED BY <1>1, <1>2, <1>3 DEF UpsertSignal

LEMMA HistoryInvStep == TypeOK /\ HistoryInv /\ [Next]_vars => HistoryInv'
<1> SUFFICES ASSUME TypeOK, HistoryInv, [Next]_vars PROVE HistoryInv'
    OBVIOUS
<1>1. ASSUME NEW i \in Ingests, PutSignal(i) PROVE HistoryInv'
    <2>1. batch[i] \in Batches /\ observedAt[i] \in Nat
        BY <1>1 DEF PutSignal, EdgesWritten, TypeOK, Begun
    <2>2. PICK k \in SignalsIn(batch[i]) :
              UpsertSignal(k, Observed(batch[i], k, observedAt[i]))
        BY <1>1 DEF PutSignal
    <2>3. k \in SignalKeys /\ Observed(batch[i], k, observedAt[i]) \in Signal
        BY <2>1, ObservedType DEF SignalsIn
    <2> QED BY <2>2, <2>3, UpsertKeepsHistory
<1>2. ASSUME NEW i \in Ingests, WithdrawSignal(i) PROVE HistoryInv'
    <2>1. PICK k \in SignalKeys :
              /\ withdrawals[i][k] # None
              /\ UpsertSignal(k, Withdrawn(withdrawals[i][k], observedAt[i]))
        BY <1>2 DEF WithdrawSignal
    <2>2. withdrawals[i][k] \in Signal /\ observedAt[i] \in Nat
        BY <2>1 DEF TypeOK
    <2> QED BY <2>1, <2>2, WithdrawnType, UpsertKeepsHistory
<1>3. ASSUME NEW i \in Ingests,
             \/ Begin(i) \/ CountChangesBefore(i) \/ PutConsumer(i)
             \/ PutDependency(i) \/ RejectDependency(i) \/ ListActiveSignals(i)
             \/ ReconcileConsumers(i) \/ Summarise(i) \/ Die(i)
      PROVE  HistoryInv'
    <2>1. UNCHANGED <<signals, changes>>
        BY <1>3 DEF Begin, CountChangesBefore, PutConsumer, PutDependency,
                    RejectDependency, ListActiveSignals, ReconcileConsumers,
                    Summarise, Die, UpsertConsumer, UpsertDependency,
                    ReconcileConsumerSnapshot, storeVars
    <2> QED BY <2>1, QuietHistory
<1>4. CASE UNCHANGED vars
    BY <1>4, QuietHistory DEF vars, storeVars
<1> QED BY <1>1, <1>2, <1>3, <1>4 DEF Next, Step

LEMMA HistoryInvariant == Spec => []HistoryInv
BY HistoryInvInit, HistoryInvStep, TypeCorrect, PTL DEF Spec

-----------------------------------------------------------------------------

\* Every signal's history starts with one discovery and can be replayed entry
\* by entry, whatever imports overlap, die or arrive out of date.
THEOREM HistoryCanBeReplayed == Spec => []HistoryReplays
BY HistoryInvariant, HistoryInvGivesProperties, PTL

\* The last entry of a key describes its row as it stands.
THEOREM HistoryExplainsTable == Spec => []HistoryExplainsRows
BY HistoryInvariant, HistoryInvGivesProperties, PTL

\* The entries of a key are in the order of their observation.
THEOREM HistoryIsInOrder == Spec => []HistoryInOrder
BY HistoryInvariant, HistoryInvGivesProperties, PTL

-----------------------------------------------------------------------------
(***************************************************************************)
(* Imports that come one after the other, with a clock that does not run   *)
(* backwards, some of them dying half way: each takes effect exactly, and  *)
(* counts its own changes.                                                 *)
(***************************************************************************)

\* The import under way is the only one, and no other has a later clock.
OneAtATime ==
    \A i \in Ingests : Running(i) =>
        /\ \A j \in Ingests : Running(j) => j = i
        /\ \A j \in Ingests : Begun(j) => observedAt[j] <= observedAt[i]

\* What import i has written so far is stored as it wrote it.
SignalsStored(i) ==
    \A k \in signalsPut[i] :
        /\ signals[k] # None
        /\ signals[k].signal = Observed(batch[i], k, observedAt[i])

ConsumersStored(i) ==
    /\ \A c \in consumersPut[i] : consumers[c] =
           [payload |-> batch[i].consumers[c], last_seen |-> observedAt[i]]
    /\ \A d \in dependenciesPut[i] : dependencies[d] =
           [payload |-> batch[i].dependencies[d], last_seen |-> observedAt[i]]

AllPut(i) ==
    /\ signalsPut[i] = SignalsIn(batch[i])
    /\ consumersPut[i] = ConsumersIn(batch[i])
    /\ dependenciesPut[i] = DependenciesIn(batch[i])

\* A signal of the scope that is not in the batch is listed or not active.
RestListed(i) ==
    \A k \in batch[i].covers \ SignalsIn(batch[i]) :
        withdrawals[i][k] = None /\ signals[k] # None =>
            ~signals[k].signal.active

\* The log since the import counted it is what the import appended.
OwnLog(i) ==
    /\ changesBefore[i] <= Len(changes)
    /\ appended[i] = SubSeq(changes, changesBefore[i] + 1, Len(changes))

ImportProgress(i) ==
    /\ pc[i] \in {"idle", "counting"} =>
           /\ signalsPut[i] = {} /\ consumersPut[i] = {}
           /\ dependenciesPut[i] = {} /\ appended[i] = <<>>
    /\ pc[i] \in {"writing", "withdrawing", "summarising"} => OwnLog(i)
    /\ pc[i] \in {"writing", "withdrawing"} =>
           SignalsStored(i) /\ ConsumersStored(i)
    /\ pc[i] = "withdrawing" => AllPut(i) /\ RestListed(i)
    /\ pc[i] = "summarising" =>
           /\ SignalsMatch(batch[i])
           /\ batch[i].consumersAuthoritative => ConsumersMatch(batch[i])
    /\ pc[i] = "done" => summary[i] = Counts(appended[i])

SerialInv ==
    /\ OneAtATime
    /\ \A i \in Ingests : ImportProgress(i)
    /\ EdgesNoNewerThanConsumer

Inv == TypeOK /\ SignalInv /\ ConsumerInv

-----------------------------------------------------------------------------
\* While an import is under way no row is newer than its clock.
LEMMA RowsSeenBefore ==
    ASSUME Inv, OneAtATime, NEW i \in Ingests, Running(i)
    PROVE  /\ \A k \in SignalKeys : signals[k] # None =>
                  signals[k].last_seen <= observedAt[i]
           /\ \A c \in ConsumerIds : consumers[c] # None =>
                  consumers[c].last_seen <= observedAt[i]
           /\ \A d \in DependencyKeys : dependencies[d] # None =>
                  dependencies[d].last_seen <= observedAt[i]
<1>1. ASSUME NEW k \in SignalKeys, signals[k] # None
      PROVE  signals[k].last_seen <= observedAt[i]
    BY <1>1 DEF Inv, SignalInv, SignalsHaveAuthors, SignalAuthor, OneAtATime
<1>2. ASSUME NEW c \in ConsumerIds, consumers[c] # None
      PROVE  consumers[c].last_seen <= observedAt[i]
    <2>1. PICK j \in Ingests : ConsumerAuthor(j, c)
        BY <1>2 DEF Inv, ConsumerInv, ConsumersHaveAuthors
    <2> QED BY <2>1 DEF ConsumerAuthor, OneAtATime
<1>3. ASSUME NEW d \in DependencyKeys, dependencies[d] # None
      PROVE  dependencies[d].last_seen <= observedAt[i]
    <2>1. PICK j \in Ingests : EdgeAuthor(j, d)
        BY <1>3 DEF Inv, ConsumerInv, ConsumersHaveAuthors
    <2> QED BY <2>1 DEF EdgeAuthor, OneAtATime
<1> QED BY <1>1, <1>2, <1>3

\* An import past its start works on a batch that the loaders produced.
LEMMA BatchType ==
    ASSUME TypeOK, NEW i \in Ingests, pc[i] # "idle"
    PROVE  /\ batch[i] \in Batches /\ WellFormed(batch[i])
           /\ batch[i].covers \subseteq SignalKeys
           /\ \A k \in SignalsIn(batch[i]) :
                  batch[i].signals[k] \in MaterialSignal
           /\ \A c \in ConsumersIn(batch[i]) :
                  batch[i].consumers[c] \in Payloads
           /\ \A d \in DependenciesIn(batch[i]) :
                  batch[i].dependencies[d] \in Payloads
<1>1. batch[i] \in Batches
    BY DEF TypeOK, Begun
<1>2. batch[i] \in Batch /\ WellFormed(batch[i])
    BY <1>1, IngestAssumption
<1> QED BY <1>1, <1>2 DEF Batch, SignalsIn, ConsumersIn, DependenciesIn

\* An upsert of a row no newer than it takes effect.
LEMMA SeenTakesEffect ==
    ASSUME NEW row \in EvidenceRow \cup {None}, NEW p, NEW t \in Nat,
           row # None => row.last_seen <= t
    PROVE  Seen(row, p, t) = [payload |-> p, last_seen |-> t]
BY DEF Seen, EvidenceRow

LEMMA UpsertTakesEffect ==
    ASSUME StoreTypeOK, NEW k \in SignalKeys, NEW s \in Signal,
           UpsertSignal(k, s),
           signals[k] # None => signals[k].last_seen <= s.observed_at
    PROVE  signals'[k] # None /\ signals'[k].signal = s
<1>1. ~IgnoreStaleSignal(k, s)
    BY DEF IgnoreStaleSignal, StoreTypeOK, SignalRow, Signal
<1>2. signals' = [signals EXCEPT ![k] = signals'[k]]
      /\ signals'[k].signal = s
    BY <1>1 DEF UpsertSignal, DiscoverSignal, RefreshSignal, StoreTypeOK
<1> QED BY <1>2, UpsertSignalEffect

\* An upsert appends one entry to the log, or none.
LEMMA UpsertAppends ==
    ASSUME StoreTypeOK, NEW k \in SignalKeys, NEW s \in Signal,
           UpsertSignal(k, s)
    PROVE  changes' = changes \/ \E e \in Change : changes' = Append(changes, e)
<1>1. StoreTypeOK'
    BY UpsertSignalType
<1>2. CASE DiscoverSignal(k, s)
    <2> DEFINE e == [signal_key |-> k, change_type |-> "discovered",
                     recorded_at |-> s.observed_at, previous |-> None, current |-> s]
    <2>1. e \in Change
        BY DEF Change, ChangeTypes, Signal
    <2> QED BY <1>2, <2>1 DEF DiscoverSignal, AppendChange
<1>3. CASE IgnoreStaleSignal(k, s)
    BY <1>3 DEF IgnoreStaleSignal
<1>4. CASE RefreshSignal(k, s)
    <2> DEFINE previous == signals[k].signal
               e == [signal_key |-> k, change_type |-> ChangeType(previous, s),
                     recorded_at |-> s.observed_at, previous |-> previous, current |-> s]
    <2>1. previous \in Signal
        BY <1>4 DEF RefreshSignal, StoreTypeOK, SignalRow
    <2>2. e \in Change
        BY <2>1 DEF Change, ChangeTypes, ChangeType, Signal
    <2> QED BY <1>4, <2>2 DEF RefreshSignal, AppendChange
<1> QED BY <1>2, <1>3, <1>4 DEF UpsertSignal

\* A stretch to the end of the log grows by what is appended to the log.
LEMMA StretchGrows ==
    ASSUME NEW S, NEW log \in Seq(S), NEW longer \in Seq(S),
           Len(log) <= Len(longer),
           \A n \in 1..Len(log) : longer[n] = log[n],
           NEW m \in 0..Len(log)
    PROVE  SubSeq(log, m + 1, Len(log))
               \o SubSeq(longer, Len(log) + 1, Len(longer))
           = SubSeq(longer, m + 1, Len(longer))
<1> DEFINE old == SubSeq(log, m + 1, Len(log))
           same == SubSeq(longer, m + 1, Len(log))
<1>1. old \in Seq(S) /\ Len(old) = Len(log) - m
      /\ \A n \in 1..(Len(log) - m) : old[n] = log[m + n]
    OBVIOUS
<1>2. same \in Seq(S) /\ Len(same) = Len(log) - m
      /\ \A n \in 1..(Len(log) - m) : same[n] = longer[m + n]
    OBVIOUS
<1>3. \A n \in 1..(Len(log) - m) : m + n \in 1..Len(log)
    OBVIOUS
<1>4. old = same
    <2> HIDE DEF old, same
    <2> QED BY <1>1, <1>2, <1>3, SeqEqual
<1>5. /\ m + 1 \in 1..(Len(longer) + 1)
      /\ Len(log) \in ((m + 1) - 1)..Len(longer)
      /\ Len(longer) \in Len(log)..Len(longer)
    OBVIOUS
<1> QED BY <1>4, <1>5, ConcatAdjacentSubSeq

\* The stretch that an import recorded as its own stays the end of the log
\* while it is the one that appends.
LEMMA UpsertKeepsOwnLog ==
    ASSUME TypeOK, NEW i \in Ingests, OwnLog(i), RecordAppended(i),
           NEW k \in SignalKeys, NEW s \in Signal, UpsertSignal(k, s),
           changesBefore' = changesBefore
    PROVE  OwnLog(i)'
<1>1. changes \in Seq(Change) /\ changes' \in Seq(Change)
    BY UpsertSignalType DEF TypeOK, StoreTypeOK
<1>2. changes' = changes \/ \E e \in Change : changes' = Append(changes, e)
    BY UpsertAppends DEF TypeOK
<1>3. /\ Len(changes) <= Len(changes')
      /\ \A n \in 1..Len(changes) : changes'[n] = changes[n]
    BY <1>1, <1>2
<1>4. changesBefore[i] \in 0..Len(changes)
    BY <1>1 DEF OwnLog, TypeOK
<1>5. appended'[i] = appended[i]
                         \o SubSeq(changes', Len(changes) + 1, Len(changes'))
    BY DEF RecordAppended, TypeOK
<1>6. SubSeq(changes, changesBefore[i] + 1, Len(changes))
          \o SubSeq(changes', Len(changes) + 1, Len(changes'))
      = SubSeq(changes', changesBefore[i] + 1, Len(changes'))
    BY <1>1, <1>3, <1>4, StretchGrows
<1>7. changesBefore'[i] = changesBefore[i] /\ changesBefore[i] <= Len(changes')
    BY <1>1, <1>3, <1>4
<1>8. appended'[i] = SubSeq(changes', changesBefore[i] + 1, Len(changes'))
    BY <1>5, <1>6 DEF OwnLog
<1> QED BY <1>7, <1>8 DEF OwnLog

-----------------------------------------------------------------------------
(***************************************************************************)
(* One lemma per action: what the import under way has achieved            *)
(***************************************************************************)

\* The clause of the others is about what only they change.
LEMMA OthersKeepProgress ==
    ASSUME TypeOK, TypeOK', SerialInv, NEW i \in Ingests, Step(i) \/ Die(i)
    PROVE  /\ Running(i)
           /\ OneAtATime'
           /\ \A j \in Ingests \ {i} : ImportProgress(j)'
<1>1. Running(i)
    BY DEF Step, CountChangesBefore, PutConsumer, PutDependency,
           DependenciesDue, RejectDependency, PutSignal, EdgesWritten,
           ListActiveSignals, WithdrawSignal, ReconcileConsumers, Summarise,
           Die, Running, Begun, Ended
<1>2. /\ pc'[i] # "idle"
      /\ \A j \in Ingests \ {i} : pc'[j] = pc[j]
      /\ observedAt' = observedAt
    BY DEF Step, CountChangesBefore, PutConsumer, PutDependency,
           DependenciesDue, RejectDependency, PutSignal, EdgesWritten,
           ListActiveSignals, WithdrawSignal, ReconcileConsumers, Summarise,
           Die, Running, Begun, TypeOK
<1>3. \A j \in Ingests \ {i} :
          /\ consumersPut'[j] = consumersPut[j]
          /\ dependenciesPut'[j] = dependenciesPut[j]
          /\ signalsPut'[j] = signalsPut[j]
    BY DEF Step, CountChangesBefore, PutConsumer, PutDependency,
           RejectDependency, PutSignal, ListActiveSignals, WithdrawSignal,
           ReconcileConsumers, Summarise, Die, TypeOK
<1>4. \A j \in Ingests \ {i} :
          /\ appended'[j] = appended[j]
          /\ summary'[j] = summary[j]
    BY DEF Step, CountChangesBefore, PutConsumer, PutDependency,
           RejectDependency, PutSignal, ListActiveSignals, WithdrawSignal,
           ReconcileConsumers, Summarise, Die, RecordAppended, TypeOK
<1>5. OneAtATime'
    BY <1>1, <1>2 DEF SerialInv, OneAtATime, Running, Begun, Ended
<1>6. ASSUME NEW j \in Ingests \ {i}
      PROVE  ImportProgress(j)'
    <2>1. ~Running(j)
        BY <1>1 DEF SerialInv, OneAtATime
    <2>2. pc[j] \notin {"counting", "writing", "withdrawing", "summarising"}
        BY <2>1 DEF Running, Begun, Ended
    <2>3. ImportProgress(j)
        BY DEF SerialInv
    <2> QED BY <2>2, <2>3, <1>2, <1>3, <1>4 DEF ImportProgress
<1> QED BY <1>1, <1>5, <1>6

LEMMA CountProgress ==
    ASSUME TypeOK, SerialInv, NEW i \in Ingests, CountChangesBefore(i)
    PROVE  ImportProgress(i)' /\ EdgesNoNewerThanConsumer'
<1>1. /\ pc[i] = "counting" /\ pc'[i] = "writing"
      /\ changesBefore'[i] = Len(changes)
      /\ UNCHANGED <<signals, changes, consumers, dependencies, consumersPut,
                     dependenciesPut, signalsPut, appended>>
      /\ \A j \in Ingests : pc'[j] = "rejected" => pc[j] = "rejected"
    BY DEF CountChangesBefore, storeVars, TypeOK
<1>2. /\ signalsPut[i] = {} /\ consumersPut[i] = {}
      /\ dependenciesPut[i] = {} /\ appended[i] = <<>>
    BY <1>1 DEF SerialInv, ImportProgress
<1>3. Len(changes) \in Nat /\ SubSeq(changes, Len(changes) + 1, Len(changes)) = <<>>
    <2>1. changes \in Seq(Change)
        BY DEF TypeOK, StoreTypeOK
    <2> QED BY <2>1, SubSeqEmpty
<1>4. OwnLog(i)'
    BY <1>1, <1>2, <1>3 DEF OwnLog
<1>5. SignalsStored(i)' /\ ConsumersStored(i)'
    BY <1>1, <1>2 DEF SignalsStored, ConsumersStored
<1>6. EdgesNoNewerThanConsumer'
    BY <1>1 DEF SerialInv, EdgesNoNewerThanConsumer
<1> QED BY <1>1, <1>4, <1>5, <1>6 DEF ImportProgress

\* No row is newer than the clock of the import under way, so what it writes
\* takes effect.
LEMMA PutConsumerProgress ==
    ASSUME Inv, SerialInv, NEW i \in Ingests, Running(i), PutConsumer(i)
    PROVE  ImportProgress(i)' /\ EdgesNoNewerThanConsumer'
<1>1. PICK c \in ConsumersIn(batch[i]) \ consumersPut[i] :
          /\ UpsertConsumer(c, batch[i].consumers[c], observedAt[i])
          /\ consumersPut' = [consumersPut EXCEPT ![i] = @ \cup {c}]
    BY DEF PutConsumer
<1> DEFINE row == [payload |-> batch[i].consumers[c], last_seen |-> observedAt[i]]
<1>2. /\ c \in ConsumerIds
      /\ observedAt[i] \in Nat
      /\ consumers[c] \in EvidenceRow \cup {None}
      /\ consumers[c] # None => consumers[c].last_seen <= observedAt[i]
      /\ row # None
    <2>1. c \in ConsumerIds /\ observedAt[i] \in Nat /\ batch[i] \in Batches
        BY <1>1 DEF Inv, TypeOK, ConsumersIn, Running
    <2>2. consumers[c] # None => consumers[c].last_seen <= observedAt[i]
        BY <2>1, RowsSeenBefore DEF SerialInv
    <2>3. row \in EvidenceRow
        BY <1>1, <2>1, IngestAssumption DEF ConsumersIn, Batch, EvidenceRow
    <2> QED BY <2>1, <2>2, <2>3, NoneAssumption DEF Inv, TypeOK, StoreTypeOK
<1>3. /\ consumers'[c] = row
      /\ \A b \in ConsumerIds \ {c} : consumers'[b] = consumers[b]
    <2>1. Seen(consumers[c], batch[i].consumers[c], observedAt[i]) = row
        BY <1>2, SeenTakesEffect
    <2> QED BY <2>1, <1>1, <1>2 DEF UpsertConsumer, Inv, TypeOK, StoreTypeOK
<1>4. /\ pc[i] = "writing"
      /\ consumersPut'[i] = consumersPut[i] \cup {c}
      /\ UNCHANGED <<pc, batch, observedAt, changesBefore, dependenciesPut,
                     signalsPut, appended, signals, changes, dependencies>>
    BY <1>1 DEF PutConsumer, UpsertConsumer, Inv, TypeOK
<1>5. OwnLog(i) /\ SignalsStored(i) /\ ConsumersStored(i)
    BY <1>4 DEF SerialInv, ImportProgress
<1>6. OwnLog(i)' /\ SignalsStored(i)'
    BY <1>4, <1>5 DEF OwnLog, SignalsStored
<1>7. ConsumersStored(i)'
    BY <1>3, <1>4, <1>5 DEF ConsumersStored, Inv, TypeOK
<1>8. EdgesNoNewerThanConsumer'
    <2> SUFFICES ASSUME NEW d \in DependencyKeys, dependencies[d] # None
                 PROVE  /\ consumers'[d[1]] # None
                        /\ dependencies[d].last_seen <= consumers'[d[1]].last_seen
        BY <1>4 DEF SerialInv, EdgesNoNewerThanConsumer
    <2>1. /\ consumers[d[1]] # None
          /\ dependencies[d].last_seen <= consumers[d[1]].last_seen
        BY DEF SerialInv, EdgesNoNewerThanConsumer
    <2>2. CASE d[1] = c
        <3>1. dependencies[d].last_seen <= observedAt[i]
            BY RowsSeenBefore DEF SerialInv
        <3> QED BY <2>2, <3>1, <1>2, <1>3
    <2>3. CASE d[1] # c
        BY <2>1, <2>3, <1>3 DEF DependencyKeys
    <2> QED BY <2>2, <2>3
<1> QED BY <1>4, <1>6, <1>7, <1>8 DEF ImportProgress

LEMMA PutDependencyProgress ==
    ASSUME Inv, SerialInv, NEW i \in Ingests, Running(i), PutDependency(i)
    PROVE  ImportProgress(i)' /\ EdgesNoNewerThanConsumer'
<1>1. PICK d \in DependenciesDue(i) :
          /\ UpsertDependency(d, batch[i].dependencies[d], observedAt[i])
          /\ dependenciesPut' = [dependenciesPut EXCEPT ![i] = @ \cup {d}]
    BY DEF PutDependency
<1> DEFINE row == [payload |-> batch[i].dependencies[d], last_seen |-> observedAt[i]]
<1>2. /\ pc[i] = "writing"
      /\ consumersPut[i] = ConsumersIn(batch[i])
      /\ d \in DependenciesIn(batch[i]) \ dependenciesPut[i]
    BY <1>1 DEF DependenciesDue
<1>3. /\ d \in DependencyKeys
      /\ observedAt[i] \in Nat
      /\ d[1] \in ConsumersIn(batch[i]) /\ d[1] \in ConsumerIds
      /\ dependencies[d] \in EvidenceRow \cup {None}
      /\ dependencies[d] # None => dependencies[d].last_seen <= observedAt[i]
    <2>1. d \in DependencyKeys /\ observedAt[i] \in Nat /\ batch[i] \in Batches
        BY <1>2 DEF Inv, TypeOK, DependenciesIn, Begun
    <2>2. dependencies[d] # None => dependencies[d].last_seen <= observedAt[i]
        BY <2>1, RowsSeenBefore DEF SerialInv
    <2>3. d[1] \in ConsumersIn(batch[i])
        BY <1>2, <2>1, IngestAssumption DEF WellFormed
    <2> QED BY <2>1, <2>2, <2>3 DEF Inv, TypeOK, StoreTypeOK, ConsumersIn
<1>4. /\ dependencies'[d] = row
      /\ \A e \in DependencyKeys \ {d} : dependencies'[e] = dependencies[e]
    <2>1. Seen(dependencies[d], batch[i].dependencies[d], observedAt[i]) = row
        BY <1>3, SeenTakesEffect
    <2> QED BY <2>1, <1>1, <1>3 DEF UpsertDependency, Inv, TypeOK, StoreTypeOK
<1>5. /\ dependenciesPut'[i] = dependenciesPut[i] \cup {d}
      /\ UNCHANGED <<pc, batch, observedAt, changesBefore, consumersPut,
                     signalsPut, appended, signals, changes, consumers>>
    BY <1>1 DEF PutDependency, UpsertDependency, Inv, TypeOK
<1>6. OwnLog(i) /\ SignalsStored(i) /\ ConsumersStored(i)
    BY <1>2 DEF SerialInv, ImportProgress
<1>7. OwnLog(i)' /\ SignalsStored(i)'
    BY <1>5, <1>6 DEF OwnLog, SignalsStored
<1>8. ConsumersStored(i)'
    BY <1>4, <1>5, <1>6 DEF ConsumersStored, Inv, TypeOK
<1>9. EdgesNoNewerThanConsumer'
    <2>1. /\ consumers[d[1]] # None
          /\ consumers[d[1]].last_seen = observedAt[i]
        <3>1. consumers[d[1]] = [payload |-> batch[i].consumers[d[1]],
                                 last_seen |-> observedAt[i]]
            BY <1>2, <1>3, <1>6 DEF ConsumersStored
        <3>2. consumers[d[1]].last_seen = observedAt[i]
            BY <3>1
        <3>3. batch[i].consumers[d[1]] \in Payloads
            BY <1>2, <1>3, BatchType DEF Inv
        <3>4. [payload |-> batch[i].consumers[d[1]],
               last_seen |-> observedAt[i]] \in EvidenceRow
            BY <1>3, <3>3 DEF EvidenceRow
        <3> QED BY <3>1, <3>2, <3>4, NoneAssumption
    <2>2. \A e \in DependencyKeys : dependencies'[e] # None =>
              /\ consumers[e[1]] # None
              /\ dependencies'[e].last_seen <= consumers[e[1]].last_seen
        BY <2>1, <1>3, <1>4 DEF SerialInv, EdgesNoNewerThanConsumer
    <2> QED BY <2>2, <1>5 DEF SerialInv, EdgesNoNewerThanConsumer
<1> QED BY <1>2, <1>5, <1>7, <1>8, <1>9 DEF ImportProgress

\* The consumer of an edge is there: this import wrote it, and no other runs.
LEMMA NoRejection ==
    ASSUME Inv, SerialInv, NEW i \in Ingests, RejectDependency(i)
    PROVE  FALSE
<1>1. PICK d \in DependenciesDue(i) : ~ForeignKeyHolds(d)
    BY DEF RejectDependency
<1>2. /\ pc[i] = "writing"
      /\ batch[i] \in Batches
      /\ consumersPut[i] = ConsumersIn(batch[i])
      /\ d \in DependenciesIn(batch[i])
    BY <1>1 DEF DependenciesDue, Inv, TypeOK, Begun
<1>3. d[1] \in ConsumersIn(batch[i])
    BY <1>2, IngestAssumption DEF WellFormed
<1>4. consumers[d[1]] = [payload |-> batch[i].consumers[d[1]],
                         last_seen |-> observedAt[i]]
    BY <1>2, <1>3 DEF SerialInv, ImportProgress, ConsumersStored
<1>5. consumers[d[1]] # None
    <2>1. batch[i].consumers[d[1]] \in Payloads /\ observedAt[i] \in Nat
        BY <1>2, <1>3, IngestAssumption DEF ConsumersIn, Batch, Inv, TypeOK
    <2>2. [payload |-> batch[i].consumers[d[1]],
           last_seen |-> observedAt[i]] \in EvidenceRow
        BY <2>1 DEF EvidenceRow
    <2> QED BY <1>4, <2>2, NoneAssumption
<1> QED BY <1>1, <1>5 DEF ForeignKeyHolds

LEMMA PutSignalProgress ==
    ASSUME Inv, SerialInv, NEW i \in Ingests, Running(i), PutSignal(i)
    PROVE  ImportProgress(i)' /\ EdgesNoNewerThanConsumer'
<1>1. PICK k \in SignalsIn(batch[i]) \ signalsPut[i] :
          /\ UpsertSignal(k, Observed(batch[i], k, observedAt[i]))
          /\ signalsPut' = [signalsPut EXCEPT ![i] = @ \cup {k}]
    BY DEF PutSignal
<1> DEFINE s == Observed(batch[i], k, observedAt[i])
<1>2. /\ k \in SignalKeys /\ s \in Signal /\ s.observed_at = observedAt[i]
      /\ signals[k] # None => signals[k].last_seen <= observedAt[i]
    <2>1. k \in SignalKeys /\ observedAt[i] \in Nat /\ batch[i] \in Batches
        BY <1>1 DEF Inv, TypeOK, SignalsIn, Running
    <2>2. signals[k] # None => signals[k].last_seen <= observedAt[i]
        BY <2>1, RowsSeenBefore DEF SerialInv
    <2> QED BY <2>1, <2>2, <1>1, ObservedType DEF Observed
<1>3. /\ pc[i] = "writing"
      /\ signalsPut'[i] = signalsPut[i] \cup {k}
      /\ signalsPut[i] \subseteq SignalKeys
      /\ UNCHANGED <<pc, batch, observedAt, changesBefore, consumersPut,
                     dependenciesPut, consumers, dependencies>>
    BY <1>1 DEF PutSignal, EdgesWritten, UpsertSignal, Inv, TypeOK
<1>4. UpsertSignal(k, s) /\ s = Observed(batch[i], k, observedAt[i])
    BY <1>1
<1> HIDE DEF s
<1>5. OwnLog(i) /\ SignalsStored(i) /\ ConsumersStored(i)
    BY <1>3 DEF SerialInv, ImportProgress
<1>6. OwnLog(i)'
    BY <1>2, <1>3, <1>4, <1>5, UpsertKeepsOwnLog DEF PutSignal, Inv
<1>7. /\ signals'[k] # None /\ signals'[k].signal = s
      /\ \A l \in SignalKeys \ {k} : signals'[l] = signals[l]
    BY <1>2, <1>4, UpsertTakesEffect, UpsertSignalEffect DEF Inv, TypeOK
<1>8. SignalsStored(i)' /\ ConsumersStored(i)'
    BY <1>3, <1>4, <1>5, <1>7 DEF SignalsStored, ConsumersStored
<1>9. EdgesNoNewerThanConsumer'
    BY <1>3 DEF SerialInv, EdgesNoNewerThanConsumer
<1> QED BY <1>3, <1>6, <1>8, <1>9 DEF ImportProgress

LEMMA ListProgress ==
    ASSUME Inv, SerialInv, NEW i \in Ingests, ListActiveSignals(i)
    PROVE  ImportProgress(i)' /\ EdgesNoNewerThanConsumer'
<1>1. /\ pc[i] = "writing" /\ AllPut(i) /\ pc'[i] = "withdrawing"
      /\ \A j \in Ingests : pc'[j] = "rejected" => pc[j] = "rejected"
      /\ UNCHANGED <<signals, changes, consumers, dependencies, batch,
                     observedAt, changesBefore, consumersPut, dependenciesPut,
                     signalsPut, appended>>
    BY DEF ListActiveSignals, EdgesWritten, AllPut, storeVars, Inv, TypeOK
<1>2. OwnLog(i) /\ SignalsStored(i) /\ ConsumersStored(i)
    BY <1>1 DEF SerialInv, ImportProgress
<1>3. OwnLog(i)' /\ SignalsStored(i)' /\ ConsumersStored(i)' /\ AllPut(i)'
    BY <1>1, <1>2 DEF OwnLog, SignalsStored, ConsumersStored, AllPut
<1>4. RestListed(i)'
    <2> SUFFICES ASSUME NEW k \in batch[i].covers \ SignalsIn(batch[i]),
                        withdrawals'[i][k] = None, signals[k] # None
                 PROVE  ~signals[k].signal.active
        BY <1>1 DEF RestListed
    <2>1. k \in SignalKeys
        BY <1>1, BatchType DEF Inv
    <2>2. withdrawals'[i][k] = IF Missing(batch[i], k)
                               THEN signals[k].signal ELSE None
        BY <2>1 DEF ListActiveSignals, Inv, TypeOK
    <2>3. signals[k].signal # None
        BY <2>1, NoneAssumption DEF Inv, TypeOK, StoreTypeOK, SignalRow
    <2> QED BY <2>2, <2>3 DEF Missing
<1>5. EdgesNoNewerThanConsumer'
    BY <1>1 DEF SerialInv, EdgesNoNewerThanConsumer
<1> QED BY <1>1, <1>3, <1>4, <1>5 DEF ImportProgress

LEMMA WithdrawProgress ==
    ASSUME Inv, SerialInv, NEW i \in Ingests, Running(i), WithdrawSignal(i)
    PROVE  ImportProgress(i)' /\ EdgesNoNewerThanConsumer'
<1>1. PICK k \in SignalKeys :
          /\ withdrawals[i][k] # None
          /\ UpsertSignal(k, Withdrawn(withdrawals[i][k], observedAt[i]))
          /\ withdrawals' = [withdrawals EXCEPT ![i][k] = None]
    BY DEF WithdrawSignal
<1> DEFINE s == Withdrawn(withdrawals[i][k], observedAt[i])
<1>2. /\ s \in Signal /\ s.observed_at = observedAt[i] /\ ~s.active
      /\ k \notin SignalsIn(batch[i])
      /\ signals[k] # None => signals[k].last_seen <= observedAt[i]
    <2>1. withdrawals[i][k] \in Signal /\ observedAt[i] \in Nat
        BY <1>1 DEF Inv, TypeOK
    <2>2. s \in Signal /\ s.observed_at = observedAt[i]
        BY <2>1, WithdrawnType
    <2>3. ~s.active
        BY <2>1 DEF Withdrawn, Signal
    <2>4. k \notin SignalsIn(batch[i])
        BY <1>1 DEF Inv, SignalInv, SignalsInBatch
    <2>5. signals[k] # None => signals[k].last_seen <= observedAt[i]
        BY RowsSeenBefore DEF SerialInv
    <2> QED BY <2>2, <2>3, <2>4, <2>5
<1>3. /\ pc[i] = "withdrawing"
      /\ \A l \in SignalKeys \ {k} : withdrawals'[i][l] = withdrawals[i][l]
      /\ UNCHANGED <<pc, batch, observedAt, changesBefore, consumersPut,
                     dependenciesPut, signalsPut, consumers, dependencies>>
    BY <1>1 DEF WithdrawSignal, UpsertSignal, Inv, TypeOK
<1>4. UpsertSignal(k, s)
    BY <1>1
<1> HIDE DEF s
<1>5. /\ OwnLog(i) /\ SignalsStored(i) /\ ConsumersStored(i)
      /\ AllPut(i) /\ RestListed(i)
    BY <1>3 DEF SerialInv, ImportProgress
<1>6. OwnLog(i)'
    BY <1>2, <1>3, <1>4, <1>5, UpsertKeepsOwnLog DEF WithdrawSignal, Inv
<1>7. /\ signals'[k].signal = s
      /\ \A l \in SignalKeys \ {k} : signals'[l] = signals[l]
    BY <1>2, <1>4, UpsertTakesEffect, UpsertSignalEffect DEF Inv, TypeOK
<1>8. SignalsStored(i)'
    BY <1>2, <1>3, <1>5, <1>7 DEF SignalsStored, AllPut, Inv, TypeOK
<1>9. ConsumersStored(i)' /\ AllPut(i)'
    BY <1>3, <1>5 DEF ConsumersStored, AllPut
<1>10. RestListed(i)'
    <2> SUFFICES ASSUME NEW l \in batch[i].covers \ SignalsIn(batch[i]),
                        withdrawals'[i][l] = None, signals'[l] # None
                 PROVE  ~signals'[l].signal.active
        BY <1>3 DEF RestListed
    <2>1. CASE l = k
        BY <2>1, <1>2, <1>7
    <2>2. CASE l # k
        <3>1. l \in SignalKeys
            BY <1>3, BatchType DEF Inv
        <3> QED BY <2>2, <3>1, <1>3, <1>5, <1>7 DEF RestListed
    <2> QED BY <2>1, <2>2
<1>11. EdgesNoNewerThanConsumer'
    BY <1>3 DEF SerialInv, EdgesNoNewerThanConsumer
<1> QED BY <1>3, <1>6, <1>8, <1>9, <1>10, <1>11 DEF ImportProgress

\* What the batch does not hold is no newer than the snapshot and goes.
LEMMA ReconcileProgress ==
    ASSUME Inv, SerialInv, NEW i \in Ingests, Running(i), ReconcileConsumers(i)
    PROVE  ImportProgress(i)' /\ EdgesNoNewerThanConsumer'
<1> DEFINE b == batch[i]
           t == observedAt[i]
           gone == ObsoleteConsumers(ConsumersIn(b), t)
<1>1. /\ pc[i] = "withdrawing" /\ pc'[i] = "summarising"
      /\ \A j \in Ingests : pc'[j] = "rejected" => pc[j] = "rejected"
      /\ \A k \in SignalKeys : withdrawals[i][k] = None
      /\ UNCHANGED <<batch, observedAt, changesBefore, appended, signals, changes>>
    BY DEF ReconcileConsumers, ReconcileConsumerSnapshot, storeVars, Inv, TypeOK
<1>2. /\ OwnLog(i) /\ SignalsStored(i) /\ ConsumersStored(i)
      /\ AllPut(i) /\ RestListed(i)
    BY <1>1 DEF SerialInv, ImportProgress
<1>3. /\ b \in Batches /\ WellFormed(b)
      /\ b.covers \subseteq SignalKeys
      /\ \A k \in SignalsIn(b) : b.signals[k] \in MaterialSignal
      /\ \A c \in ConsumersIn(b) : b.consumers[c] \in Payloads
      /\ \A d \in DependenciesIn(b) : b.dependencies[d] \in Payloads
    BY <1>1, BatchType DEF Inv
<1>4. OwnLog(i)'
    BY <1>1, <1>2 DEF OwnLog
<1>5. SignalsMatch(b)'
    <2>1. ASSUME NEW k \in SignalsIn(b)
          PROVE  signals[k] # None /\ Material(signals[k].signal) = b.signals[k]
        <3>1. signals[k] # None /\ signals[k].signal = Observed(b, k, t)
            BY <1>2 DEF SignalsStored, AllPut
        <3>2. b.signals[k] = [payload |-> b.signals[k].payload,
                              active |-> b.signals[k].active]
            BY <1>3 DEF MaterialSignal
        <3> QED BY <3>1, <3>2 DEF Observed, Material
    <2>2. ASSUME NEW k \in b.covers \ SignalsIn(b), signals[k] # None
          PROVE  ~signals[k].signal.active
        BY <2>2, <1>1, <1>2, <1>3 DEF RestListed
    <2>3. SignalsMatch(b)
        BY <2>1, <2>2 DEF SignalsMatch
    <2> QED BY <2>3, <1>1 DEF SignalsMatch
<1>6. CASE b.consumersAuthoritative
    <2>1. /\ \A c \in ConsumerIds :
                consumers'[c] = IF c \in gone THEN None ELSE consumers[c]
          /\ \A d \in DependencyKeys : dependencies'[d] =
                IF d[1] \in gone \/ (d \notin DependenciesIn(b)
                                        /\ Obsolete(dependencies[d], t))
                THEN None ELSE dependencies[d]
        BY <1>6 DEF ReconcileConsumers, ReconcileConsumerSnapshot
    <2>2. \A c \in ConsumersIn(b) :
              /\ consumers[c] = [payload |-> b.consumers[c], last_seen |-> t]
              /\ c \in ConsumerIds /\ c \notin gone
        BY <1>2 DEF ConsumersStored, AllPut, ConsumersIn, ObsoleteConsumers
    <2>3. \A d \in DependenciesIn(b) :
              /\ dependencies[d] = [payload |-> b.dependencies[d], last_seen |-> t]
              /\ d \in DependencyKeys /\ d[1] \in ConsumersIn(b)
        BY <1>2, <1>3 DEF ConsumersStored, AllPut, DependenciesIn, WellFormed
    <2>4. /\ \A c \in ConsumersIn(b) : consumers[c] # None
          /\ \A d \in DependenciesIn(b) : dependencies[d] # None
        <3>1. \A p \in Payloads : [payload |-> p, last_seen |-> t] # None
            BY NoneAssumption DEF EvidenceRow, Inv, TypeOK
        <3> QED BY <3>1, <2>2, <2>3, <1>3
    <2>5. \A c \in ConsumerIds \ ConsumersIn(b) : consumers'[c] = None
        <3>1. \A c \in ConsumerIds : consumers[c] # None => consumers[c].last_seen <= t
            BY RowsSeenBefore DEF SerialInv
        <3> QED BY <3>1, <2>1 DEF ObsoleteConsumers, Obsolete
    <2>6. \A d \in DependencyKeys \ DependenciesIn(b) : dependencies'[d] = None
        <3>1. \A d \in DependencyKeys :
                  dependencies[d] # None => dependencies[d].last_seen <= t
            BY RowsSeenBefore DEF SerialInv
        <3> QED BY <3>1, <2>1 DEF Obsolete
    <2>7. \A c \in ConsumersIn(b) :
              consumers'[c] # None /\ consumers'[c].payload = b.consumers[c]
        <3> SUFFICES ASSUME NEW c \in ConsumersIn(b)
                     PROVE  /\ consumers'[c] # None
                            /\ consumers'[c].payload = b.consumers[c]
            OBVIOUS
        <3>1. consumers'[c] = consumers[c]
            BY <2>1, <2>2
        <3>2. consumers[c] = [payload |-> b.consumers[c], last_seen |-> t]
            BY <2>2
        <3>3. consumers[c] # None
            BY <2>4
        <3>4. consumers[c].payload = b.consumers[c]
            BY <3>2
        <3> QED BY <3>1, <3>3, <3>4
    <2>8. \A d \in DependenciesIn(b) :
              /\ dependencies'[d] # None
              /\ dependencies'[d].payload = b.dependencies[d]
        <3> SUFFICES ASSUME NEW d \in DependenciesIn(b)
                     PROVE  /\ dependencies'[d] # None
                            /\ dependencies'[d].payload = b.dependencies[d]
            OBVIOUS
        <3>1. dependencies'[d] = dependencies[d]
            BY <2>1, <2>2, <2>3
        <3>2. dependencies[d] = [payload |-> b.dependencies[d], last_seen |-> t]
            BY <2>3
        <3>3. dependencies[d] # None
            BY <2>4
        <3>4. dependencies[d].payload = b.dependencies[d]
            BY <3>2
        <3> QED BY <3>1, <3>3, <3>4
    <2>9. ConsumersMatch(b)'
        <3>1. UNCHANGED b
            BY <1>1
        <3> HIDE DEF b
        <3> QED BY <3>1, <2>5, <2>6, <2>7, <2>8
                DEF ConsumersMatch, ConsumersIn, DependenciesIn
    <2>10. EdgesNoNewerThanConsumer'
        <3> SUFFICES ASSUME NEW d \in DependencyKeys, dependencies'[d] # None
                     PROVE  /\ consumers'[d[1]] # None
                            /\ dependencies'[d].last_seen <= consumers'[d[1]].last_seen
            BY <1>1 DEF SerialInv, EdgesNoNewerThanConsumer
        <3>1. d[1] \notin gone /\ dependencies'[d] = dependencies[d]
            BY <2>1
        <3>2. d[1] \in ConsumerIds /\ consumers'[d[1]] = consumers[d[1]]
            BY <3>1, <2>1 DEF DependencyKeys
        <3> QED BY <3>1, <3>2 DEF SerialInv, EdgesNoNewerThanConsumer
    <2> QED BY <1>1, <1>4, <1>5, <2>9, <2>10 DEF ImportProgress
<1>7. CASE ~b.consumersAuthoritative
    <2>1. UNCHANGED <<consumers, dependencies>>
        BY <1>7 DEF ReconcileConsumers, storeVars
    <2>2. EdgesNoNewerThanConsumer'
        BY <1>1, <2>1 DEF SerialInv, EdgesNoNewerThanConsumer
    <2> QED BY <1>1, <1>4, <1>5, <1>7, <2>2 DEF ImportProgress
<1> QED BY <1>6, <1>7

LEMMA EndProgress ==
    ASSUME TypeOK, SerialInv, NEW i \in Ingests, Summarise(i) \/ Die(i)
    PROVE  ImportProgress(i)' /\ EdgesNoNewerThanConsumer'
<1>1. /\ UNCHANGED <<storeVars, appended>>
      /\ pc'[i] \in {"done", "dead"}
      /\ \A j \in Ingests : pc'[j] = "rejected" => pc[j] = "rejected"
    BY DEF Summarise, Die, TypeOK
<1>2. pc'[i] = "done" => summary'[i] = Counts(appended[i])
    <2>1. CASE Summarise(i)
        <3>1. OwnLog(i)
            BY <2>1 DEF Summarise, SerialInv, ImportProgress
        <3> QED BY <2>1, <3>1 DEF Summarise, OwnLog, TypeOK
    <2>2. CASE Die(i)
        BY <2>2 DEF Die, TypeOK
    <2> QED BY <2>1, <2>2
<1>3. EdgesNoNewerThanConsumer'
    BY <1>1 DEF SerialInv, EdgesNoNewerThanConsumer, storeVars
<1> QED BY <1>1, <1>2, <1>3 DEF ImportProgress

\* An import begins while none is under way, and its clock is the latest.
LEMMA BeginProgress ==
    ASSUME TypeOK, SerialInv, NEW i \in Ingests, SerialBegin(i)
    PROVE  SerialInv'
<1>1. PICK t \in Times : observedAt' = [observedAt EXCEPT ![i] = t]
    BY DEF SerialBegin, Begin
<1>2. /\ pc[i] = "idle" /\ pc' = [pc EXCEPT ![i] = "counting"]
      /\ \A j \in Ingests : ~Running(j)
      /\ \A j \in Ingests : Begun(j) => observedAt[j] <= t
      /\ t \in Nat
      /\ UNCHANGED <<signals, changes, consumers, dependencies, consumersPut,
                     dependenciesPut, signalsPut, appended, summary>>
    BY <1>1, IngestAssumption DEF SerialBegin, Begin, storeVars, TypeOK
<1>3. OneAtATime'
    BY <1>1, <1>2 DEF OneAtATime, Running, Begun, Ended, TypeOK
<1>4. ASSUME NEW j \in Ingests
      PROVE  ImportProgress(j)'
    <2>1. pc'[j] \notin {"writing", "withdrawing", "summarising"}
        BY <1>2 DEF TypeOK, Running, Begun, Ended
    <2>2. pc'[j] \in {"idle", "counting"} => pc[j] = "idle"
        BY <1>2 DEF TypeOK, Running, Begun, Ended
    <2>3. pc'[j] = "done" => pc[j] = "done"
        BY <1>2 DEF TypeOK
    <2>4. ImportProgress(j)
        BY DEF SerialInv
    <2> QED BY <2>1, <2>2, <2>3, <2>4, <1>2 DEF ImportProgress
<1>5. EdgesNoNewerThanConsumer'
    BY <1>2 DEF SerialInv, EdgesNoNewerThanConsumer, TypeOK
<1> QED BY <1>3, <1>4, <1>5 DEF SerialInv

-----------------------------------------------------------------------------
(***************************************************************************)
(* The theorems                                                            *)
(***************************************************************************)

LEMMA SerialStep == Inv /\ Inv' /\ SerialInv /\ [SerialNext]_vars => SerialInv'
<1> SUFFICES ASSUME Inv, Inv', SerialInv, [SerialNext]_vars PROVE SerialInv'
    OBVIOUS
<1>1. ASSUME NEW i \in Ingests, SerialBegin(i) PROVE SerialInv'
    BY <1>1, BeginProgress DEF Inv
<1>2. ASSUME NEW i \in Ingests, Step(i) \/ Die(i) PROVE SerialInv'
    <2>1. /\ Running(i)
          /\ OneAtATime'
          /\ \A j \in Ingests \ {i} : ImportProgress(j)'
        BY <1>2, OthersKeepProgress DEF Inv
    <2>2. ImportProgress(i)' /\ EdgesNoNewerThanConsumer'
        BY <1>2, <2>1, CountProgress, PutConsumerProgress,
           PutDependencyProgress, NoRejection, PutSignalProgress,
           ListProgress, WithdrawProgress, ReconcileProgress, EndProgress
           DEF Step, Inv
    <2> QED BY <2>1, <2>2 DEF SerialInv
<1>3. CASE UNCHANGED vars
    <2>1. OneAtATime'
        BY <1>3 DEF vars, ingestVars, SerialInv, OneAtATime, Running, Begun, Ended
    <2>2. ASSUME NEW i \in Ingests PROVE ImportProgress(i)'
        BY <1>3 DEF vars, ingestVars, storeVars, SerialInv, ImportProgress, OwnLog,
           SignalsStored, ConsumersStored, AllPut, RestListed, SignalsMatch,
           ConsumersMatch
    <2>3. EdgesNoNewerThanConsumer'
        BY <1>3 DEF vars, ingestVars, storeVars, SerialInv, EdgesNoNewerThanConsumer
    <2> QED BY <2>1, <2>2, <2>3 DEF SerialInv
<1> QED BY <1>1, <1>2, <1>3 DEF SerialNext

LEMMA InitSerialInv == Init => SerialInv
BY DEF Init, StoreInit, SerialInv, OneAtATime, ImportProgress, Running, Begun,
       EdgesNoNewerThanConsumer

\* A step of serial imports is a step of imports that may overlap.
LEMMA SerialIsImport == [SerialNext]_vars => [Next]_vars
BY DEF SerialNext, SerialBegin, Next

LEMMA SerialInvariant == SerialSpec => [](Inv /\ SerialInv)
<1>1. Init => Inv /\ SerialInv
    BY InitTypeOK, InitSignalInv, InitConsumerInv, InitSerialInv DEF Inv
<1>2. Inv /\ [SerialNext]_vars => Inv'
    BY SerialIsImport, NextTypeOK, NextSignalInv, NextConsumerInv DEF Inv
<1>3. Inv /\ SerialInv /\ [SerialNext]_vars => (Inv /\ SerialInv)'
    BY <1>2, SerialStep
<1> QED BY <1>1, <1>3, PTL DEF SerialSpec

\* However many imports follow one another, and wherever some of them die, the
\* summary of one that returns counts exactly its own changes.
THEOREM SummariesAreOwn == SerialSpec => []SummaryCountsOwnChanges
<1>1. SerialInv => SummaryCountsOwnChanges
    BY DEF SerialInv, ImportProgress, SummaryCountsOwnChanges
<1> QED BY <1>1, SerialInvariant, PTL

\* No foreign key ever fails, and no edge is newer than its consumer.
THEOREM SerialEdges == SerialSpec => []EdgesNoNewerThanConsumer
<1>1. SerialInv => EdgesNoNewerThanConsumer
    BY DEF SerialInv
<1> QED BY <1>1, SerialInvariant, PTL

\* When an import returns, its scopes show exactly its files, whatever the
\* imports before it left half done.
THEOREM SnapshotsTakeEffect == SerialSpec => SnapshotTakesEffect
<1> DEFINE Effect(i) ==
        pc[i] # "done" /\ pc'[i] = "done" =>
            /\ SignalsMatch(batch[i])'
            /\ batch[i].consumersAuthoritative => ConsumersMatch(batch[i])'
<1>1. ASSUME Inv, SerialInv, [SerialNext]_vars, NEW i \in Ingests
      PROVE  Effect(i)
    <2> SUFFICES ASSUME pc[i] # "done", pc'[i] = "done"
                 PROVE  /\ SignalsMatch(batch[i])'
                        /\ batch[i].consumersAuthoritative
                               => ConsumersMatch(batch[i])'
        OBVIOUS
    <2>1. PICK j \in Ingests : SerialBegin(j) \/ Step(j) \/ Die(j)
        BY <1>1 DEF SerialNext, vars, ingestVars
    <2>2. Summarise(i)
        <3>1. pc \in [Ingests -> {"idle", "counting", "writing", "withdrawing",
                                  "summarising", "done", "rejected", "dead"}]
            BY <1>1 DEF Inv, TypeOK
        <3>2. CASE SerialBegin(j)
            BY <3>1, <3>2 DEF SerialBegin, Begin
        <3>3. CASE Die(j)
            BY <3>1, <3>3 DEF Die
        <3>4. CASE Summarise(j)
            BY <3>1, <3>4 DEF Summarise
        <3>5. CASE Step(j) /\ ~Summarise(j)
            BY <3>1, <3>5 DEF Step, CountChangesBefore, PutConsumer,
               PutDependency, RejectDependency, PutSignal, ListActiveSignals,
               WithdrawSignal, ReconcileConsumers
        <3> QED BY <2>1, <3>2, <3>3, <3>4, <3>5
    <2>3. /\ SignalsMatch(batch[i])
          /\ batch[i].consumersAuthoritative => ConsumersMatch(batch[i])
        BY <1>1, <2>2 DEF Summarise, SerialInv, ImportProgress
    <2>4. UNCHANGED <<signals, consumers, dependencies, batch>>
        BY <2>2 DEF Summarise, storeVars
    <2> QED BY <2>3, <2>4 DEF SignalsMatch, ConsumersMatch
<1>2. Inv /\ SerialInv /\ [SerialNext]_vars
          => [\A i \in Ingests : Effect(i)]_vars
    BY <1>1
<1> QED BY <1>2, SerialInvariant, PTL DEF SerialSpec, SnapshotTakesEffect

=============================================================================
