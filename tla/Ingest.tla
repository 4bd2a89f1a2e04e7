------------------------------- MODULE Ingest -------------------------------
(***************************************************************************)
(* services/monitor.py: ingest_batch, run by any number of imports (CLI    *)
(* import, demo, watch refreshes, and POST /api/import/sample, each with a *)
(* connection of its own) over one database.                               *)
(*                                                                         *)
(* The repository commits every upsert separately, so an ingest is a       *)
(* process of many transactions and two ingests interleave between them.   *)
(* An ingest may also die between two transactions: the process is killed, *)
(* SQLite stays locked past busy_timeout, or a foreign key fails.          *)
(*                                                                         *)
(* A batch is what load_file_sources hands over, indexed by key.  `covers` *)
(* are the signal keys inside its authoritative scope: those of the        *)
(* supplied OpenAPI targets, and every manual key once a feed is supplied. *)
(* Rows of one phase are written in an order that the key names decide;    *)
(* key names being abstract here, every order is explored.                 *)
(***************************************************************************)
EXTENDS EvidenceStore, FiniteSets

CONSTANTS
    Ingests,        \* the calls of ingest_batch
    Batches,        \* the batches the files on disk may yield
    Times           \* observed_at values: --at, or the system clock

VARIABLES
    pc,                 \* where each ingest is
    batch,              \* its SourceBatch, None before it begins
    observedAt,         \* its observed_at
    changesBefore,      \* its changes_before
    consumersPut,       \* consumers it has written
    dependenciesPut,    \* edges it has written
    signalsPut,         \* signals it has written
    withdrawals,        \* listed signals it has yet to withdraw
    summary,            \* the IngestSummary it returned
    appended            \* history: the changes its own transactions appended

ingestVars == <<pc, batch, observedAt, changesBefore, consumersPut,
                dependenciesPut, signalsPut, withdrawals, summary, appended>>

vars == <<storeVars, ingestVars>>

-----------------------------------------------------------------------------
(***************************************************************************)
(* Batches                                                                 *)
(***************************************************************************)

\* A document and the active flag the feed or the OpenAPI extension gave it.
MaterialSignal == [payload : Payloads, active : BOOLEAN]

Batch == [signals : [SignalKeys -> MaterialSignal \cup {None}],
          covers : SUBSET SignalKeys,
          consumers : [ConsumerIds -> Payloads \cup {None}],
          dependencies : [DependencyKeys -> Payloads \cup {None}],
          consumersAuthoritative : BOOLEAN]

SignalsIn(b) == {k \in SignalKeys : b.signals[k] # None}
ConsumersIn(b) == {c \in ConsumerIds : b.consumers[c] # None}
DependenciesIn(b) == {d \in DependencyKeys : b.dependencies[d] # None}

\* What the loaders and merge_source_batches guarantee: a signal lies in the
\* scope its own file makes authoritative, an edge names a consumer of the
\* batch, and consumers come only from consumer maps, which are authoritative.
WellFormed(b) ==
    /\ SignalsIn(b) \subseteq b.covers
    /\ \A d \in DependenciesIn(b) : d[1] \in ConsumersIn(b)
    /\ ConsumersIn(b) # {} => b.consumersAuthoritative

ASSUME IngestAssumption ==
    /\ Batches \subseteq Batch
    /\ \A b \in Batches : WellFormed(b)
    /\ Times \subseteq Nat
    /\ None \notin Batch
    /\ None \notin MaterialSignal

\* The signal of batch b under key k, stamped with the ingest's time.
Observed(b, k, t) ==
    [payload |-> b.signals[k].payload, active |-> b.signals[k].active,
     observed_at |-> t]

Withdrawn(s, t) == [s EXCEPT !.active = FALSE, !.observed_at = t]

\* IngestSummary: a Counter over the change types of a stretch of the log.
Counts(log) ==
    [type \in ChangeTypes |->
        Cardinality({n \in 1..Len(log) : log[n].change_type = type})]

Begun(i) == pc[i] # "idle"
Ended(i) == pc[i] \in {"done", "rejected", "dead"}
Running(i) == Begun(i) /\ ~Ended(i)

-----------------------------------------------------------------------------
Init ==
    /\ StoreInit
    /\ pc = [i \in Ingests |-> "idle"]
    /\ batch = [i \in Ingests |-> None]
    /\ observedAt = [i \in Ingests |-> 0]
    /\ changesBefore = [i \in Ingests |-> 0]
    /\ consumersPut = [i \in Ingests |-> {}]
    /\ dependenciesPut = [i \in Ingests |-> {}]
    /\ signalsPut = [i \in Ingests |-> {}]
    /\ withdrawals = [i \in Ingests |-> [k \in SignalKeys |-> None]]
    /\ summary = [i \in Ingests |-> None]
    /\ appended = [i \in Ingests |-> <<>>]

\* The caller reads the clock, then load_file_sources reads every file; a
\* file that cannot be read ends the import before it touches the database.
Begin(i) ==
    /\ pc[i] = "idle"
    /\ \E b \in Batches, t \in Times :
        /\ batch' = [batch EXCEPT ![i] = b]
        /\ observedAt' = [observedAt EXCEPT ![i] = t]
    /\ pc' = [pc EXCEPT ![i] = "counting"]
    /\ UNCHANGED <<storeVars, changesBefore, consumersPut, dependenciesPut,
                   signalsPut, withdrawals, summary, appended>>

\* Mutant of CountChangesBefore: the index of the last entry, not the count.
CountChangesBeforeLast(i) ==
    /\ pc[i] = "counting"
    /\ changesBefore' = [changesBefore EXCEPT ![i] = Len(changes) - 1]
    /\ pc' = [pc EXCEPT ![i] = "writing"]
    /\ UNCHANGED <<storeVars, batch, observedAt, consumersPut,
                   dependenciesPut, signalsPut, withdrawals, summary, appended>>

CountChangesBefore(i) ==
    /\ pc[i] = "counting"
    /\ changesBefore' = [changesBefore EXCEPT ![i] = Len(changes)]
    /\ pc' = [pc EXCEPT ![i] = "writing"]
    /\ UNCHANGED <<storeVars, batch, observedAt, consumersPut,
                   dependenciesPut, signalsPut, withdrawals, summary, appended>>

PutConsumer(i) ==
    /\ pc[i] = "writing"
    /\ \E c \in ConsumersIn(batch[i]) \ consumersPut[i] :
        /\ UpsertConsumer(c, batch[i].consumers[c], observedAt[i])
        /\ consumersPut' = [consumersPut EXCEPT ![i] = @ \cup {c}]
    /\ UNCHANGED <<pc, batch, observedAt, changesBefore, dependenciesPut,
                   signalsPut, withdrawals, summary, appended>>

\* The edges still to write, once every consumer is written.
DependenciesDue(i) ==
    IF pc[i] = "writing" /\ consumersPut[i] = ConsumersIn(batch[i])
    THEN DependenciesIn(batch[i]) \ dependenciesPut[i] ELSE {}

PutDependency(i) ==
    /\ \E d \in DependenciesDue(i) :
        /\ UpsertDependency(d, batch[i].dependencies[d], observedAt[i])
        /\ dependenciesPut' = [dependenciesPut EXCEPT ![i] = @ \cup {d}]
    /\ UNCHANGED <<pc, batch, observedAt, changesBefore, consumersPut,
                   signalsPut, withdrawals, summary, appended>>

\* sqlite3.IntegrityError: the consumer written a moment ago is gone again.
\* Nothing in ingest_batch or its callers handles it.
RejectDependency(i) ==
    /\ \E d \in DependenciesDue(i) : ~ForeignKeyHolds(d)
    /\ pc' = [pc EXCEPT ![i] = "rejected"]
    /\ UNCHANGED <<storeVars, batch, observedAt, changesBefore, consumersPut,
                   dependenciesPut, signalsPut, withdrawals, summary, appended>>

EdgesWritten(i) ==
    /\ pc[i] = "writing"
    /\ consumersPut[i] = ConsumersIn(batch[i])
    /\ dependenciesPut[i] = DependenciesIn(batch[i])

\* History: the entries this step adds to the log are the ingest's own.
RecordAppended(i) ==
    appended' = [appended EXCEPT ![i] =
        @ \o SubSeq(changes', Len(changes) + 1, Len(changes'))]

PutSignal(i) ==
    /\ EdgesWritten(i)
    /\ \E k \in SignalsIn(batch[i]) \ signalsPut[i] :
        /\ UpsertSignal(k, Observed(batch[i], k, observedAt[i]))
        /\ signalsPut' = [signalsPut EXCEPT ![i] = @ \cup {k}]
    /\ RecordAppended(i)
    /\ UNCHANGED <<pc, batch, observedAt, changesBefore, consumersPut,
                   dependenciesPut, withdrawals, summary>>

\* A record that list_signal_records(active_only=True) returns and the batch,
\* though it covers the record's scope, does not contain.
Missing(b, k) ==
    /\ signals[k] # None
    /\ signals[k].signal.active
    /\ k \in b.covers \ SignalsIn(b)

\* One SELECT; the records it returns are used after the read lock is gone.
ListActiveSignals(i) ==
    /\ EdgesWritten(i)
    /\ signalsPut[i] = SignalsIn(batch[i])
    /\ withdrawals' = [withdrawals EXCEPT ![i] =
           [k \in SignalKeys |->
               IF Missing(batch[i], k) THEN signals[k].signal ELSE None]]
    /\ pc' = [pc EXCEPT ![i] = "withdrawing"]
    /\ UNCHANGED <<storeVars, batch, observedAt, changesBefore, consumersPut,
                   dependenciesPut, signalsPut, summary, appended>>

\* The withdrawal is a copy of the record as it was listed, made inactive.
WithdrawSignal(i) ==
    /\ pc[i] = "withdrawing"
    /\ \E k \in SignalKeys :
        /\ withdrawals[i][k] # None
        /\ UpsertSignal(k, Withdrawn(withdrawals[i][k], observedAt[i]))
        /\ withdrawals' = [withdrawals EXCEPT ![i][k] = None]
    /\ RecordAppended(i)
    /\ UNCHANGED <<pc, batch, observedAt, changesBefore, consumersPut,
                   dependenciesPut, signalsPut, summary>>

ReconcileConsumers(i) ==
    /\ pc[i] = "withdrawing"
    /\ \A k \in SignalKeys : withdrawals[i][k] = None
    /\ IF batch[i].consumersAuthoritative
       THEN ReconcileConsumerSnapshot(ConsumersIn(batch[i]),
                DependenciesIn(batch[i]), observedAt[i])
       ELSE UNCHANGED storeVars
    /\ pc' = [pc EXCEPT ![i] = "summarising"]
    /\ UNCHANGED <<batch, observedAt, changesBefore, consumersPut,
                   dependenciesPut, signalsPut, withdrawals, summary, appended>>

\* Mutant of Summarise: the whole log is counted.
SummariseWholeLog(i) ==
    /\ pc[i] = "summarising"
    /\ summary' = [summary EXCEPT ![i] = Counts(changes)]
    /\ pc' = [pc EXCEPT ![i] = "done"]
    /\ UNCHANGED <<storeVars, batch, observedAt, changesBefore, consumersPut,
                   dependenciesPut, signalsPut, withdrawals, appended>>

Summarise(i) ==
    /\ pc[i] = "summarising"
    /\ summary' = [summary EXCEPT ![i] =
           Counts(SubSeq(changes, changesBefore[i] + 1, Len(changes)))]
    /\ pc' = [pc EXCEPT ![i] = "done"]
    /\ UNCHANGED <<storeVars, batch, observedAt, changesBefore, consumersPut,
                   dependenciesPut, signalsPut, withdrawals, appended>>

\* The process is killed, or a transaction raises and is rolled back.
Die(i) ==
    /\ Running(i)
    /\ pc' = [pc EXCEPT ![i] = "dead"]
    /\ UNCHANGED <<storeVars, batch, observedAt, changesBefore, consumersPut,
                   dependenciesPut, signalsPut, withdrawals, summary, appended>>

Step(i) ==
    \/ CountChangesBefore(i)
    \/ PutConsumer(i)
    \/ PutDependency(i)
    \/ RejectDependency(i)
    \/ PutSignal(i)
    \/ ListActiveSignals(i)
    \/ WithdrawSignal(i)
    \/ ReconcileConsumers(i)
    \/ Summarise(i)

Next == \E i \in Ingests : Begin(i) \/ Step(i) \/ Die(i)

Spec == Init /\ [][Next]_vars

-----------------------------------------------------------------------------
(***************************************************************************)
(* Serial imports: one operator, one clock that does not run backwards.    *)
(* The next import begins only once the previous one has returned or died. *)
(***************************************************************************)
SerialBegin(i) ==
    /\ \A j \in Ingests : ~Running(j)
    /\ Begin(i)
    /\ \A j \in Ingests : Begun(j) => observedAt[j] <= observedAt'[i]

SerialNext == \E i \in Ingests : SerialBegin(i) \/ Step(i) \/ Die(i)

SerialSpec == Init /\ [][SerialNext]_vars

-----------------------------------------------------------------------------
(***************************************************************************)
(* Properties                                                              *)
(***************************************************************************)

\* Every column, log entry and local variable has its type.
TypeOK ==
    /\ StoreTypeOK
    /\ pc \in [Ingests -> {"idle", "counting", "writing", "withdrawing",
                           "summarising", "done", "rejected", "dead"}]
    /\ batch \in [Ingests -> Batches \cup {None}]
    /\ \A i \in Ingests : Begun(i) => batch[i] # None
    /\ observedAt \in [Ingests -> Nat]
    /\ changesBefore \in [Ingests -> Nat]
    /\ consumersPut \in [Ingests -> SUBSET ConsumerIds]
    /\ dependenciesPut \in [Ingests -> SUBSET DependencyKeys]
    /\ signalsPut \in [Ingests -> SUBSET SignalKeys]
    /\ withdrawals \in [Ingests -> [SignalKeys -> Signal \cup {None}]]
    /\ summary \in [Ingests -> [ChangeTypes -> Nat] \cup {None}]
    /\ appended \in [Ingests -> Seq(Change)]

\* No entry for the same key lies between entry n of the log and entry m.
Follows(m, n) ==
    /\ m < n
    /\ changes[m].signal_key = changes[n].signal_key
    /\ \A l \in (m + 1)..(n - 1) :
           changes[l].signal_key # changes[n].signal_key

\* A signal's history can be replayed: it starts with one discovery, each
\* later entry departs from the state the entry before it reached, records a
\* real difference, and is called a withdrawal exactly when it ends activity
\* (upsert_signal, _append_change).  Interleaved ingests, deaths between
\* transactions and stale withdrawal copies must not break the chain.
HistoryReplays ==
    \A n \in 1..Len(changes) :
        LET entry == changes[n] IN
        IF entry.previous = None
        THEN /\ entry.change_type = "discovered"
             /\ \A m \in 1..(n - 1) : changes[m].signal_key # entry.signal_key
        ELSE /\ entry.change_type =
                    ChangeType(entry.previous, entry.current)
             /\ Material(entry.previous) # Material(entry.current)
             /\ \E m \in 1..(n - 1) :
                    /\ Follows(m, n)
                    /\ Material(changes[m].current) = Material(entry.previous)

\* The history explains the table: a row exists exactly when its discovery was
\* logged, and the last entry of a key describes the row as it stands, up to
\* the time of its last observation.
HistoryExplainsRows ==
    \A k \in SignalKeys :
        LET entries == {n \in 1..Len(changes) : changes[n].signal_key = k} IN
        IF signals[k] = None THEN entries = {}
        ELSE \E n \in entries :
                /\ \A m \in entries : m <= n
                /\ Material(changes[n].current) = Material(signals[k].signal)
                /\ changes[n].recorded_at <= signals[k].last_seen

\* The history of a key is in observation order, whatever the order in which
\* ingests with older and newer clocks reach the database; and a row never
\* claims to be seen before it was first seen.
HistoryInOrder ==
    /\ \A m, n \in 1..Len(changes) :
           m < n /\ changes[m].signal_key = changes[n].signal_key
               => changes[m].recorded_at <= changes[n].recorded_at
    /\ \A k \in SignalKeys : signals[k] # None =>
           /\ signals[k].first_seen <= signals[k].last_seen
           /\ signals[k].signal.observed_at = signals[k].last_seen

\* No step takes a signal back in time: a row never disappears, keeps its
\* first_seen_at, and is replaced only by evidence at least as recent; the
\* log only grows (CHANGELOG: stale or withdrawn source observations can no
\* longer overwrite newer lifecycle state).
RowAdvances(k) ==
    signals[k] # None =>
        /\ signals'[k] # None
        /\ signals'[k].first_seen = signals[k].first_seen
        /\ \/ signals'[k] = signals[k]
           \/ signals'[k].last_seen >= signals[k].last_seen

EvidenceNeverRegresses ==
    [][/\ \A k \in SignalKeys : RowAdvances(k)
       /\ Len(changes') >= Len(changes)
       /\ \A n \in 1..Len(changes) : changes'[n] = changes[n]]_vars

\* The table and its change log, seen as the feed a reader is promised: every
\* committed step is one transition with its entry, or changes nothing.
MaterialOrNone(s) == IF s = None THEN None ELSE Material(s)

View ==
    [k \in SignalKeys |->
        IF signals[k] = None THEN None ELSE Material(signals[k].signal)]

FeedEntry(entry) ==
    [key |-> entry.signal_key, from |-> MaterialOrNone(entry.previous),
     to |-> Material(entry.current)]

Feed ==
    INSTANCE ChangeFeed WITH
        Keys <- SignalKeys, States <- MaterialSignal, Unknown <- None,
        view <- View,
        feed <- [n \in 1..Len(changes) |-> FeedEntry(changes[n])]

\* The change log tells the whole story of the signals table.
ImplementsChangeFeed == Feed!Spec

\* Ingest i observed its files strictly later than every other ingest.
Newest(i) ==
    /\ Begun(i)
    /\ \A j \in Ingests \ {i} : Begun(j) => observedAt[j] < observedAt[i]

\* Whatever older ingests do in between, and wherever they or the newest one
\* die, everything the newest ingest has written stands as it wrote it.
NewestEvidenceStands ==
    \A i \in Ingests : Newest(i) =>
        /\ \A k \in signalsPut[i] :
               /\ signals[k] # None
               /\ signals[k].signal = Observed(batch[i], k, observedAt[i])
        /\ \A c \in consumersPut[i] : consumers[c] =
               [payload |-> batch[i].consumers[c], last_seen |-> observedAt[i]]
        /\ \A d \in dependenciesPut[i] : dependencies[d] =
               [payload |-> batch[i].dependencies[d],
                last_seen |-> observedAt[i]]

\* Every edge has its consumer (FOREIGN KEY ... ON DELETE CASCADE).
NoOrphanEdges ==
    \A d \in DependencyKeys :
        dependencies[d] # None => consumers[d[1]] # None

\* An ingest fails on the foreign key only if another ingest, at least as
\* recent, removed the consumer as absent from its own consumer map.
RejectedOnlyByNewerSnapshot ==
    \A i \in Ingests : pc[i] = "rejected" =>
        \E j \in Ingests \ {i} :
            /\ Begun(j)
            /\ observedAt[j] >= observedAt[i]
            /\ batch[j].consumersAuthoritative
            /\ ConsumersIn(batch[i]) \ ConsumersIn(batch[j]) # {}

-----------------------------------------------------------------------------
(***************************************************************************)
(* What a completed import promises when imports do not overlap            *)
(***************************************************************************)

\* The stored evidence inside the batch's authoritative scopes is the batch.
SignalsMatch(b) ==
    \A k \in b.covers :
        IF k \in SignalsIn(b)
        THEN signals[k] # None /\ Material(signals[k].signal) = b.signals[k]
        ELSE signals[k] # None => ~signals[k].signal.active

ConsumersMatch(b) ==
    /\ \A c \in ConsumerIds :
           IF c \in ConsumersIn(b)
           THEN consumers[c] # None /\ consumers[c].payload = b.consumers[c]
           ELSE consumers[c] = None
    /\ \A d \in DependencyKeys :
           IF d \in DependenciesIn(b)
           THEN /\ dependencies[d] # None
                /\ dependencies[d].payload = b.dependencies[d]
           ELSE dependencies[d] = None

\* Files supplied in one import are the authoritative snapshot: when it
\* returns, the view of its scopes is exactly the batch, even after imports
\* that died half way and at equal timestamps.
SnapshotTakesEffect ==
    [][\A i \in Ingests : pc[i] # "done" /\ pc'[i] = "done" =>
           /\ SignalsMatch(batch[i])'
           /\ batch[i].consumersAuthoritative => ConsumersMatch(batch[i])']_vars

\* The IngestSummary counts the changes its own ingest appended, no others.
SummaryCountsOwnChanges ==
    \A i \in Ingests : pc[i] = "done" => summary[i] = Counts(appended[i])

\* Without overlap no foreign key fails, and an edge is never seen later than
\* the consumer that a reconcile would cascade from.
EdgesNoNewerThanConsumer ==
    /\ \A i \in Ingests : pc[i] # "rejected"
    /\ \A d \in DependencyKeys : dependencies[d] # None =>
           /\ consumers[d[1]] # None
           /\ dependencies[d].last_seen <= consumers[d[1]].last_seen

-----------------------------------------------------------------------------
(***************************************************************************)
(* What the README says of overlapping and back-dated imports, and the     *)
(* code does not do                                                        *)
(***************************************************************************)

\* README: a removed dependency leaves the current view without letting an
\* older snapshot overwrite newer evidence.  Once a consumer that some import
\* had written is gone and a snapshot lacking it has completed, no snapshot
\* older than that one brings the consumer back.
OlderSnapshotRestores(i, c) ==
    /\ pc[i] = "writing"
    /\ \E k \in Ingests \ {i} : c \in consumersPut[k]
    /\ consumers[c] = None
    /\ consumers'[c] # None
    /\ \E j \in Ingests :
           /\ pc[j] = "done"
           /\ batch[j].consumersAuthoritative
           /\ c \notin ConsumersIn(batch[j])
           /\ consumers'[c].last_seen < observedAt[j]

RemovedConsumerStaysRemoved ==
    [][\A i \in Ingests, c \in ConsumerIds : ~OlderSnapshotRestores(i, c)]_vars

=============================================================================
