--------------------------- MODULE EvidenceStore ---------------------------
(***************************************************************************)
(* The evidence tables of SQLiteRepository: lifecycle_signals with its     *)
(* append-only change log, consumers, and consumer_dependencies.           *)
(*                                                                         *)
(* Every operator below is one BEGIN IMMEDIATE transaction of the          *)
(* repository: it reads and writes in a single step, and is meant to be    *)
(* conjoined with the step of the process that calls it.                   *)
(*                                                                         *)
(* Abstractions.  A stored JSON document is a member of Payloads.  Of a    *)
(* LifecycleSignal only what the transactions look at is kept apart:       *)
(* `active`, `observed_at`, and `payload`, which stands for every other    *)
(* material field (raw_sha256, which _material_signal_payload ignores, is  *)
(* left out).  Instants are natural numbers.  The first_seen_at column of  *)
(* consumers and dependencies is left out: nothing reads it.               *)
(***************************************************************************)
EXTENDS Integers, Sequences

CONSTANTS
    SignalKeys,     \* values of lifecycle_signals.signal_key
    ConsumerIds,    \* values of consumers.consumer_id
    Endpoints,      \* values of consumer_dependencies.endpoint_key
    Payloads,       \* stored documents
    None            \* no row, no document

DependencyKeys == ConsumerIds \X Endpoints

\* A LifecycleSignal as a caller hands it to upsert_signal.
Signal == [payload : Payloads, active : BOOLEAN, observed_at : Nat]

SignalRow == [signal : Signal, first_seen : Nat, last_seen : Nat]

EvidenceRow == [payload : Payloads, last_seen : Nat]

ChangeTypes == {"discovered", "updated", "withdrawn"}

Change == [signal_key : SignalKeys, change_type : ChangeTypes,
           recorded_at : Nat, previous : Signal \cup {None}, current : Signal]

\* None is a value of no other kind.
ASSUME NoneAssumption ==
    /\ None \notin Payloads
    /\ None \notin Signal
    /\ None \notin SignalRow
    /\ None \notin EvidenceRow

VARIABLES
    signals,        \* lifecycle_signals: SignalKeys -> row or None
    changes,        \* changes, in change_id order
    consumers,      \* consumers: ConsumerIds -> row or None
    dependencies    \* consumer_dependencies: DependencyKeys -> row or None

storeVars == <<signals, changes, consumers, dependencies>>

StoreTypeOK ==
    /\ signals \in [SignalKeys -> SignalRow \cup {None}]
    /\ changes \in Seq(Change)
    /\ consumers \in [ConsumerIds -> EvidenceRow \cup {None}]
    /\ dependencies \in [DependencyKeys -> EvidenceRow \cup {None}]

\* A freshly initialised database.
StoreInit ==
    /\ signals = [k \in SignalKeys |-> None]
    /\ changes = <<>>
    /\ consumers = [c \in ConsumerIds |-> None]
    /\ dependencies = [d \in DependencyKeys |-> None]

-----------------------------------------------------------------------------
(***************************************************************************)
(* Signals and the change log                                              *)
(***************************************************************************)

\* _material_signal_payload: the signal without its observation time.
Material(s) == [payload |-> s.payload, active |-> s.active]

ChangeType(previous, current) ==
    IF previous.active /\ ~current.active THEN "withdrawn" ELSE "updated"

\* Mutant of AppendChange: the entry departs from the state it reaches.
AppendChangeTo(k, type, previous, current) ==
    changes' = Append(changes,
        [signal_key |-> k, change_type |-> type,
         recorded_at |-> current.observed_at,
         previous |-> IF previous = None THEN None ELSE current,
         current |-> current])

AppendChange(k, type, previous, current) ==
    changes' = Append(changes,
        [signal_key |-> k, change_type |-> type,
         recorded_at |-> current.observed_at,
         previous |-> previous, current |-> current])

DiscoverSignal(k, s) ==
    /\ signals[k] = None
    /\ signals' = [signals EXCEPT ![k] =
            [signal |-> s, first_seen |-> s.observed_at,
             last_seen |-> s.observed_at]]
    /\ AppendChange(k, "discovered", None, s)

IgnoreStaleSignal(k, s) ==
    /\ signals[k] # None
    /\ s.observed_at < signals[k].last_seen
    /\ UNCHANGED <<signals, changes>>

\* Mutant of RefreshSignal: the age of the observation is not looked at.
RefreshSignalAnyAge(k, s) ==
    /\ signals[k] # None
    /\ signals' = [signals EXCEPT ![k] =
            [signal |-> s, first_seen |-> signals[k].first_seen,
             last_seen |-> s.observed_at]]
    /\ LET previous == signals[k].signal IN
       IF Material(previous) = Material(s)
       THEN UNCHANGED changes
       ELSE AppendChange(k, ChangeType(previous, s), previous, s)

\* Mutant of RefreshSignal: the active flag does not count as a change.
RefreshSignalIgnoresActive(k, s) ==
    /\ signals[k] # None
    /\ s.observed_at >= signals[k].last_seen
    /\ signals' = [signals EXCEPT ![k] =
            [signal |-> s, first_seen |-> signals[k].first_seen,
             last_seen |-> s.observed_at]]
    /\ LET previous == signals[k].signal IN
       IF previous.payload = s.payload
       THEN UNCHANGED changes
       ELSE AppendChange(k, ChangeType(previous, s), previous, s)

\* The change entry compares against the row as it was; the row is replaced
\* whether or not the difference is material.
RefreshSignal(k, s) ==
    /\ signals[k] # None
    /\ s.observed_at >= signals[k].last_seen
    /\ signals' = [signals EXCEPT ![k] =
            [signal |-> s, first_seen |-> signals[k].first_seen,
             last_seen |-> s.observed_at]]
    /\ LET previous == signals[k].signal IN
       IF Material(previous) = Material(s)
       THEN UNCHANGED changes
       ELSE AppendChange(k, ChangeType(previous, s), previous, s)

UpsertSignal(k, s) ==
    /\ \/ DiscoverSignal(k, s)
       \/ IgnoreStaleSignal(k, s)
       \/ RefreshSignal(k, s)
    /\ UNCHANGED <<consumers, dependencies>>

-----------------------------------------------------------------------------
(***************************************************************************)
(* Consumers and their dependency edges                                    *)
(***************************************************************************)

\* Mutant of Seen: the last writer wins.
SeenAnyAge(row, payload, t) == [payload |-> payload, last_seen |-> t]

\* The row a timestamped upsert leaves behind: an observation older than the
\* row is ignored, any other replaces the document.
Seen(row, payload, t) ==
    IF row # None /\ t < row.last_seen THEN row
    ELSE [payload |-> payload, last_seen |-> t]

\* Mutant of UpsertConsumer: a known document does not renew last_seen_at.
UpsertConsumerKeepsTime(c, payload, t) ==
    /\ consumers' = [consumers EXCEPT ![c] =
           IF @ # None /\ @.payload = payload THEN @ ELSE Seen(@, payload, t)]
    /\ UNCHANGED <<signals, changes, dependencies>>

UpsertConsumer(c, payload, t) ==
    /\ consumers' = [consumers EXCEPT ![c] = Seen(consumers[c], payload, t)]
    /\ UNCHANGED <<signals, changes, dependencies>>

\* Mutant of ForeignKeyHolds: PRAGMA foreign_keys is left off.
ForeignKeyUnchecked(d) == TRUE

\* The foreign key is checked when an edge is inserted: its consumer must exist.
ForeignKeyHolds(d) == dependencies[d] # None \/ consumers[d[1]] # None

UpsertDependency(d, payload, t) ==
    /\ ForeignKeyHolds(d)
    /\ dependencies' =
           [dependencies EXCEPT ![d] = Seen(dependencies[d], payload, t)]
    /\ UNCHANGED <<signals, changes, consumers>>

\* Mutant of Obsolete: a row seen at the snapshot's own second stays.
ObsoleteStrictly(row, t) == row # None /\ row.last_seen < t

\* Mutant of Obsolete: newer rows go too.
ObsoleteAnyAge(row, t) == row # None

\* A row that a snapshot observed at t and lacking its key makes obsolete.
Obsolete(row, t) == row # None /\ row.last_seen <= t

ObsoleteConsumers(ids, t) ==
    {c \in ConsumerIds \ ids : Obsolete(consumers[c], t)}

\* Edges absent from the snapshot go first; deleting a consumer then cascades
\* to whatever edges it still has, whenever they were last seen.
ReconcileConsumerSnapshot(ids, keys, t) ==
    LET gone == ObsoleteConsumers(ids, t) IN
    /\ consumers' = [c \in ConsumerIds |->
           IF c \in gone THEN None ELSE consumers[c]]
    /\ dependencies' = [d \in DependencyKeys |->
           IF d[1] \in gone \/ (d \notin keys /\ Obsolete(dependencies[d], t))
           THEN None ELSE dependencies[d]]
    /\ UNCHANGED <<signals, changes>>

=============================================================================
