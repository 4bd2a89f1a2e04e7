------------------------------ MODULE MCIngest ------------------------------
(***************************************************************************)
(* Small instances of Ingest for TLC: the batches that matter, built from  *)
(* one or two keys of each kind.                                           *)
(***************************************************************************)
EXTENDS Ingest, TLC

NoSignals == [k \in SignalKeys |-> None]
NoConsumers == [c \in ConsumerIds |-> None]
NoDependencies == [d \in DependencyKeys |-> None]

\* A feed holding the signals of f, authoritative for every key of the model.
FeedImport(f) ==
    [signals |-> f, covers |-> SignalKeys, consumers |-> NoConsumers,
     dependencies |-> NoDependencies, consumersAuthoritative |-> FALSE]

\* Every feed; inactive declarations included.
Feeds == {FeedImport(f) : f \in [SignalKeys -> MaterialSignal \cup {None}]}

\* Feeds that declare active signals only.
ActiveFeeds ==
    {FeedImport(f) : f \in [SignalKeys ->
        [payload : Payloads, active : {TRUE}] \cup {None}]}

\* A consumer map: a set of consumers, each using a subset of the endpoints.
Map(p, edges, cs) ==
    [signals |-> NoSignals, covers |-> {},
     consumers |-> [c \in ConsumerIds |-> IF c \in cs THEN p ELSE None],
     dependencies |-> [d \in DependencyKeys |-> IF d \in edges THEN p ELSE None],
     consumersAuthoritative |-> TRUE]

Maps ==
    {Map(p, edges, cs) : p \in Payloads, edges \in SUBSET DependencyKeys,
                         cs \in SUBSET ConsumerIds}

ConsumerMaps == {m \in Maps : WellFormed(m)}

\* An import of a feed and a consumer map together.
FullImports ==
    {[f EXCEPT !.consumers = m.consumers, !.dependencies = m.dependencies,
               !.consumersAuthoritative = TRUE] :
        f \in ActiveFeeds, m \in ConsumerMaps}

\* Imports of one category or of both.
MixedImports == ActiveFeeds \cup ConsumerMaps \cup FullImports

\* Imports of one category.
SingleImports == Feeds \cup ConsumerMaps

Symmetry ==
    Permutations(Ingests) \cup Permutations(SignalKeys)
        \cup Permutations(Payloads) \cup Permutations(ConsumerIds)

=============================================================================
