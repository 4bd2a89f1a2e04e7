---------------------------- MODULE FileSources ----------------------------
(***************************************************************************)
(* adapters/file_sources.py: load_file_sources reads the OpenAPI documents *)
(* (one per target), the manual feeds and the consumer maps one after the  *)
(* other, then merge_source_batches puts their batches together, one after *)
(* the other; the result is what Ingest imports.                           *)
(*                                                                         *)
(* The files are read at different moments and may be edited in between,   *)
(* so what a file holds is chosen when it is read.                         *)
(*                                                                         *)
(* Abstractions.  A target id or a manual key is the sequence of the parts *)
(* that its colons separate.  An operation, a consumer id, an endpoint or  *)
(* a document of a consumer is a name.  Batches hold sets: the tuples of   *)
(* the code are sorted by fields that tell their members apart.            *)
(***************************************************************************)
EXTENDS Integers, Sequences, FiniteSets

CONSTANTS
    Sources,            \* the arguments in the order they are read: records
                        \* [kind, target], kind openapi, feed or map
    Contents,           \* Contents[i]: what source i may hold
    MaxSourceBytes,     \* MAX_SOURCE_BYTES
    MaxKeyLength,       \* the longest signal key that is not a digest
    None

\* A document is finite, and None is no file.
ASSUME FileSourcesAssumption ==
    /\ MaxKeyLength \in Nat
    /\ IsFiniteSet(DOMAIN Sources)
    /\ \A i \in DOMAIN Sources :
           /\ Sources[i].kind \in {"openapi", "feed", "map"}
           /\ None \notin Contents[i]
           /\ Sources[i].kind = "openapi" =>
                  /\ Sources[i].target \in Seq(STRING)
                  /\ \A file \in Contents[i] :
                         IsFiniteSet(DOMAIN file.document.operations)
           /\ Sources[i].kind = "feed" =>
                  \A file \in Contents[i] :
                      /\ Len(file.document.signals) \in Nat
                      /\ \A n \in 1..Len(file.document.signals) :
                             /\ file.document.signals[n].target \in Seq(STRING)
                             /\ file.document.signals[n].key \in Seq(STRING)
           /\ Sources[i].kind = "map" =>
                  \A file \in Contents[i] :
                      /\ Len(file.document.consumers) \in Nat
                      /\ Len(file.document.dependencies) \in Nat

VARIABLES
    phase,      \* loading, merging, loaded or refused (FileSourceError)
    supplied,   \* the sources of this call
    asRead,     \* what each source held when it was read, or None
    mergedFrom, \* the sources merged so far
    merged      \* the batch so far

sourceVars == <<phase, supplied, asRead, mergedFrom, merged>>

-----------------------------------------------------------------------------
(***************************************************************************)
(* Reading one file                                                        *)
(***************************************************************************)

\* No two positions of the sequence agree on what f gives.
Distinct(sequence, f(_)) ==
    \A m, n \in 1..Len(sequence) :
        f(sequence[m]) = f(sequence[n]) => m = n

Itself(x) == x

\* _read_document: the size is checked on what was read, one byte past the
\* limit at most; a mapping that gives a key twice is ambiguous.
Readable(file) ==
    /\ file.opens
    /\ file.bytes <= MaxSourceBytes
    /\ file.utf8
    /\ file.suffix \in {"json", "yaml", "yml"}
    /\ Distinct(file.keys, Itself)

\* A date is an instant or None.
DatesInOrder(e) ==
    e.deprecation_at # None /\ e.sunset_at # None
        => e.deprecation_at <= e.sunset_at

HasEvidence(e) ==
    e.deprecated \/ e.deprecation_at # None \/ e.sunset_at # None

\* Mutant of SignalKey: the target is left out of a manual key.
SignalKeyUnscoped(prefix, target, identity) == <<prefix>> \o identity

\* _signal_key: a key too long to store is replaced by a digest, which tells
\* identities apart.  Nobody calls a target sha256 and a key by such a digest.
SignalKey(prefix, target, identity) ==
    LET candidate == <<prefix>> \o target \o identity IN
    IF Len(candidate) <= MaxKeyLength THEN candidate
    ELSE <<prefix, "sha256">> \o target \o identity

EmptyBatch ==
    [signals |-> {}, consumers |-> {}, dependencies |-> {}, targets |-> {},
     manual |-> FALSE, map |-> FALSE]

-----------------------------------------------------------------------------
(***************************************************************************)
(* OpenAPI documents: operations, each with its deprecated flag and the    *)
(* x-sunset-sentinel extension or None                                     *)
(***************************************************************************)

\* What the flag and the extension say together.
OperationEvidence(op) ==
    IF op.extension = None
    THEN [deprecated |-> op.deprecated, deprecation_at |-> None,
          sunset_at |-> None, active |-> TRUE]
    ELSE [op.extension EXCEPT !.deprecated = @ \/ op.deprecated]

\* An extension must say something; a bare operation need not.
OperationValid(op) ==
    /\ op.wellTyped
    /\ op.extension # None =>
           /\ DatesInOrder(op.extension)
           /\ HasEvidence(OperationEvidence(op))

OpenApiValid(document) ==
    /\ document.supportedVersion
    /\ document.rootedPaths
    /\ \A o \in DOMAIN document.operations :
           OperationValid(document.operations[o])

\* Operations without evidence give no signal.
Announced(document) ==
    {o \in DOMAIN document.operations :
        HasEvidence(OperationEvidence(document.operations[o]))}

\* EndpointRef.key separates its parts by newlines, which no part contains.
OpenApiBatch(target, document) ==
    [EmptyBatch EXCEPT
        !.signals =
            {[source |-> "openapi", target |-> target,
              key |-> SignalKey("openapi", target, <<"\n", o>>), endpoint |-> o,
              evidence |-> OperationEvidence(document.operations[o])] :
                o \in Announced(document)},
        !.targets = {target}]

-----------------------------------------------------------------------------
(***************************************************************************)
(* Manual feeds: a sequence of items                                       *)
(***************************************************************************)

ItemValid(item) ==
    /\ DatesInOrder(item.evidence)
    /\ item.scope = "endpoint" <=> item.endpoint # None
    /\ HasEvidence(item.evidence)

ItemIdentity(item) == <<item.target, item.key>>

FeedValid(document) ==
    /\ document.supportedVersion
    /\ \A n \in 1..Len(document.signals) : ItemValid(document.signals[n])
    /\ Distinct(document.signals, ItemIdentity)

ItemSignal(item) ==
    [source |-> "manual", target |-> item.target,
     key |-> SignalKey("manual", item.target, item.key),
     endpoint |-> item.endpoint, evidence |-> item.evidence]

\* Mutant of FeedBatch: a feed does not speak for the manual notices.
FeedBatchUnauthoritative(document) ==
    [EmptyBatch EXCEPT
        !.signals = {ItemSignal(document.signals[n]) :
                        n \in 1..Len(document.signals)}]

FeedBatch(document) ==
    [EmptyBatch EXCEPT
        !.signals = {ItemSignal(document.signals[n]) :
                        n \in 1..Len(document.signals)},
        !.manual = TRUE]

-----------------------------------------------------------------------------
(***************************************************************************)
(* Consumer maps: consumers, and the endpoints they depend on              *)
(***************************************************************************)

ConsumerId(consumer) == consumer.id
DependencyIdentity(dependency) == <<dependency.consumer, dependency.endpoint>>

KnowsConsumers(document) ==
    \A n \in 1..Len(document.dependencies) :
        \E m \in 1..Len(document.consumers) :
            document.consumers[m].id = document.dependencies[n].consumer

MapValid(document) ==
    /\ document.supportedVersion
    /\ Distinct(document.consumers, ConsumerId)
    /\ KnowsConsumers(document)
    /\ Distinct(document.dependencies, DependencyIdentity)

MapBatch(document) ==
    [EmptyBatch EXCEPT
        !.consumers = {document.consumers[n] :
                          n \in 1..Len(document.consumers)},
        !.dependencies = {document.dependencies[n] :
                             n \in 1..Len(document.dependencies)},
        !.map = TRUE]

-----------------------------------------------------------------------------
(***************************************************************************)
(* One source                                                              *)
(***************************************************************************)

Accepts(i, file) ==
    /\ Readable(file)
    /\ CASE Sources[i].kind = "openapi" -> OpenApiValid(file.document)
         [] Sources[i].kind = "feed" -> FeedValid(file.document)
         [] Sources[i].kind = "map" -> MapValid(file.document)

BatchOf(i, file) ==
    CASE Sources[i].kind = "openapi" ->
             OpenApiBatch(Sources[i].target, file.document)
      [] Sources[i].kind = "feed" -> FeedBatch(file.document)
      [] Sources[i].kind = "map" -> MapBatch(file.document)

-----------------------------------------------------------------------------
(***************************************************************************)
(* load_file_sources                                                       *)
(***************************************************************************)

SourceInit ==
    /\ phase = "loading"
    /\ supplied \in SUBSET DOMAIN Sources
    /\ asRead = [i \in DOMAIN Sources |-> None]
    /\ mergedFrom = {}
    /\ merged = EmptyBatch

WasRead(i) == asRead[i] # None

\* The next of the supplied sources that has not been taken yet.
NextDue(i, taken) ==
    /\ i \in supplied \ taken
    /\ \A j \in supplied \ taken : i <= j

\* A file that is defective ends the call: nothing of the others is kept.
LoadSource(i) ==
    /\ phase = "loading"
    /\ NextDue(i, {j \in supplied : WasRead(j)})
    /\ \E file \in Contents[i] :
        /\ asRead' = [asRead EXCEPT ![i] = file]
        /\ phase' = IF Accepts(i, file) THEN "loading" ELSE "refused"
    /\ UNCHANGED <<supplied, mergedFrom, merged>>

BeginMerge ==
    /\ phase = "loading"
    /\ \A i \in supplied : WasRead(i)
    /\ phase' = "merging"
    /\ UNCHANGED <<supplied, asRead, mergedFrom, merged>>

SignalIdentity(signal) == <<signal.target, signal.source, signal.key>>

\* Mutant of Clashes: the identity of a signal is its source and key.
ClashesOnKey(b, c) ==
    \/ \E s \in b.signals, t \in c.signals :
           s.source = t.source /\ s.key = t.key
    \/ \E s \in b.consumers, t \in c.consumers : s.id = t.id
    \/ \E s \in b.dependencies, t \in c.dependencies :
           DependencyIdentity(s) = DependencyIdentity(t)

\* The two batches both declare something.
Clashes(b, c) ==
    \/ \E s \in b.signals, t \in c.signals :
           SignalIdentity(s) = SignalIdentity(t)
    \/ \E s \in b.consumers, t \in c.consumers : s.id = t.id
    \/ \E s \in b.dependencies, t \in c.dependencies :
           DependencyIdentity(s) = DependencyIdentity(t)

Join(b, c) ==
    [signals |-> b.signals \cup c.signals,
     consumers |-> b.consumers \cup c.consumers,
     dependencies |-> b.dependencies \cup c.dependencies,
     targets |-> b.targets \cup c.targets,
     manual |-> b.manual \/ c.manual,
     map |-> b.map \/ c.map]

\* One round of the loop of merge_source_batches.
MergeSource(i) ==
    /\ phase = "merging"
    /\ NextDue(i, mergedFrom)
    /\ LET batch == BatchOf(i, asRead[i]) IN
       IF Clashes(merged, batch)
       THEN /\ phase' = "refused"
            /\ UNCHANGED <<mergedFrom, merged>>
       ELSE /\ merged' = Join(merged, batch)
            /\ mergedFrom' = mergedFrom \cup {i}
            /\ UNCHANGED phase
    /\ UNCHANGED <<supplied, asRead>>

UnknownConsumers(b) ==
    {d.consumer : d \in b.dependencies} \ {c.id : c \in b.consumers}

EndMerge ==
    /\ phase = "merging"
    /\ mergedFrom = supplied
    /\ phase' = IF UnknownConsumers(merged) = {} THEN "loaded" ELSE "refused"
    /\ UNCHANGED <<supplied, asRead, mergedFrom, merged>>

SourceNext ==
    \/ \E i \in DOMAIN Sources : LoadSource(i) \/ MergeSource(i)
    \/ BeginMerge
    \/ EndMerge

SourceSpec == SourceInit /\ [][SourceNext]_sourceVars

-----------------------------------------------------------------------------
(***************************************************************************)
(* Properties                                                              *)
(***************************************************************************)

\* ingest_batch, _is_authoritative: the batch may withdraw this signal.
Covers(b, signal) ==
    \/ signal.source = "openapi" /\ signal.target \in b.targets
    \/ signal.source = "manual" /\ b.manual

\* What Ingest assumes of a batch (WellFormed there), and that nothing is in
\* it twice.
BatchWellFormed(b) ==
    /\ \A s \in b.signals : Covers(b, s)
    /\ \A d \in b.dependencies : \E c \in b.consumers : c.id = d.consumer
    /\ b.consumers # {} => b.map
    /\ \A s, t \in b.signals : SignalIdentity(s) = SignalIdentity(t) => s = t
    /\ \A s, t \in b.consumers : s.id = t.id => s = t
    /\ \A s, t \in b.dependencies :
           DependencyIdentity(s) = DependencyIdentity(t) => s = t

\* Whatever the files hold when each of them is read, at every round of the
\* merge the batch may be imported as it stands: no signal lies outside the
\* scope the files speak for (ingest_batch would never withdraw it), no edge
\* would fail the foreign key, nothing would be written twice.
MergedIsWellFormed == BatchWellFormed(merged)

\* What a source declares, each declaration with its place in the file.
Declared(i) ==
    LET document == asRead[i].document IN
    CASE Sources[i].kind = "openapi" ->
             {<<i, o, <<"openapi", Sources[i].target, o>>>> :
                 o \in Announced(document)}
      [] Sources[i].kind = "feed" ->
             {<<i, n, <<"manual", document.signals[n].target,
                        document.signals[n].key>>>> :
                 n \in 1..Len(document.signals)}
      [] Sources[i].kind = "map" ->
             {<<i, n, <<"consumer", document.consumers[n].id>>>> :
                 n \in 1..Len(document.consumers)}
             \cup
             {<<i, n, <<"edge", document.dependencies[n].consumer,
                        document.dependencies[n].endpoint>>>> :
                 n \in 1..Len(document.dependencies)}

ReadSources == {i \in supplied : WasRead(i)}

\* Two declarations of one thing, in one file or in two.
DeclaredTwice ==
    \E i, j \in ReadSources :
        \E d \in Declared(i), e \in Declared(j) : d # e /\ d[3] = e[3]

\* A call fails only for a file that is defective by itself or for something
\* declared twice, in whatever order the files are named; and one that does
\* not fail returns every declaration of every file, once, and no other.
VerdictMatchesFiles ==
    LET defective == \E i \in ReadSources : ~Accepts(i, asRead[i]) IN
    /\ phase = "refused" => defective \/ DeclaredTwice
    /\ phase = "loaded" =>
           /\ ReadSources = supplied
           /\ ~defective
           /\ ~DeclaredTwice
           /\ Cardinality(merged.signals) + Cardinality(merged.consumers)
                  + Cardinality(merged.dependencies)
              = Cardinality(UNION {Declared(i) : i \in supplied})

\* The key of one target goes on where the other's ends.
Nested(s, t) == IF Len(s) <= Len(t) THEN SubSeq(t, 1, Len(s)) = s
                ELSE SubSeq(s, 1, Len(t)) = t

\* Two notices of a batch come to be stored in one row (signal_key is the
\* primary key) only if they are manual and the id of one target continues
\* the other's after a colon; but for a target sha256 with a key that is the
\* digest of another identity, which no file is taken to hold (SignalKey).
\* (tests/unit/test_file_sources.py:240 has manual keys scoped by target: for
\* such targets they are not, and each import makes two changes of the row.)
RowsSharedOnlyByNestedTargets ==
    phase = "loaded" =>
        \A s, t \in merged.signals : s.key = t.key /\ s # t =>
            /\ s.source = "manual" /\ t.source = "manual"
            /\ s.target # t.target
            /\ Nested(s.target, t.target)

=============================================================================
