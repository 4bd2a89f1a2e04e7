-------------------------- MODULE FileSourcesProofs --------------------------
(***************************************************************************)
(* Proofs about FileSources: what load_file_sources hands to an import is  *)
(* well formed, for any number of sources with any contents.               *)
(***************************************************************************)
EXTENDS FileSources, SequenceTheorems, FiniteSetTheorems, TLAPS

LEMMA ShortTuples ==
    ASSUME NEW S, NEW a \in S, NEW b \in S
    PROVE  /\ <<a>> \in Seq(S) /\ Len(<<a>>) = 1
           /\ <<a, b>> \in Seq(S) /\ Len(<<a, b>>) = 2 /\ <<a, b>>[2] = b
OBVIOUS

LEMMA Lengths ==
    ASSUME NEW S, NEW p \in Seq(S), NEW q \in Seq(S)
    PROVE  Len(p \o q) = Len(p) + Len(q) /\ Len(p) \in Nat /\ Len(q) \in Nat
<1>1. Len(p \o q) = Len(p) + Len(q)
    BY ConcatProperties
<1>2. Len(p) \in Nat /\ Len(q) \in Nat
    BY LenProperties
<1> QED BY <1>1, <1>2

LEMMA CancelLeft ==
    ASSUME NEW S, NEW s \in Seq(S), NEW t \in Seq(S), NEW u \in Seq(S),
           s \o t = s \o u
    PROVE  t = u
<1>1. Len(s) \in Nat /\ Len(t) \in Nat /\ Len(u) \in Nat
    BY LenProperties
<1>2. Len(t) = Len(u)
    BY <1>1, ConcatProperties
<1>3. ASSUME NEW n \in 1..Len(t) PROVE t[n] = u[n]
    <2>1. /\ Len(s) + n \in 1..(Len(s) + Len(t)) /\ ~(Len(s) + n <= Len(s))
          /\ (Len(s) + n) - Len(s) = n
        BY <1>1
    <2>2. (s \o t)[Len(s) + n] = t[n] /\ (s \o u)[Len(s) + n] = u[n]
        BY <1>2, <2>1, ConcatProperties
    <2> QED BY <2>2
<1> QED BY <1>2, <1>3, SeqEqual

\* Whatever a manual key becomes when it is stored, it tells apart the notices
\* of one target.
LEMMA ManualKeysTellApart ==
    ASSUME NEW target \in Seq(STRING), NEW k \in Seq(STRING), NEW l \in Seq(STRING),
           SignalKey("manual", target, k) = SignalKey("manual", target, l)
    PROVE  k = l
<1> DEFINE Parts == STRING \cup {"manual", "sha256"}
           plain == <<"manual">> \o target
           digest == <<"manual", "sha256">> \o target
<1>0. target \in Seq(Parts) /\ k \in Seq(Parts) /\ l \in Seq(Parts)
    BY SeqMonotonic
<1>1. /\ <<"manual">> \in Seq(Parts) /\ Len(<<"manual">>) = 1
      /\ <<"manual", "sha256">> \in Seq(Parts)
      /\ Len(<<"manual", "sha256">>) = 2
    <2>1. "manual" \in Parts /\ "sha256" \in Parts
        OBVIOUS
    <2> QED BY <2>1, ShortTuples
<1>2. /\ plain \in Seq(Parts) /\ Len(plain) = Len(target) + 1
      /\ digest \in Seq(Parts) /\ Len(digest) = Len(target) + 2
    BY <1>0, <1>1, ConcatProperties
<1> HIDE DEF Parts, plain, digest
<1>3. ASSUME NEW key \in Seq(Parts)
      PROVE  /\ Len(plain \o key) = Len(plain) + Len(key)
             /\ Len(digest \o key) = Len(digest) + Len(key)
             /\ Len(key) \in Nat
    BY <1>2, ConcatProperties, LenProperties
<1>4. ASSUME NEW key \in Seq(Parts)
      PROVE  SignalKey("manual", target, key) =
                 IF Len(plain \o key) <= MaxKeyLength
                 THEN plain \o key ELSE digest \o key
    BY DEF SignalKey, plain, digest
<1>5. Len(target) \in Nat /\ MaxKeyLength \in Nat
    BY <1>0, LenProperties, FileSourcesAssumption
<1>6. (Len(plain \o k) <= MaxKeyLength) <=> (Len(plain \o l) <= MaxKeyLength)
    <2> DEFINE K == Len(plain \o k)
               L == Len(plain \o l)
    <2>1. /\ K = Len(target) + 1 + Len(k) /\ Len(digest \o k) = Len(target) + 2 + Len(k)
          /\ L = Len(target) + 1 + Len(l) /\ Len(digest \o l) = Len(target) + 2 + Len(l)
          /\ Len(k) \in Nat /\ Len(l) \in Nat
        BY <1>0, <1>2, <1>3
    <2>2. Len(IF K <= MaxKeyLength THEN plain \o k ELSE digest \o k)
              = Len(IF L <= MaxKeyLength THEN plain \o l ELSE digest \o l)
        BY <1>0, <1>4
    <2> HIDE DEF K, L
    <2>3. CASE K <= MaxKeyLength /\ ~(L <= MaxKeyLength)
        <3>1. Len(plain \o k) = Len(digest \o l)
            BY <2>2, <2>3
        <3> QED BY <1>5, <2>1, <2>3, <3>1 DEF K
    <2>4. CASE ~(K <= MaxKeyLength) /\ L <= MaxKeyLength
        <3>1. Len(digest \o k) = Len(plain \o l)
            BY <2>2, <2>4
        <3> QED BY <1>5, <2>1, <2>4, <3>1 DEF L
    <2> QED BY <2>3, <2>4 DEF K, L
<1>7. plain \o k = plain \o l \/ digest \o k = digest \o l
    BY <1>0, <1>4, <1>6
<1> QED BY <1>0, <1>2, <1>7, CancelLeft

\* The last part of the key of an operation is the operation.
LEMMA OperationKeysTellApart ==
    ASSUME NEW target \in Seq(STRING), NEW o, NEW p,
           SignalKey("openapi", target, <<"\n", o>>)
               = SignalKey("openapi", target, <<"\n", p>>)
    PROVE  o = p
<1> DEFINE Parts == STRING \cup {o, p, "\n", "openapi", "sha256"}
           short == <<"openapi">> \o target
           long == <<"openapi", "sha256">> \o target
<1>1. target \in Seq(Parts)
    BY SeqMonotonic
<1>2. short \in Seq(Parts) /\ long \in Seq(Parts)
    <2>1. "openapi" \in Parts /\ "sha256" \in Parts
        OBVIOUS
    <2>2. <<"openapi">> \in Seq(Parts) /\ <<"openapi", "sha256">> \in Seq(Parts)
        BY <2>1, ShortTuples
    <2> QED BY <1>1, <2>2, ConcatProperties
<1>3. ASSUME NEW x \in {o, p}
      PROVE  /\ <<"\n", x>> \in Seq(Parts)
             /\ Len(<<"\n", x>>) = 2
             /\ <<"\n", x>>[2] = x
    <2>1. x \in Parts /\ "\n" \in Parts
        BY <1>3
    <2> QED BY <2>1, ShortTuples
<1> HIDE DEF Parts, short, long
<1>4. ASSUME NEW x \in {o, p}
      PROVE  LET key == SignalKey("openapi", target, <<"\n", x>>)
             IN  key[Len(key)] = x
    <2> DEFINE key == SignalKey("openapi", target, <<"\n", x>>)
    <2>1. key = short \o <<"\n", x>> \/ key = long \o <<"\n", x>>
        BY DEF SignalKey, short, long
    <2>2. ASSUME NEW start \in Seq(Parts)
          PROVE  LET all == start \o <<"\n", x>> IN all[Len(all)] = x
        <3>1. Len(start) \in Nat
            BY LenProperties
        <3> QED BY <1>3, <3>1, ConcatProperties
    <2> QED BY <1>2, <2>1, <2>2
<1> QED BY <1>4

-----------------------------------------------------------------------------
(***************************************************************************)
(* The batch of one file                                                   *)
(***************************************************************************)

LEMMA EmptyWellFormed == BatchWellFormed(EmptyBatch)
BY DEF BatchWellFormed, EmptyBatch

LEMMA OpenApiBatchWellFormed ==
    ASSUME NEW target \in Seq(STRING), NEW document
    PROVE  BatchWellFormed(OpenApiBatch(target, document))
<1> DEFINE batch == OpenApiBatch(target, document)
<1>1. /\ batch.consumers = {} /\ batch.dependencies = {}
      /\ batch.targets = {target}
    BY DEF OpenApiBatch, EmptyBatch
<1>2. ASSUME NEW s \in batch.signals
      PROVE  \E o \in Announced(document) :
                 s = [source |-> "openapi", target |-> target,
                      key |-> SignalKey("openapi", target, <<"\n", o>>),
                      endpoint |-> o,
                      evidence |-> OperationEvidence(document.operations[o])]
    BY <1>2 DEF OpenApiBatch, EmptyBatch
<1> HIDE DEF batch
<1>3. \A s \in batch.signals : Covers(batch, s)
    <2> SUFFICES ASSUME NEW s \in batch.signals PROVE Covers(batch, s)
        OBVIOUS
    <2>1. PICK o \in Announced(document) :
                 s = [source |-> "openapi", target |-> target,
                      key |-> SignalKey("openapi", target, <<"\n", o>>),
                      endpoint |-> o,
                      evidence |-> OperationEvidence(document.operations[o])]
        BY <1>2
    <2> QED BY <1>1, <2>1 DEF Covers
<1>4. \A s, t \in batch.signals : SignalIdentity(s) = SignalIdentity(t) => s = t
    <2> SUFFICES ASSUME NEW s \in batch.signals, NEW t \in batch.signals,
                        SignalIdentity(s) = SignalIdentity(t)
                 PROVE  s = t
        OBVIOUS
    <2>1. PICK o \in Announced(document) :
                 s = [source |-> "openapi", target |-> target,
                      key |-> SignalKey("openapi", target, <<"\n", o>>),
                      endpoint |-> o,
                      evidence |-> OperationEvidence(document.operations[o])]
        BY <1>2
    <2>2. PICK p \in Announced(document) :
                 t = [source |-> "openapi", target |-> target,
                      key |-> SignalKey("openapi", target, <<"\n", p>>),
                      endpoint |-> p,
                      evidence |-> OperationEvidence(document.operations[p])]
        BY <1>2
    <2>3. SignalKey("openapi", target, <<"\n", o>>)
              = SignalKey("openapi", target, <<"\n", p>>)
        BY <2>1, <2>2 DEF SignalIdentity
    <2> QED BY <2>1, <2>2, <2>3, OperationKeysTellApart
<1> QED BY <1>1, <1>3, <1>4 DEF BatchWellFormed, batch

LEMMA FeedBatchWellFormed ==
    ASSUME NEW document, FeedValid(document),
           \A n \in 1..Len(document.signals) :
               /\ document.signals[n].target \in Seq(STRING)
               /\ document.signals[n].key \in Seq(STRING)
    PROVE  BatchWellFormed(FeedBatch(document))
<1> DEFINE batch == FeedBatch(document)
<1>1. /\ batch.consumers = {} /\ batch.dependencies = {}
      /\ batch.manual = TRUE
    BY DEF FeedBatch, EmptyBatch
<1>2. ASSUME NEW s \in batch.signals
      PROVE  \E n \in 1..Len(document.signals) : s = ItemSignal(document.signals[n])
    BY <1>2 DEF FeedBatch, EmptyBatch
<1> HIDE DEF batch
<1>3. \A s \in batch.signals : Covers(batch, s)
    BY <1>1, <1>2 DEF Covers, ItemSignal
<1>4. \A s, t \in batch.signals : SignalIdentity(s) = SignalIdentity(t) => s = t
    <2> SUFFICES ASSUME NEW s \in batch.signals, NEW t \in batch.signals,
                        SignalIdentity(s) = SignalIdentity(t)
                 PROVE  s = t
        OBVIOUS
    <2>1. PICK m \in 1..Len(document.signals) : s = ItemSignal(document.signals[m])
        BY <1>2
    <2>2. PICK n \in 1..Len(document.signals) : t = ItemSignal(document.signals[n])
        BY <1>2
    <2>3. /\ document.signals[m].target = document.signals[n].target
          /\ SignalKey("manual", document.signals[m].target, document.signals[m].key)
                = SignalKey("manual", document.signals[n].target, document.signals[n].key)
        BY <2>1, <2>2 DEF SignalIdentity, ItemSignal
    <2>4. document.signals[m].key = document.signals[n].key
        BY <2>3, ManualKeysTellApart
    <2>5. m = n
        BY <2>3, <2>4 DEF FeedValid, Distinct, ItemIdentity
    <2> QED BY <2>1, <2>2, <2>5
<1> QED BY <1>1, <1>3, <1>4 DEF BatchWellFormed, batch

LEMMA MapBatchWellFormed ==
    ASSUME NEW document, MapValid(document)
    PROVE  BatchWellFormed(MapBatch(document))
<1> DEFINE batch == MapBatch(document)
<1>1. /\ batch.signals = {} /\ batch.map = TRUE
      /\ batch.consumers =
             {document.consumers[n] : n \in 1..Len(document.consumers)}
      /\ batch.dependencies =
             {document.dependencies[n] : n \in 1..Len(document.dependencies)}
    BY DEF MapBatch, EmptyBatch
<1> HIDE DEF batch
<1>2. \A d \in batch.dependencies : \E c \in batch.consumers : c.id = d.consumer
    BY <1>1 DEF MapValid, KnowsConsumers
<1>3. \A s, t \in batch.consumers : s.id = t.id => s = t
    BY <1>1 DEF MapValid, Distinct, ConsumerId
<1>4. \A s, t \in batch.dependencies :
          DependencyIdentity(s) = DependencyIdentity(t) => s = t
    BY <1>1 DEF MapValid, Distinct
<1> QED BY <1>1, <1>2, <1>3, <1>4 DEF BatchWellFormed, batch

LEMMA AcceptedBatchWellFormed ==
    ASSUME NEW i \in DOMAIN Sources, NEW file \in Contents[i], Accepts(i, file)
    PROVE  BatchWellFormed(BatchOf(i, file))
<1>1. CASE Sources[i].kind = "openapi"
    BY <1>1, OpenApiBatchWellFormed, FileSourcesAssumption DEF BatchOf
<1>2. CASE Sources[i].kind = "feed"
    BY <1>2, FeedBatchWellFormed, FileSourcesAssumption DEF BatchOf, Accepts
<1>3. CASE Sources[i].kind = "map"
    BY <1>3, MapBatchWellFormed DEF BatchOf, Accepts
<1> QED BY <1>1, <1>2, <1>3, FileSourcesAssumption

-----------------------------------------------------------------------------
(***************************************************************************)
(* The merge                                                               *)
(***************************************************************************)

LEMMA JoinWellFormed ==
    ASSUME NEW b, NEW c, BatchWellFormed(b), BatchWellFormed(c), ~Clashes(b, c)
    PROVE  BatchWellFormed(Join(b, c))
<1> DEFINE joined == Join(b, c)
<1>1. /\ joined.signals = b.signals \cup c.signals
      /\ joined.consumers = b.consumers \cup c.consumers
      /\ joined.dependencies = b.dependencies \cup c.dependencies
      /\ joined.targets = b.targets \cup c.targets
    BY DEF Join
<1>2. /\ joined.manual = (b.manual \/ c.manual)
      /\ joined.map = (b.map \/ c.map)
    BY DEF Join
<1> HIDE DEF joined
<1>3. \A s \in joined.signals : Covers(joined, s)
    BY <1>1, <1>2 DEF BatchWellFormed, Covers
<1>4. \A d \in joined.dependencies : \E e \in joined.consumers : e.id = d.consumer
    BY <1>1 DEF BatchWellFormed
<1>5. joined.consumers # {} => joined.map
    BY <1>1, <1>2 DEF BatchWellFormed
<1>6. \A s, t \in joined.signals : SignalIdentity(s) = SignalIdentity(t) => s = t
    BY <1>1 DEF BatchWellFormed, Clashes
<1>7. \A s, t \in joined.consumers : s.id = t.id => s = t
    BY <1>1 DEF BatchWellFormed, Clashes
<1>8. \A s, t \in joined.dependencies :
          DependencyIdentity(s) = DependencyIdentity(t) => s = t
    BY <1>1 DEF BatchWellFormed, Clashes
<1> QED BY <1>3, <1>4, <1>5, <1>6, <1>7, <1>8 DEF BatchWellFormed, joined

\* A source has been read and was accepted.
WasAccepted(i) == asRead[i] \in Contents[i] /\ Accepts(i, asRead[i])

\* Nothing is merged before everything has been read and accepted.
SourceInv ==
    /\ supplied \subseteq DOMAIN Sources
    /\ asRead \in [DOMAIN Sources -> {None} \cup UNION {Contents[i] : i \in DOMAIN Sources}]
    /\ phase = "loading" => \A i \in supplied : WasRead(i) => WasAccepted(i)
    /\ phase = "merging" => \A i \in supplied : WasAccepted(i)
    /\ MergedIsWellFormed

LEMMA SourceInvStep == SourceInv /\ [SourceNext]_sourceVars => SourceInv'
<1> SUFFICES ASSUME SourceInv, [SourceNext]_sourceVars PROVE SourceInv'
    OBVIOUS
<1>1. ASSUME NEW i \in DOMAIN Sources, LoadSource(i) PROVE SourceInv'
    <2>1. PICK file \in Contents[i] :
              /\ asRead' = [asRead EXCEPT ![i] = file]
              /\ phase' = IF Accepts(i, file) THEN "loading" ELSE "refused"
        BY <1>1 DEF LoadSource
    <2>2. phase = "loading" /\ UNCHANGED <<supplied, merged>>
        BY <1>1 DEF LoadSource
    <2>3. asRead' \in [DOMAIN Sources ->
                          {None} \cup UNION {Contents[j] : j \in DOMAIN Sources}]
        BY <2>1 DEF SourceInv
    <2>4. \A j \in DOMAIN Sources :
              asRead'[j] = IF j = i THEN file ELSE asRead[j]
        BY <2>1 DEF SourceInv
    <2>5. phase' = "loading" =>
              \A j \in supplied' : WasRead(j)' => WasAccepted(j)'
        BY <2>1, <2>2, <2>4 DEF SourceInv, WasRead, WasAccepted
    <2>6. phase' # "merging"
        BY <2>1
    <2> QED BY <2>2, <2>3, <2>5, <2>6 DEF SourceInv, MergedIsWellFormed
<1>2. CASE BeginMerge
    BY <1>2 DEF BeginMerge, SourceInv, WasAccepted, MergedIsWellFormed
<1>3. ASSUME NEW i \in DOMAIN Sources, MergeSource(i) PROVE SourceInv'
    <2> DEFINE arriving == BatchOf(i, asRead[i])
    <2>1. /\ phase = "merging" /\ i \in supplied
          /\ UNCHANGED <<supplied, asRead>>
          /\ \/ phase' = "refused" /\ merged' = merged
             \/ /\ ~Clashes(merged, arriving)
                /\ merged' = Join(merged, arriving) /\ phase' = phase
        BY <1>3 DEF MergeSource, NextDue
    <2>2. BatchWellFormed(arriving)
        BY <2>1, AcceptedBatchWellFormed DEF SourceInv, WasAccepted
    <2> HIDE DEF arriving
    <2>3. BatchWellFormed(merged')
        BY <2>1, <2>2, JoinWellFormed DEF SourceInv, MergedIsWellFormed
    <2>4. MergedIsWellFormed'
        BY <2>3 DEF MergedIsWellFormed
    <2> QED BY <2>1, <2>4 DEF SourceInv, WasAccepted
<1>4. CASE EndMerge
    BY <1>4 DEF EndMerge, SourceInv, WasAccepted, MergedIsWellFormed
<1>5. CASE UNCHANGED sourceVars
    BY <1>5 DEF sourceVars, SourceInv, WasRead, WasAccepted, MergedIsWellFormed
<1> QED BY <1>1, <1>2, <1>3, <1>4, <1>5 DEF SourceNext

\* Whatever the files hold when each of them is read, the batch can be imported
\* as it stands: every signal within the scope the files speak for, every edge
\* with its consumer, nothing twice.
THEOREM MergedCanBeImported == SourceSpec => []MergedIsWellFormed
<1>1. SourceInit => SourceInv
    BY EmptyWellFormed DEF SourceInit, SourceInv, WasRead, MergedIsWellFormed
<1>2. SourceInv => MergedIsWellFormed
    BY DEF SourceInv
<1> QED BY <1>1, <1>2, SourceInvStep, PTL DEF SourceSpec

-----------------------------------------------------------------------------
(***************************************************************************)
(* What a declaration becomes.  A declaration <<i, place, thing>> is that  *)
(* of the item found at the place in source i; the first part of the thing *)
(* says which of the three sets of the batch the item goes to.             *)
(***************************************************************************)

Notices == {"openapi", "manual"}

From(taken, tags) == {d \in UNION {Declared(i) : i \in taken} : d[3][1] \in tags}

Item(d) ==
    LET document == asRead[d[1]].document IN
    CASE d[3][1] = "openapi" ->
             [source |-> "openapi", target |-> Sources[d[1]].target,
              key |-> SignalKey("openapi", Sources[d[1]].target, <<"\n", d[2]>>),
              endpoint |-> d[2],
              evidence |-> OperationEvidence(document.operations[d[2]])]
      [] d[3][1] = "manual" -> ItemSignal(document.signals[d[2]])
      [] d[3][1] = "consumer" -> document.consumers[d[2]]
      [] d[3][1] = "edge" -> document.dependencies[d[2]]

Items(taken, tags) == {Item(d) : d \in From(taken, tags)}

\* What tells an item apart from the others of its set.
Identity(d) ==
    CASE d[3][1] \in Notices -> SignalIdentity(Item(d))
      [] d[3][1] = "consumer" -> Item(d).id
      [] d[3][1] = "edge" -> DependencyIdentity(Item(d))

\* The three kinds of source, with what each declares.
IsOperation(i, d) ==
    /\ Sources[i].kind = "openapi"
    /\ \E o \in Announced(asRead[i].document) :
           d = <<i, o, <<"openapi", Sources[i].target, o>>>>

IsNotice(i, d) ==
    /\ Sources[i].kind = "feed"
    /\ \E n \in 1..Len(asRead[i].document.signals) :
           d = <<i, n, <<"manual", asRead[i].document.signals[n].target,
                         asRead[i].document.signals[n].key>>>>

IsConsumer(i, d) ==
    /\ Sources[i].kind = "map"
    /\ \E n \in 1..Len(asRead[i].document.consumers) :
           d = <<i, n, <<"consumer", asRead[i].document.consumers[n].id>>>>

IsEdge(i, d) ==
    /\ Sources[i].kind = "map"
    /\ \E n \in 1..Len(asRead[i].document.dependencies) :
           d = <<i, n, <<"edge", asRead[i].document.dependencies[n].consumer,
                         asRead[i].document.dependencies[n].endpoint>>>>

LEMMA DeclarationKinds ==
    ASSUME NEW i \in DOMAIN Sources, NEW d
    PROVE  d \in Declared(i) <=>
               IsOperation(i, d) \/ IsNotice(i, d) \/ IsConsumer(i, d) \/ IsEdge(i, d)
<1>1. CASE Sources[i].kind = "openapi"
    BY <1>1 DEF Declared, IsOperation, IsNotice, IsConsumer, IsEdge
<1>2. CASE Sources[i].kind = "feed"
    BY <1>2 DEF Declared, IsOperation, IsNotice, IsConsumer, IsEdge
<1>3. CASE Sources[i].kind = "map"
    BY <1>3 DEF Declared, IsOperation, IsNotice, IsConsumer, IsEdge
<1> QED BY <1>1, <1>2, <1>3, FileSourcesAssumption

\* What the place and the thing of a declaration are, by its tag.
LEMMA DeclarationShape ==
    ASSUME NEW i \in DOMAIN Sources, NEW d \in Declared(i)
    PROVE  LET document == asRead[i].document IN
           /\ d = <<i, d[2], d[3]>>
           /\ d[3][1] \in Notices \cup {"consumer", "edge"}
           /\ d[3][1] = "openapi" =>
                  /\ Sources[i].kind = "openapi"
                  /\ d[2] \in Announced(document)
                  /\ d[3] = <<"openapi", Sources[i].target, d[2]>>
           /\ d[3][1] = "manual" =>
                  /\ Sources[i].kind = "feed"
                  /\ d[2] \in 1..Len(document.signals)
                  /\ d[3] = <<"manual", document.signals[d[2]].target,
                              document.signals[d[2]].key>>
           /\ d[3][1] = "consumer" =>
                  /\ Sources[i].kind = "map"
                  /\ d[2] \in 1..Len(document.consumers)
                  /\ d[3] = <<"consumer", document.consumers[d[2]].id>>
           /\ d[3][1] = "edge" =>
                  /\ Sources[i].kind = "map"
                  /\ d[2] \in 1..Len(document.dependencies)
                  /\ d[3] = <<"edge", document.dependencies[d[2]].consumer,
                              document.dependencies[d[2]].endpoint>>
<1>1. CASE IsOperation(i, d)
    BY <1>1 DEF IsOperation, Notices
<1>2. CASE IsNotice(i, d)
    BY <1>2 DEF IsNotice, Notices
<1>3. CASE IsConsumer(i, d)
    BY <1>3 DEF IsConsumer, Notices
<1>4. CASE IsEdge(i, d)
    BY <1>4 DEF IsEdge, Notices
<1> QED BY <1>1, <1>2, <1>3, <1>4, DeclarationKinds

\* Two declarations name one thing exactly when their items go to the same set
\* of the batch and cannot be told apart there.
LEMMA SameThingSameIdentity ==
    ASSUME NEW i \in DOMAIN Sources, NEW j \in DOMAIN Sources,
           asRead[i] \in Contents[i], asRead[j] \in Contents[j],
           NEW d \in Declared(i), NEW e \in Declared(j)
    PROVE  /\ d[3] = e[3] => d[3][1] = e[3][1] /\ Identity(d) = Identity(e)
           /\ d[3][1] \in Notices /\ e[3][1] \in Notices
                  /\ Identity(d) = Identity(e) => d[3] = e[3]
           /\ d[3][1] = "consumer" /\ e[3][1] = "consumer"
                  /\ Identity(d) = Identity(e) => d[3] = e[3]
           /\ d[3][1] = "edge" /\ e[3][1] = "edge"
                  /\ Identity(d) = Identity(e) => d[3] = e[3]
<1> DEFINE D == asRead[i].document
           E == asRead[j].document
<1>0. d[1] = i /\ e[1] = j
    BY DeclarationShape
<1>1. CASE d[3][1] = "openapi" /\ e[3][1] = "openapi"
    <2>1. /\ d[3] = <<"openapi", Sources[i].target, d[2]>>
          /\ Sources[i].kind = "openapi"
        BY <1>1, DeclarationShape
    <2>2. /\ e[3] = <<"openapi", Sources[j].target, e[2]>>
          /\ Sources[j].kind = "openapi"
        BY <1>1, DeclarationShape
    <2>3. /\ Identity(d) = <<Sources[i].target, "openapi",
                             SignalKey("openapi", Sources[i].target, <<"\n", d[2]>>)>>
          /\ Identity(e) = <<Sources[j].target, "openapi",
                             SignalKey("openapi", Sources[j].target, <<"\n", e[2]>>)>>
        BY <1>0, <1>1 DEF Identity, Item, SignalIdentity, Notices
    <2>4. d[3] = e[3] <=> Sources[i].target = Sources[j].target /\ d[2] = e[2]
        BY <2>1, <2>2
    <2>5. Identity(d) = Identity(e) <=>
              /\ Sources[i].target = Sources[j].target
              /\ SignalKey("openapi", Sources[i].target, <<"\n", d[2]>>)
                     = SignalKey("openapi", Sources[j].target, <<"\n", e[2]>>)
        BY <2>3
    <2>6. Sources[i].target \in Seq(STRING)
        BY <2>1, FileSourcesAssumption
    <2>7. SignalKey("openapi", Sources[i].target, <<"\n", d[2]>>)
              = SignalKey("openapi", Sources[i].target, <<"\n", e[2]>>)
          => d[2] = e[2]
        BY <2>6, OperationKeysTellApart
    <2> QED BY <1>1, <2>4, <2>5, <2>7
<1>2. CASE d[3][1] = "manual" /\ e[3][1] = "manual"
    <2> DEFINE s == D.signals[d[2]]
               t == E.signals[e[2]]
    <2>1. /\ d[3] = <<"manual", s.target, s.key>>
          /\ Sources[i].kind = "feed" /\ d[2] \in 1..Len(D.signals)
        BY <1>2, DeclarationShape
    <2>2. /\ e[3] = <<"manual", t.target, t.key>>
          /\ Sources[j].kind = "feed" /\ e[2] \in 1..Len(E.signals)
        BY <1>2, DeclarationShape
    <2>3. Item(d) = ItemSignal(s) /\ Item(e) = ItemSignal(t)
        BY <1>0, <1>2 DEF Item
    <2>4. s.target \in Seq(STRING) /\ s.key \in Seq(STRING)
        BY <2>1, FileSourcesAssumption
    <2>5. t.key \in Seq(STRING)
        BY <2>2, FileSourcesAssumption
    <2> HIDE DEF s, t
    <2>6. /\ Identity(d) = <<s.target, "manual", SignalKey("manual", s.target, s.key)>>
          /\ Identity(e) = <<t.target, "manual", SignalKey("manual", t.target, t.key)>>
        BY <1>2, <2>3 DEF Identity, SignalIdentity, ItemSignal, Notices
    <2>7. d[3] = e[3] <=> s.target = t.target /\ s.key = t.key
        BY <2>1, <2>2
    <2>8. Identity(d) = Identity(e) <=>
              /\ s.target = t.target
              /\ SignalKey("manual", s.target, s.key)
                     = SignalKey("manual", t.target, t.key)
        BY <2>6
    <2>9. SignalKey("manual", s.target, s.key) = SignalKey("manual", s.target, t.key)
          => s.key = t.key
        BY <2>4, <2>5, ManualKeysTellApart
    <2> QED BY <1>2, <2>7, <2>8, <2>9
<1>3. CASE d[3][1] = "consumer" /\ e[3][1] = "consumer"
    <2>1. d[3] = <<"consumer", D.consumers[d[2]].id>>
        BY <1>3, DeclarationShape
    <2>2. e[3] = <<"consumer", E.consumers[e[2]].id>>
        BY <1>3, DeclarationShape
    <2>3. Item(d) = D.consumers[d[2]] /\ Item(e) = E.consumers[e[2]]
        BY <1>0, <1>3 DEF Item
    <2>4. /\ Identity(d) = D.consumers[d[2]].id
          /\ Identity(e) = E.consumers[e[2]].id
        BY <1>3, <2>3 DEF Identity, Notices
    <2> QED BY <1>3, <2>1, <2>2, <2>4
<1>4. CASE d[3][1] = "edge" /\ e[3][1] = "edge"
    <2> DEFINE s == D.dependencies[d[2]]
               t == E.dependencies[e[2]]
    <2>1. d[3] = <<"edge", s.consumer, s.endpoint>>
        BY <1>4, DeclarationShape
    <2>2. e[3] = <<"edge", t.consumer, t.endpoint>>
        BY <1>4, DeclarationShape
    <2>3. Item(d) = s /\ Item(e) = t
        BY <1>0, <1>4 DEF Item
    <2> HIDE DEF s, t
    <2>4. /\ Identity(d) = <<s.consumer, s.endpoint>>
          /\ Identity(e) = <<t.consumer, t.endpoint>>
        BY <1>4, <2>3 DEF Identity, DependencyIdentity, Notices
    <2> QED BY <1>4, <2>1, <2>2, <2>4 DEF Notices
<1>5. CASE \/ d[3][1] = "openapi" /\ e[3][1] = "manual"
           \/ d[3][1] = "manual" /\ e[3][1] = "openapi"
    <2>1. /\ Item(d).source = d[3][1] /\ Item(e).source = e[3][1]
        BY <1>5 DEF Item, ItemSignal
    <2>2. Identity(d) # Identity(e)
        BY <1>5, <2>1 DEF Identity, SignalIdentity, Notices
    <2> QED BY <1>5, <2>2 DEF Notices
<1>6. /\ d[3][1] \in Notices \cup {"consumer", "edge"}
      /\ e[3][1] \in Notices \cup {"consumer", "edge"}
    BY DeclarationShape
<1> QED BY <1>1, <1>2, <1>3, <1>4, <1>5, <1>6 DEF Notices

\* An accepted file declares nothing twice.
LEMMA OnceInAFile ==
    ASSUME NEW i \in DOMAIN Sources, Accepts(i, asRead[i]),
           NEW d \in Declared(i), NEW e \in Declared(i), d[3] = e[3]
    PROVE  d = e
<1> DEFINE D == asRead[i].document
<1>1. CASE d[3][1] = "openapi"
    <2>1. d[3] = <<"openapi", Sources[i].target, d[2]>> /\ d = <<i, d[2], d[3]>>
        BY <1>1, DeclarationShape
    <2>2. e[3] = <<"openapi", Sources[i].target, e[2]>> /\ e = <<i, e[2], e[3]>>
        BY <1>1, DeclarationShape
    <2>3. d[2] = e[2]
        BY <2>1, <2>2
    <2> QED BY <2>1, <2>2, <2>3
<1>2. CASE d[3][1] = "manual"
    <2>1. /\ d[3] = <<"manual", D.signals[d[2]].target, D.signals[d[2]].key>>
          /\ Sources[i].kind = "feed" /\ d[2] \in 1..Len(D.signals)
          /\ d = <<i, d[2], d[3]>>
        BY <1>2, DeclarationShape
    <2>2. /\ e[3] = <<"manual", D.signals[e[2]].target, D.signals[e[2]].key>>
          /\ e[2] \in 1..Len(D.signals)
          /\ e = <<i, e[2], e[3]>>
        BY <1>2, DeclarationShape
    <2>3. /\ D.signals[d[2]].target = D.signals[e[2]].target
          /\ D.signals[d[2]].key = D.signals[e[2]].key
        BY <2>1, <2>2
    <2>4. Distinct(D.signals, ItemIdentity)
        BY <2>1 DEF Accepts, FeedValid
    <2>5. d[2] = e[2]
        BY <2>1, <2>2, <2>3, <2>4 DEF Distinct, ItemIdentity
    <2> QED BY <2>1, <2>2, <2>5
<1>3. CASE d[3][1] = "consumer"
    <2>1. /\ d[3] = <<"consumer", D.consumers[d[2]].id>>
          /\ Sources[i].kind = "map" /\ d[2] \in 1..Len(D.consumers)
          /\ d = <<i, d[2], d[3]>>
        BY <1>3, DeclarationShape
    <2>2. /\ e[3] = <<"consumer", D.consumers[e[2]].id>>
          /\ e[2] \in 1..Len(D.consumers)
          /\ e = <<i, e[2], e[3]>>
        BY <1>3, DeclarationShape
    <2>3. D.consumers[d[2]].id = D.consumers[e[2]].id
        BY <2>1, <2>2
    <2>4. Distinct(D.consumers, ConsumerId)
        BY <2>1 DEF Accepts, MapValid
    <2>5. d[2] = e[2]
        BY <2>1, <2>2, <2>3, <2>4 DEF Distinct, ConsumerId
    <2> QED BY <2>1, <2>2, <2>5
<1>4. CASE d[3][1] = "edge"
    <2>1. /\ d[3] = <<"edge", D.dependencies[d[2]].consumer,
                      D.dependencies[d[2]].endpoint>>
          /\ Sources[i].kind = "map" /\ d[2] \in 1..Len(D.dependencies)
          /\ d = <<i, d[2], d[3]>>
        BY <1>4, DeclarationShape
    <2>2. /\ e[3] = <<"edge", D.dependencies[e[2]].consumer,
                      D.dependencies[e[2]].endpoint>>
          /\ e[2] \in 1..Len(D.dependencies)
          /\ e = <<i, e[2], e[3]>>
        BY <1>4, DeclarationShape
    <2>3. /\ D.dependencies[d[2]].consumer = D.dependencies[e[2]].consumer
          /\ D.dependencies[d[2]].endpoint = D.dependencies[e[2]].endpoint
        BY <2>1, <2>2
    <2>4. Distinct(D.dependencies, DependencyIdentity)
        BY <2>1 DEF Accepts, MapValid
    <2>5. d[2] = e[2]
        BY <2>1, <2>2, <2>3, <2>4 DEF Distinct, DependencyIdentity
    <2> QED BY <2>1, <2>2, <2>5
<1>5. d[3][1] \in Notices \cup {"consumer", "edge"}
    BY DeclarationShape
<1> QED BY <1>1, <1>2, <1>3, <1>4, <1>5 DEF Notices

\* The batch of a file holds what the file declares.
LEMMA BatchOfDeclared ==
    ASSUME NEW i \in DOMAIN Sources
    PROVE  LET batch == BatchOf(i, asRead[i]) IN
           /\ batch.signals = Items({i}, Notices)
           /\ batch.consumers = Items({i}, {"consumer"})
           /\ batch.dependencies = Items({i}, {"edge"})
<1> DEFINE batch == BatchOf(i, asRead[i])
           D == asRead[i].document
<1>0. /\ From({i}, Notices) = {d \in Declared(i) : d[3][1] \in {"openapi", "manual"}}
      /\ From({i}, {"consumer"}) = {d \in Declared(i) : d[3][1] = "consumer"}
      /\ From({i}, {"edge"}) = {d \in Declared(i) : d[3][1] = "edge"}
    BY DEF From, Notices
<1>1. CASE Sources[i].kind = "openapi"
    <2>1. Declared(i) = {<<i, o, <<"openapi", Sources[i].target, o>>>> : o \in Announced(D)}
        BY <1>1 DEF Declared
    <2>2. /\ batch.consumers = {} /\ batch.dependencies = {}
          /\ batch.signals =
                {[source |-> "openapi", target |-> Sources[i].target,
                  key |-> SignalKey("openapi", Sources[i].target, <<"\n", o>>),
                  endpoint |-> o,
                  evidence |-> OperationEvidence(D.operations[o])] :
                    o \in Announced(D)}
        BY <1>1 DEF BatchOf, OpenApiBatch, EmptyBatch
    <2>3. ASSUME NEW o
          PROVE  Item(<<i, o, <<"openapi", Sources[i].target, o>>>>) =
                    [source |-> "openapi", target |-> Sources[i].target,
                     key |-> SignalKey("openapi", Sources[i].target, <<"\n", o>>),
                     endpoint |-> o,
                     evidence |-> OperationEvidence(D.operations[o])]
        BY DEF Item
    <2> HIDE DEF batch, D
    <2>0. \A d \in Declared(i) : d[3][1] = "openapi"
        BY <2>1
    <2>4. /\ From({i}, Notices) = Declared(i)
          /\ From({i}, {"consumer"}) = {} /\ From({i}, {"edge"}) = {}
        BY <1>0, <2>0
    <2>5. Items({i}, {"consumer"}) = {} /\ Items({i}, {"edge"}) = {}
        BY <2>4 DEF Items
    <2>6. Items({i}, Notices) = {Item(d) : d \in Declared(i)}
        BY <2>4 DEF Items
    <2>7. {Item(d) : d \in Declared(i)} = batch.signals
        <3>1. ASSUME NEW d \in Declared(i) PROVE Item(d) \in batch.signals
            BY <2>1, <2>2, <2>3
        <3>2. ASSUME NEW s \in batch.signals PROVE \E d \in Declared(i) : s = Item(d)
            BY <2>1, <2>2, <2>3
        <3> QED BY <3>1, <3>2
    <2> QED BY <2>2, <2>5, <2>6, <2>7 DEF batch
<1>2. CASE Sources[i].kind = "feed"
    <2>1. Declared(i) = {<<i, n, <<"manual", D.signals[n].target, D.signals[n].key>>>> :
                            n \in 1..Len(D.signals)}
        BY <1>2 DEF Declared
    <2>2. /\ batch.consumers = {} /\ batch.dependencies = {}
          /\ batch.signals = {ItemSignal(D.signals[n]) : n \in 1..Len(D.signals)}
        BY <1>2 DEF BatchOf, FeedBatch, EmptyBatch
    <2>3. ASSUME NEW n
          PROVE  Item(<<i, n, <<"manual", D.signals[n].target, D.signals[n].key>>>>)
                     = ItemSignal(D.signals[n])
        BY DEF Item
    <2> HIDE DEF batch, D
    <2>0. \A d \in Declared(i) : d[3][1] = "manual"
        BY <2>1
    <2>4. /\ From({i}, Notices) = Declared(i)
          /\ From({i}, {"consumer"}) = {} /\ From({i}, {"edge"}) = {}
        BY <1>0, <2>0
    <2>5. Items({i}, {"consumer"}) = {} /\ Items({i}, {"edge"}) = {}
        BY <2>4 DEF Items
    <2>6. Items({i}, Notices) = {Item(d) : d \in Declared(i)}
        BY <2>4 DEF Items
    <2>7. {Item(d) : d \in Declared(i)} = batch.signals
        BY <2>1, <2>2, <2>3
    <2> QED BY <2>2, <2>5, <2>6, <2>7 DEF batch
<1>3. CASE Sources[i].kind = "map"
    <2> DEFINE C == {<<i, n, <<"consumer", D.consumers[n].id>>>> :
                        n \in 1..Len(D.consumers)}
               E == {<<i, n, <<"edge", D.dependencies[n].consumer,
                               D.dependencies[n].endpoint>>>> :
                        n \in 1..Len(D.dependencies)}
    <2>1. Declared(i) = C \cup E
        BY <1>3 DEF Declared
    <2>2. /\ batch.signals = {}
          /\ batch.consumers = {D.consumers[n] : n \in 1..Len(D.consumers)}
          /\ batch.dependencies = {D.dependencies[n] : n \in 1..Len(D.dependencies)}
        BY <1>3 DEF BatchOf, MapBatch, EmptyBatch
    <2>3. ASSUME NEW n
          PROVE  /\ Item(<<i, n, <<"consumer", D.consumers[n].id>>>>) = D.consumers[n]
                 /\ Item(<<i, n, <<"edge", D.dependencies[n].consumer,
                                   D.dependencies[n].endpoint>>>>) = D.dependencies[n]
        BY DEF Item
    <2>4. (\A d \in C : d[3][1] = "consumer") /\ (\A d \in E : d[3][1] = "edge")
        OBVIOUS
    <2>5. {Item(d) : d \in C} = batch.consumers /\ {Item(d) : d \in E} = batch.dependencies
        <3> HIDE DEF batch, D
        <3>1. ASSUME NEW d \in C PROVE Item(d) \in batch.consumers
            <4>1. PICK n \in 1..Len(D.consumers) :
                      d = <<i, n, <<"consumer", D.consumers[n].id>>>>
                OBVIOUS
            <4> QED BY <2>2, <2>3, <4>1
        <3>2. ASSUME NEW c \in batch.consumers PROVE \E d \in C : c = Item(d)
            BY <2>2, <2>3
        <3>3. ASSUME NEW d \in E PROVE Item(d) \in batch.dependencies
            <4>1. PICK n \in 1..Len(D.dependencies) :
                      d = <<i, n, <<"edge", D.dependencies[n].consumer,
                                    D.dependencies[n].endpoint>>>>
                OBVIOUS
            <4> QED BY <2>2, <2>3, <4>1
        <3>4. ASSUME NEW e \in batch.dependencies PROVE \E d \in E : e = Item(d)
            BY <2>2, <2>3
        <3> HIDE DEF C, E
        <3> QED BY <3>1, <3>2, <3>3, <3>4
    <2> HIDE DEF batch, D, C, E
    <2>6. /\ From({i}, Notices) = {}
          /\ From({i}, {"consumer"}) = C /\ From({i}, {"edge"}) = E
        BY <1>0, <2>1, <2>4
    <2>7. Items({i}, Notices) = {}
        BY <2>6 DEF Items
    <2>8. /\ Items({i}, {"consumer"}) = {Item(d) : d \in C}
          /\ Items({i}, {"edge"}) = {Item(d) : d \in E}
        BY <2>6 DEF Items
    <2> QED BY <2>2, <2>5, <2>7, <2>8 DEF batch
<1> QED BY <1>1, <1>2, <1>3, FileSourcesAssumption

-----------------------------------------------------------------------------
(***************************************************************************)
(* What the merge refuses and what it returns                              *)
(***************************************************************************)

Holds(b, taken) ==
    /\ b.signals = Items(taken, Notices)
    /\ b.consumers = Items(taken, {"consumer"})
    /\ b.dependencies = Items(taken, {"edge"})

OnceEach(taken) ==
    \A d, e \in UNION {Declared(i) : i \in taken} : d[3] = e[3] => d = e

LEMMA JoinHolds ==
    ASSUME NEW taken, NEW i \in DOMAIN Sources, NEW b, Holds(b, taken)
    PROVE  Holds(Join(b, BatchOf(i, asRead[i])), taken \cup {i})
<1>1. ASSUME NEW tags
      PROVE  Items(taken \cup {i}, tags) = Items(taken, tags) \cup Items({i}, tags)
    <2>1. From(taken \cup {i}, tags) = From(taken, tags) \cup From({i}, tags)
        BY DEF From
    <2> QED BY <2>1 DEF Items
<1>2. Items(taken \cup {i}, Notices) = Items(taken, Notices) \cup Items({i}, Notices)
    BY <1>1
<1>3. Items(taken \cup {i}, {"consumer"})
          = Items(taken, {"consumer"}) \cup Items({i}, {"consumer"})
    BY <1>1
<1>4. Items(taken \cup {i}, {"edge"})
          = Items(taken, {"edge"}) \cup Items({i}, {"edge"})
    BY <1>1
<1> QED BY <1>2, <1>3, <1>4, BatchOfDeclared DEF Holds, Join

\* Two batches clash exactly when their sources declare one thing.
LEMMA ClashIsOneThing ==
    ASSUME NEW taken \in SUBSET DOMAIN Sources, NEW i \in DOMAIN Sources,
           \A j \in taken \cup {i} : asRead[j] \in Contents[j],
           NEW b, Holds(b, taken)
    PROVE  Clashes(b, BatchOf(i, asRead[i])) <=>
               \E j \in taken : \E d \in Declared(j), e \in Declared(i) : d[3] = e[3]
<1> DEFINE c == BatchOf(i, asRead[i])
<1>1. /\ c.signals = Items({i}, Notices)
      /\ c.consumers = Items({i}, {"consumer"})
      /\ c.dependencies = Items({i}, {"edge"})
    BY BatchOfDeclared
<1> HIDE DEF c
<1>2. ASSUME NEW tags, NEW s \in Items(taken, tags)
      PROVE  \E j \in taken : \E d \in Declared(j) : d[3][1] \in tags /\ s = Item(d)
    BY <1>2 DEF Items, From
<1>3. ASSUME NEW tags, NEW t \in Items({i}, tags)
      PROVE  \E e \in Declared(i) : e[3][1] \in tags /\ t = Item(e)
    BY <1>3 DEF Items, From
<1>4. ASSUME Clashes(b, c)
      PROVE  \E j \in taken : \E d \in Declared(j), e \in Declared(i) : d[3] = e[3]
    <2>1. CASE \E s \in b.signals, t \in c.signals : SignalIdentity(s) = SignalIdentity(t)
        <3>1. PICK s \in Items(taken, Notices), t \in Items({i}, Notices) :
                  SignalIdentity(s) = SignalIdentity(t)
            BY <1>1, <2>1 DEF Holds
        <3>0. PICK j \in taken : \E d \in Declared(j) : d[3][1] \in Notices /\ s = Item(d)
            BY <1>2
        <3>2. PICK d \in Declared(j) : d[3][1] \in Notices /\ s = Item(d)
            BY <3>0
        <3>3. PICK e \in Declared(i) : e[3][1] \in Notices /\ t = Item(e)
            BY <1>3
        <3>4. Identity(d) = Identity(e)
            BY <3>1, <3>2, <3>3 DEF Identity, Notices
        <3>5. d[3] = e[3]
            BY <3>2, <3>3, <3>4, SameThingSameIdentity
        <3> QED BY <3>5
    <2>2. CASE \E s \in b.consumers, t \in c.consumers : s.id = t.id
        <3>1. PICK s \in Items(taken, {"consumer"}), t \in Items({i}, {"consumer"}) :
                  s.id = t.id
            BY <1>1, <2>2 DEF Holds
        <3>0. PICK j \in taken : \E d \in Declared(j) : d[3][1] \in {"consumer"} /\ s = Item(d)
            BY <1>2
        <3>2. PICK d \in Declared(j) : d[3][1] \in {"consumer"} /\ s = Item(d)
            BY <3>0
        <3>3. PICK e \in Declared(i) : e[3][1] \in {"consumer"} /\ t = Item(e)
            BY <1>3
        <3>4. Identity(d) = Identity(e)
            BY <3>1, <3>2, <3>3 DEF Identity, Notices
        <3>5. d[3] = e[3]
            BY <3>2, <3>3, <3>4, SameThingSameIdentity
        <3> QED BY <3>5
    <2>3. CASE \E s \in b.dependencies, t \in c.dependencies :
                  DependencyIdentity(s) = DependencyIdentity(t)
        <3>1. PICK s \in Items(taken, {"edge"}), t \in Items({i}, {"edge"}) :
                  DependencyIdentity(s) = DependencyIdentity(t)
            BY <1>1, <2>3 DEF Holds
        <3>0. PICK j \in taken : \E d \in Declared(j) : d[3][1] \in {"edge"} /\ s = Item(d)
            BY <1>2
        <3>2. PICK d \in Declared(j) : d[3][1] \in {"edge"} /\ s = Item(d)
            BY <3>0
        <3>3. PICK e \in Declared(i) : e[3][1] \in {"edge"} /\ t = Item(e)
            BY <1>3
        <3>4. Identity(d) = Identity(e)
            BY <3>1, <3>2, <3>3 DEF Identity, Notices
        <3>5. d[3] = e[3]
            BY <3>2, <3>3, <3>4, SameThingSameIdentity
        <3> QED BY <3>5
    <2> QED BY <1>4, <2>1, <2>2, <2>3 DEF Clashes
<1>5. ASSUME NEW j \in taken, NEW d \in Declared(j), NEW e \in Declared(i), d[3] = e[3]
      PROVE  Clashes(b, c)
    <2>1. d[3][1] = e[3][1] /\ Identity(d) = Identity(e)
        BY <1>5, SameThingSameIdentity
    <2>2. ASSUME NEW tags, d[3][1] \in tags
          PROVE  Item(d) \in Items(taken, tags) /\ Item(e) \in Items({i}, tags)
        BY <2>1, <2>2 DEF Items, From
    <2>3. CASE d[3][1] \in Notices
        <3>1. SignalIdentity(Item(d)) = SignalIdentity(Item(e))
            BY <2>1, <2>3 DEF Identity, Notices
        <3>2. Item(d) \in b.signals /\ Item(e) \in c.signals
            BY <1>1, <2>2, <2>3 DEF Holds
        <3> QED BY <3>1, <3>2 DEF Clashes
    <2>4. CASE d[3][1] = "consumer"
        <3>1. Item(d).id = Item(e).id
            BY <2>1, <2>4 DEF Identity, Notices
        <3>2. Item(d) \in Items(taken, {"consumer"}) /\ Item(e) \in Items({i}, {"consumer"})
            BY <2>2, <2>4
        <3>3. Item(d) \in b.consumers /\ Item(e) \in c.consumers
            BY <1>1, <3>2 DEF Holds
        <3> QED BY <3>1, <3>3 DEF Clashes
    <2>5. CASE d[3][1] = "edge"
        <3>1. DependencyIdentity(Item(d)) = DependencyIdentity(Item(e))
            BY <2>1, <2>5 DEF Identity, Notices
        <3>2. Item(d) \in Items(taken, {"edge"}) /\ Item(e) \in Items({i}, {"edge"})
            BY <2>2, <2>5
        <3>3. Item(d) \in b.dependencies /\ Item(e) \in c.dependencies
            BY <1>1, <3>2 DEF Holds
        <3> QED BY <3>1, <3>3 DEF Clashes
    <2>6. d[3][1] \in Notices \cup {"consumer", "edge"}
        BY DeclarationShape
    <2> QED BY <2>3, <2>4, <2>5, <2>6
<1> QED BY <1>4, <1>5 DEF c

Refusable ==
    \/ \E i \in ReadSources : ~Accepts(i, asRead[i])
    \/ DeclaredTwice

\* What is merged so far is what the sources taken declare, each thing once.
MergeInv ==
    /\ phase \in {"loading", "merging", "loaded", "refused"}
    /\ mergedFrom \subseteq supplied
    /\ phase = "loading" => mergedFrom = {} /\ merged = EmptyBatch
    /\ phase \in {"merging", "loaded"} =>
           /\ \A i \in supplied : WasAccepted(i)
           /\ Holds(merged, mergedFrom)
           /\ OnceEach(mergedFrom)
    /\ phase = "loaded" => mergedFrom = supplied
    /\ phase = "refused" => Refusable

LEMMA MergeInvStep ==
    SourceInv /\ MergeInv /\ [SourceNext]_sourceVars => MergeInv'
<1> SUFFICES ASSUME SourceInv, MergeInv, [SourceNext]_sourceVars PROVE MergeInv'
    OBVIOUS
<1>0. supplied \subseteq DOMAIN Sources
    BY DEF SourceInv
<1>a. ASSUME UNCHANGED <<supplied, asRead>>
      PROVE  /\ \A i : WasAccepted(i)' = WasAccepted(i)
             /\ \A i : Declared(i)' = Declared(i)
             /\ Refusable' = Refusable
    BY <1>a DEF WasAccepted, WasRead, Declared, Refusable, DeclaredTwice, ReadSources
<1>b. ASSUME UNCHANGED asRead
      PROVE  /\ Holds(merged, mergedFrom)' = Holds(merged', mergedFrom')
             /\ OnceEach(mergedFrom)' = OnceEach(mergedFrom')
    <2>1. \A i : Declared(i)' = Declared(i)
        BY <1>b DEF Declared
    <2>2. \A d : Item(d)' = Item(d)
        BY <1>b DEF Item
    <2>3. OnceEach(mergedFrom)' = OnceEach(mergedFrom')
        BY <2>1 DEF OnceEach
    <2>4. \A tags : From(mergedFrom, tags)' = From(mergedFrom', tags)
        BY <2>1 DEF From
    <2>5. \A tags : Items(mergedFrom, tags)' = Items(mergedFrom', tags)
        BY <2>2, <2>4 DEF Items
    <2>6. Holds(merged, mergedFrom)' = Holds(merged', mergedFrom')
        BY <2>5 DEF Holds, Notices
    <2> QED BY <2>3, <2>6
<1>1. ASSUME NEW i \in DOMAIN Sources, LoadSource(i) PROVE MergeInv'
    <2>1. PICK file \in Contents[i] :
              /\ asRead' = [asRead EXCEPT ![i] = file]
              /\ phase' = IF Accepts(i, file) THEN "loading" ELSE "refused"
        BY <1>1 DEF LoadSource
    <2>2. /\ phase = "loading" /\ i \in supplied
          /\ UNCHANGED <<supplied, mergedFrom, merged>>
        BY <1>1 DEF LoadSource, NextDue
    <2>3. asRead'[i] = file
        BY <2>1 DEF SourceInv
    <2>4. file # None
        BY FileSourcesAssumption
    <2>5. ASSUME phase' = "refused" PROVE Refusable'
        <3>1. ~Accepts(i, asRead'[i])
            BY <2>1, <2>3, <2>5
        <3>2. i \in ReadSources'
            BY <2>2, <2>3, <2>4 DEF ReadSources, WasRead
        <3>3. ~Accepts(i, asRead[i])'
            BY <3>1 DEF Accepts
        <3> QED BY <3>2, <3>3 DEF Refusable
    <2> QED BY <2>1, <2>2, <2>5 DEF MergeInv
<1>2. CASE BeginMerge
    <2>1. /\ phase = "loading" /\ phase' = "merging"
          /\ UNCHANGED <<supplied, asRead, mergedFrom, merged>>
          /\ \A i \in supplied : WasAccepted(i)
        BY <1>2 DEF BeginMerge, SourceInv
    <2>2. Holds(EmptyBatch, {}) /\ OnceEach({})
        BY DEF Holds, Items, From, EmptyBatch, OnceEach
    <2>3. Holds(merged', mergedFrom') /\ OnceEach(mergedFrom')
        BY <2>1, <2>2 DEF MergeInv
    <2>4. Holds(merged, mergedFrom)' /\ OnceEach(mergedFrom)'
        BY <1>b, <2>1, <2>3
    <2>5. (\A i \in supplied : WasAccepted(i))'
        BY <1>a, <2>1
    <2> QED BY <2>1, <2>4, <2>5 DEF MergeInv
<1>3. ASSUME NEW i \in DOMAIN Sources, MergeSource(i) PROVE MergeInv'
    <2> DEFINE batch == BatchOf(i, asRead[i])
    <2>1. /\ phase = "merging" /\ i \in supplied /\ i \notin mergedFrom
          /\ UNCHANGED <<supplied, asRead>>
          /\ \/ Clashes(merged, batch) /\ phase' = "refused"
                /\ UNCHANGED <<mergedFrom, merged>>
             \/ /\ ~Clashes(merged, batch) /\ phase' = phase
                /\ merged' = Join(merged, batch)
                /\ mergedFrom' = mergedFrom \cup {i}
        BY <1>3 DEF MergeSource, NextDue
    <2>2. /\ \A j \in supplied : WasAccepted(j)
          /\ Holds(merged, mergedFrom) /\ OnceEach(mergedFrom)
          /\ mergedFrom \in SUBSET DOMAIN Sources
          /\ mergedFrom \subseteq supplied
        BY <1>0, <2>1 DEF MergeInv
    <2>3. \A j \in supplied : asRead[j] \in Contents[j] /\ Accepts(j, asRead[j])
        BY <2>2 DEF WasAccepted
    <2>4. Clashes(merged, batch) <=>
              \E j \in mergedFrom : \E d \in Declared(j), e \in Declared(i) : d[3] = e[3]
        BY <2>1, <2>2, <2>3, ClashIsOneThing
    <2>5. (\A j \in supplied : WasAccepted(j))'
        BY <1>a, <2>1, <2>2
    <2> HIDE DEF batch
    <2>6. CASE Clashes(merged, batch)
        <3>0. PICK j \in mergedFrom : \E d \in Declared(j), e \in Declared(i) : d[3] = e[3]
            BY <2>4, <2>6
        <3>1. PICK d \in Declared(j), e \in Declared(i) : d[3] = e[3]
            BY <3>0
        <3>2. d[1] = j /\ e[1] = i
            BY <1>0, <2>2, DeclarationShape
        <3>3. d # e
            BY <2>1, <3>2
        <3>4. i \in ReadSources /\ j \in ReadSources
            BY <1>0, <2>1, <2>2, <2>3, FileSourcesAssumption DEF ReadSources, WasRead
        <3>5. DeclaredTwice
            BY <3>1, <3>3, <3>4 DEF DeclaredTwice
        <3>6. Refusable'
            BY <1>a, <2>1, <3>5 DEF Refusable
        <3> QED BY <2>1, <2>2, <2>6, <3>6 DEF MergeInv
    <2>7. CASE ~Clashes(merged, batch)
        <3>1. /\ phase' = "merging" /\ merged' = Join(merged, batch)
              /\ mergedFrom' = mergedFrom \cup {i}
            BY <2>1, <2>7
        <3>2. Holds(merged', mergedFrom')
            BY <2>2, <3>1, JoinHolds DEF batch
        <3>3. OnceEach(mergedFrom')
            <4> SUFFICES ASSUME NEW j \in mergedFrom', NEW k \in mergedFrom',
                                NEW d \in Declared(j), NEW e \in Declared(k),
                                d[3] = e[3]
                         PROVE  d = e
                BY DEF OnceEach
            <4>1. CASE j \in mergedFrom /\ k \in mergedFrom
                BY <2>2, <4>1 DEF OnceEach
            <4>2. CASE j = i /\ k = i
                BY <2>1, <2>3, <4>2, OnceInAFile
            <4>3. CASE j \in mergedFrom /\ k = i
                BY <2>4, <2>7, <4>3
            <4>4. CASE j = i /\ k \in mergedFrom
                BY <2>4, <2>7, <4>4
            <4> QED BY <3>1, <4>1, <4>2, <4>3, <4>4
        <3>4. Holds(merged, mergedFrom)' /\ OnceEach(mergedFrom)'
            BY <1>b, <2>1, <3>2, <3>3
        <3> QED BY <2>1, <2>2, <2>5, <3>1, <3>4 DEF MergeInv
    <2> QED BY <2>6, <2>7
<1>4. CASE EndMerge
    <2>1. /\ phase = "merging" /\ mergedFrom = supplied
          /\ UNCHANGED <<supplied, asRead, mergedFrom, merged>>
          /\ phase' = IF UnknownConsumers(merged) = {} THEN "loaded" ELSE "refused"
        BY <1>4 DEF EndMerge
    <2>2. UnknownConsumers(merged) = {}
        BY DEF SourceInv, MergedIsWellFormed, BatchWellFormed, UnknownConsumers
    <2>3. phase' = "loaded"
        BY <2>1, <2>2
    <2>4. Holds(merged, mergedFrom)' /\ OnceEach(mergedFrom)'
        BY <1>b, <2>1 DEF MergeInv
    <2>5. (\A i \in supplied : WasAccepted(i))'
        BY <1>a, <2>1 DEF MergeInv
    <2> QED BY <2>1, <2>3, <2>4, <2>5 DEF MergeInv
<1>5. CASE UNCHANGED sourceVars
    <2>1. UNCHANGED <<phase, supplied, asRead, mergedFrom, merged>>
        BY <1>5 DEF sourceVars
    <2>2. /\ Holds(merged, mergedFrom)' = Holds(merged, mergedFrom)
          /\ OnceEach(mergedFrom)' = OnceEach(mergedFrom)
        BY <1>b, <2>1
    <2> QED BY <1>a, <2>1, <2>2 DEF MergeInv
<1> QED BY <1>1, <1>2, <1>3, <1>4, <1>5 DEF SourceNext

-----------------------------------------------------------------------------
(***************************************************************************)
(* Nothing is lost or doubled: the items of the batch are as many as the   *)
(* declarations.                                                           *)
(***************************************************************************)

LEMMA PlacesFinite == \A n \in Nat : IsFiniteSet(1..n)
BY FS_Interval

LEMMA DeclaredFinite ==
    ASSUME NEW i \in DOMAIN Sources, asRead[i] \in Contents[i]
    PROVE  IsFiniteSet(Declared(i))
<1> DEFINE D == asRead[i].document
<1>1. CASE Sources[i].kind = "openapi"
    <2> DEFINE f == [o \in Announced(D) |-> <<i, o, <<"openapi", Sources[i].target, o>>>>]
    <2>1. IsFiniteSet(DOMAIN D.operations)
        BY <1>1, FileSourcesAssumption
    <2>2. IsFiniteSet(Announced(D))
        BY <2>1, FS_Subset DEF Announced
    <2>3. f \in Surjection(Announced(D), Declared(i))
        BY <1>1 DEF Surjection, Declared
    <2> HIDE DEF f
    <2> QED BY <2>2, <2>3, FS_Surjection
<1>2. CASE Sources[i].kind = "feed"
    <2> DEFINE f == [n \in 1..Len(D.signals) |->
                        <<i, n, <<"manual", D.signals[n].target, D.signals[n].key>>>>]
    <2>1. Len(D.signals) \in Nat
        BY <1>2, FileSourcesAssumption
    <2>2. IsFiniteSet(1..Len(D.signals))
        BY <2>1, PlacesFinite
    <2>3. f \in Surjection(1..Len(D.signals), Declared(i))
        BY <1>2 DEF Surjection, Declared
    <2> HIDE DEF f
    <2> QED BY <2>2, <2>3, FS_Surjection
<1>3. CASE Sources[i].kind = "map"
    <2> DEFINE C == {<<i, n, <<"consumer", D.consumers[n].id>>>> :
                        n \in 1..Len(D.consumers)}
               E == {<<i, n, <<"edge", D.dependencies[n].consumer,
                               D.dependencies[n].endpoint>>>> :
                        n \in 1..Len(D.dependencies)}
               f == [n \in 1..Len(D.consumers) |->
                        <<i, n, <<"consumer", D.consumers[n].id>>>>]
               g == [n \in 1..Len(D.dependencies) |->
                        <<i, n, <<"edge", D.dependencies[n].consumer,
                                  D.dependencies[n].endpoint>>>>]
    <2>1. Len(D.consumers) \in Nat /\ Len(D.dependencies) \in Nat
        BY <1>3, FileSourcesAssumption
    <2>2. IsFiniteSet(1..Len(D.consumers)) /\ IsFiniteSet(1..Len(D.dependencies))
        BY <2>1, PlacesFinite
    <2>3. f \in Surjection(1..Len(D.consumers), C)
        BY DEF Surjection
    <2>4. g \in Surjection(1..Len(D.dependencies), E)
        BY DEF Surjection
    <2>5. Declared(i) = C \cup E
        BY <1>3 DEF Declared
    <2> HIDE DEF C, E, f, g
    <2>6. IsFiniteSet(C) /\ IsFiniteSet(E)
        BY <2>2, <2>3, <2>4, FS_Surjection
    <2> QED BY <2>5, <2>6, FS_Union
<1> QED BY <1>1, <1>2, <1>3, FileSourcesAssumption

LEMMA AllDeclaredFinite ==
    ASSUME NEW taken \in SUBSET DOMAIN Sources,
           \A i \in taken : asRead[i] \in Contents[i]
    PROVE  IsFiniteSet(UNION {Declared(i) : i \in taken})
<1> DEFINE sets == {Declared(i) : i \in taken}
           f == [i \in taken |-> Declared(i)]
<1>1. IsFiniteSet(taken)
    BY FileSourcesAssumption, FS_Subset
<1>2. f \in Surjection(taken, sets)
    BY DEF Surjection
<1>3. \A T \in sets : IsFiniteSet(T)
    BY DeclaredFinite
<1> HIDE DEF f, sets
<1>4. IsFiniteSet(sets)
    BY <1>1, <1>2, FS_Surjection
<1>5. IsFiniteSet(UNION sets)
    BY <1>3, <1>4, FS_UNION
<1> QED BY <1>5 DEF sets

LEMMA AsManyItems ==
    ASSUME NEW taken \in SUBSET DOMAIN Sources,
           \A i \in taken : asRead[i] \in Contents[i],
           OnceEach(taken),
           NEW tags \in {Notices, {"consumer"}, {"edge"}}
    PROVE  /\ IsFiniteSet(From(taken, tags))
           /\ Cardinality(Items(taken, tags)) = Cardinality(From(taken, tags))
<1> DEFINE F == From(taken, tags)
           f == [d \in F |-> Item(d)]
<1>1. IsFiniteSet(F)
    <2>1. F \in SUBSET UNION {Declared(i) : i \in taken}
        BY DEF From
    <2> HIDE DEF F
    <2> QED BY <2>1, AllDeclaredFinite, FS_Subset
<1>2. f \in Surjection(F, Items(taken, tags))
    BY DEF Surjection, Items
<1>3. ASSUME NEW d \in F, NEW e \in F, Item(d) = Item(e) PROVE d = e
    <2>1. PICK i \in taken : d \in Declared(i)
        BY DEF From
    <2>2. PICK j \in taken : e \in Declared(j)
        BY DEF From
    <2>3. d[3][1] \in tags /\ e[3][1] \in tags
        BY DEF From
    <2>4. Identity(d) = Identity(e)
        BY <1>3, <2>3 DEF Identity, Notices
    <2>5. \/ d[3][1] \in Notices /\ e[3][1] \in Notices
          \/ d[3][1] = "consumer" /\ e[3][1] = "consumer"
          \/ d[3][1] = "edge" /\ e[3][1] = "edge"
        BY <2>3
    <2>6. d[3] = e[3]
        BY <2>1, <2>2, <2>4, <2>5, SameThingSameIdentity
    <2> QED BY <2>1, <2>2, <2>6 DEF OnceEach
<1>4. f \in Injection(F, Items(taken, tags))
    <2>1. f \in [F -> Items(taken, tags)]
        BY DEF Items
    <2>2. \A d, e \in F : f[d] = f[e] => d = e
        BY <1>3
    <2>3. DOMAIN f = F
        OBVIOUS
    <2> HIDE DEF f, F
    <2> QED BY <2>1, <2>2, <2>3 DEF Injection, IsInjective
<1> HIDE DEF f, F
<1>5. Cardinality(Items(taken, tags)) = Cardinality(F)
    BY <1>1, <1>2, <1>4, FS_Surjection
<1> QED BY <1>1, <1>5 DEF F

LEMMA AsManyAsDeclared ==
    ASSUME NEW taken \in SUBSET DOMAIN Sources,
           \A i \in taken : asRead[i] \in Contents[i],
           OnceEach(taken), NEW b, Holds(b, taken)
    PROVE  Cardinality(b.signals) + Cardinality(b.consumers)
               + Cardinality(b.dependencies)
           = Cardinality(UNION {Declared(i) : i \in taken})
<1> DEFINE N == From(taken, Notices)
           C == From(taken, {"consumer"})
           E == From(taken, {"edge"})
           D == UNION {Declared(i) : i \in taken}
<1>1. IsFiniteSet(N) /\ Cardinality(b.signals) = Cardinality(N)
    BY AsManyItems DEF Holds
<1>2. IsFiniteSet(C) /\ Cardinality(b.consumers) = Cardinality(C)
    BY AsManyItems DEF Holds
<1>3. IsFiniteSet(E) /\ Cardinality(b.dependencies) = Cardinality(E)
    BY AsManyItems DEF Holds
<1>4. D = (N \cup C) \cup E
    <2>1. ASSUME NEW d \in D PROVE d[3][1] \in Notices \cup {"consumer", "edge"}
        BY DeclarationShape
    <2> QED BY <2>1 DEF From
<1>5. N \cap C = {} /\ (N \cup C) \cap E = {}
    BY DEF From, Notices
<1> HIDE DEF N, C, E, D
<1>6. /\ IsFiniteSet(N \cup C)
      /\ Cardinality(N \cup C) = Cardinality(N) + Cardinality(C) - Cardinality({})
    BY <1>1, <1>2, <1>5, FS_Union
<1>7. Cardinality(D) = Cardinality(N \cup C) + Cardinality(E) - Cardinality({})
    BY <1>3, <1>4, <1>5, <1>6, FS_Union
<1>8. /\ Cardinality({}) = 0
      /\ Cardinality(N) \in Nat /\ Cardinality(C) \in Nat /\ Cardinality(E) \in Nat
    BY <1>1, <1>2, <1>3, FS_EmptySet, FS_CardinalityType
<1> QED BY <1>1, <1>2, <1>3, <1>6, <1>7, <1>8 DEF D

LEMMA VerdictFollows == SourceInv /\ MergeInv => VerdictMatchesFiles
<1> SUFFICES ASSUME SourceInv, MergeInv PROVE VerdictMatchesFiles
    OBVIOUS
<1>1. phase = "refused" =>
          (\E i \in ReadSources : ~Accepts(i, asRead[i])) \/ DeclaredTwice
    BY DEF MergeInv, Refusable
<1>2. ASSUME phase = "loaded"
      PROVE  /\ ReadSources = supplied
             /\ ~(\E i \in ReadSources : ~Accepts(i, asRead[i]))
             /\ ~DeclaredTwice
             /\ Cardinality(merged.signals) + Cardinality(merged.consumers)
                    + Cardinality(merged.dependencies)
                = Cardinality(UNION {Declared(i) : i \in supplied})
    <2>1. /\ supplied \in SUBSET DOMAIN Sources
          /\ \A i \in supplied : asRead[i] \in Contents[i] /\ Accepts(i, asRead[i])
          /\ Holds(merged, supplied) /\ OnceEach(supplied)
        BY <1>2 DEF SourceInv, MergeInv, WasAccepted
    <2>2. ReadSources = supplied
        BY <2>1, FileSourcesAssumption DEF ReadSources, WasRead
    <2>3. ~DeclaredTwice
        BY <2>1, <2>2 DEF DeclaredTwice, OnceEach
    <2>4. Cardinality(merged.signals) + Cardinality(merged.consumers)
              + Cardinality(merged.dependencies)
          = Cardinality(UNION {Declared(i) : i \in supplied})
        BY <2>1, AsManyAsDeclared
    <2> QED BY <2>1, <2>2, <2>3, <2>4
<1> QED BY <1>1, <1>2 DEF VerdictMatchesFiles

LEMMA MergeInvHolds == SourceSpec => [](SourceInv /\ MergeInv)
<1>1. SourceInit => SourceInv /\ MergeInv
    BY EmptyWellFormed DEF SourceInit, SourceInv, WasRead, MergedIsWellFormed, MergeInv
<1>2. SourceInv /\ MergeInv /\ [SourceNext]_sourceVars => (SourceInv /\ MergeInv)'
    BY SourceInvStep, MergeInvStep
<1> QED BY <1>1, <1>2, PTL DEF SourceSpec

\* A call fails only for a defective file or for something declared twice; one
\* that succeeds has read every source, and its batch holds every declaration
\* once and nothing else.
THEOREM VerdictsFollowFromFiles == SourceSpec => []VerdictMatchesFiles
<1>1. SourceInv /\ MergeInv => VerdictMatchesFiles
    BY VerdictFollows
<1> QED BY <1>1, MergeInvHolds, PTL

-----------------------------------------------------------------------------
(***************************************************************************)
(* Which notices of a batch come to be stored in one row                   *)
(***************************************************************************)

Plain(prefix) == <<prefix>>
Digest(prefix) == <<prefix, "sha256">>

LEMMA Prefixes ==
    ASSUME NEW S, NEW prefix \in S, "sha256" \in S
    PROVE  /\ Plain(prefix) \in Seq(S) /\ Len(Plain(prefix)) = 1
           /\ Digest(prefix) \in Seq(S) /\ Len(Digest(prefix)) = 2
           /\ Plain(prefix)[1] = prefix /\ Digest(prefix)[1] = prefix
<1>1. Plain(prefix)[1] = prefix /\ Digest(prefix)[1] = prefix
    BY DEF Plain, Digest
<1> QED BY <1>1, ShortTuples DEF Plain, Digest

LEMMA KeyForm ==
    ASSUME NEW S, NEW prefix \in S, "sha256" \in S
    PROVE  \A p, q \in Seq(S) :
               SignalKey(prefix, p, q) =
                   IF Len(Plain(prefix) \o (p \o q)) <= MaxKeyLength
                   THEN Plain(prefix) \o (p \o q) ELSE Digest(prefix) \o (p \o q)
<1> TAKE p, q \in Seq(S)
<1>1. Plain(prefix) \in Seq(S) /\ Digest(prefix) \in Seq(S)
    BY Prefixes
<1>2. ASSUME NEW c \in Seq(S) PROVE (c \o p) \o q = c \o (p \o q)
    BY ConcatAssociative
<1>3. (Plain(prefix) \o p) \o q = Plain(prefix) \o (p \o q)
    BY <1>1, <1>2
<1>4. (Digest(prefix) \o p) \o q = Digest(prefix) \o (p \o q)
    BY <1>1, <1>2
<1>5. SignalKey(prefix, p, q) =
          IF Len((Plain(prefix) \o p) \o q) <= MaxKeyLength
          THEN (Plain(prefix) \o p) \o q ELSE (Digest(prefix) \o p) \o q
    BY DEF SignalKey, Plain, Digest
<1> QED BY <1>3, <1>4, <1>5

\* A key that is a digest is longer than any key that is none, so equal keys
\* agree on everything that follows their prefix.
LEMMA SameKeySameRest ==
    ASSUME NEW S, NEW prefix \in S, "sha256" \in S,
           NEW t \in Seq(S), NEW k \in Seq(S), NEW u \in Seq(S), NEW l \in Seq(S),
           SignalKey(prefix, t, k) = SignalKey(prefix, u, l)
    PROVE  t \o k = u \o l
<1>1. PICK one, two, x, y :
          /\ one = Plain(prefix) /\ two = Digest(prefix)
          /\ x = t \o k /\ y = u \o l
    OBVIOUS
<1>2. /\ one \in Seq(S) /\ Len(one) = 1 /\ two \in Seq(S) /\ Len(two) = 2
    BY <1>1, Prefixes
<1>3. x \in Seq(S) /\ y \in Seq(S)
    BY <1>1, ConcatProperties
<1>4. \A p, q \in Seq(S) :
          SignalKey(prefix, p, q) =
              IF Len(Plain(prefix) \o (p \o q)) <= MaxKeyLength
              THEN Plain(prefix) \o (p \o q) ELSE Digest(prefix) \o (p \o q)
    BY KeyForm
<1>5. /\ SignalKey(prefix, t, k) =
             IF Len(one \o x) <= MaxKeyLength THEN one \o x ELSE two \o x
      /\ SignalKey(prefix, u, l) =
             IF Len(one \o y) <= MaxKeyLength THEN one \o y ELSE two \o y
    BY <1>1, <1>4
<1>6. /\ Len(one \o x) = 1 + Len(x) /\ Len(two \o x) = 2 + Len(x)
      /\ Len(one \o y) = 1 + Len(y) /\ Len(two \o y) = 2 + Len(y)
      /\ Len(x) \in Nat /\ Len(y) \in Nat
    <2>1. ASSUME NEW c \in Seq(S)
          PROVE  /\ Len(c \o x) = Len(c) + Len(x) /\ Len(x) \in Nat
                 /\ Len(c \o y) = Len(c) + Len(y) /\ Len(y) \in Nat
        <3>1. Len(c \o x) = Len(c) + Len(x) /\ Len(x) \in Nat
            BY <1>3, Lengths
        <3>2. Len(c \o y) = Len(c) + Len(y) /\ Len(y) \in Nat
            BY <1>3, Lengths
        <3> QED BY <3>1, <3>2
    <2> QED BY <1>2, <2>1
<1>7. MaxKeyLength \in Nat
    BY FileSourcesAssumption
<1>8. ~(Len(one \o x) <= MaxKeyLength /\ ~(Len(one \o y) <= MaxKeyLength))
    <2> SUFFICES ASSUME Len(one \o x) <= MaxKeyLength,
                        ~(Len(one \o y) <= MaxKeyLength)
                 PROVE  FALSE
        OBVIOUS
    <2>1. Len(one \o x) = Len(two \o y)
        BY <1>5
    <2> QED BY <1>6, <1>7, <2>1
<1>9. ~(~(Len(one \o x) <= MaxKeyLength) /\ Len(one \o y) <= MaxKeyLength)
    <2> SUFFICES ASSUME ~(Len(one \o x) <= MaxKeyLength),
                        Len(one \o y) <= MaxKeyLength
                 PROVE  FALSE
        OBVIOUS
    <2>1. Len(two \o x) = Len(one \o y)
        BY <1>5
    <2> QED BY <1>6, <1>7, <2>1
<1>10. one \o x = one \o y \/ two \o x = two \o y
    BY <1>5, <1>8, <1>9
<1>11. x = y
    BY <1>2, <1>3, <1>10, CancelLeft
<1> QED BY <1>1, <1>11

LEMMA KeyStartsWithPrefix ==
    ASSUME NEW S, NEW prefix \in S, "sha256" \in S,
           NEW t \in Seq(S), NEW k \in Seq(S)
    PROVE  SignalKey(prefix, t, k)[1] = prefix
<1>1. ASSUME NEW c \in Seq(S), Len(c) \in {1, 2}, c[1] = prefix
      PROVE  (c \o (t \o k))[1] = prefix
    <2>1. PICK x \in Seq(S) : x = t \o k
        BY ConcatProperties
    <2>2. Len(x) \in Nat
        BY LenProperties
    <2>3. (c \o x)[1] = c[1]
        BY <1>1, <2>2, ConcatProperties
    <2> QED BY <1>1, <2>1, <2>3
<1>2. /\ Plain(prefix) \in Seq(S) /\ Len(Plain(prefix)) = 1
      /\ Digest(prefix) \in Seq(S) /\ Len(Digest(prefix)) = 2
      /\ Plain(prefix)[1] = prefix /\ Digest(prefix)[1] = prefix
    BY Prefixes
<1>3. \/ SignalKey(prefix, t, k) = Plain(prefix) \o (t \o k)
      \/ SignalKey(prefix, t, k) = Digest(prefix) \o (t \o k)
    BY KeyForm
<1> QED BY <1>1, <1>2, <1>3

LEMMA SameStart ==
    ASSUME NEW S, NEW t \in Seq(S), NEW k \in Seq(S), NEW u \in Seq(S),
           NEW l \in Seq(S), t \o k = u \o l, Len(t) <= Len(u)
    PROVE  SubSeq(u, 1, Len(t)) = t
<1> DEFINE start == SubSeq(u, 1, Len(t))
<1>1. /\ Len(t) \in Nat /\ Len(u) \in Nat /\ Len(k) \in Nat /\ Len(l) \in Nat
      /\ u \in [1..Len(u) -> S]
    BY LenProperties
<1>2. /\ start \in Seq(S)
      /\ Len(start) = Len(t)
      /\ \A n \in 1..Len(t) : start[n] = u[n]
    <2>1. 1 \in Int /\ Len(t) \in Int /\ \A n \in 1..Len(t) : u[n] \in S
        BY <1>1
    <2>2. /\ start \in Seq(S)
          /\ Len(start) = IF 1 <= Len(t) THEN Len(t) - 1 + 1 ELSE 0
          /\ \A n \in 1..(Len(t) - 1 + 1) : start[n] = u[1 + n - 1]
        BY <2>1, SubSeqProperties
    <2> HIDE DEF start
    <2> QED BY <1>1, <2>2
<1> HIDE DEF start
<1>3. ASSUME NEW n \in 1..Len(t) PROVE u[n] = t[n]
    <2>1. /\ n \in 1..(Len(t) + Len(k)) /\ n \in 1..(Len(u) + Len(l))
          /\ n <= Len(t) /\ n <= Len(u)
        BY <1>1
    <2>2. (t \o k)[n] = t[n] /\ (u \o l)[n] = u[n]
        BY <2>1, ConcatProperties
    <2> QED BY <2>2
<1>4. start = t
    BY <1>2, <1>3, SeqEqual
<1> QED BY <1>4 DEF start

LEMMA SameStartNested ==
    ASSUME NEW S, NEW t \in Seq(S), NEW k \in Seq(S), NEW u \in Seq(S),
           NEW l \in Seq(S), t \o k = u \o l
    PROVE  Nested(t, u)
<1>1. Len(t) \in Nat /\ Len(u) \in Nat
    BY LenProperties
<1>2. CASE Len(t) <= Len(u)
    BY <1>2, SameStart DEF Nested
<1>3. CASE ~(Len(t) <= Len(u))
    <2>1. Len(u) <= Len(t)
        BY <1>1, <1>3
    <2>2. SubSeq(t, 1, Len(u)) = u
        BY <2>1, SameStart
    <2> QED BY <1>3, <2>2 DEF Nested
<1> QED BY <1>2, <1>3

LEMMA EqualKeys ==
    ASSUME NEW S, "sha256" \in S, NEW f \in S, NEW g \in S,
           NEW t \in Seq(S), NEW k \in Seq(S), NEW u \in Seq(S), NEW l \in Seq(S),
           SignalKey(f, t, k) = SignalKey(g, u, l)
    PROVE  f = g /\ Nested(t, u) /\ (Len(k) = Len(l) => t = u)
<1>1. f = g
    <2>1. SignalKey(f, t, k)[1] = f
        BY KeyStartsWithPrefix
    <2>2. SignalKey(g, u, l)[1] = g
        BY KeyStartsWithPrefix
    <2> QED BY <2>1, <2>2
<1>2. t \o k = u \o l
    <2>1. SignalKey(f, t, k) = SignalKey(f, u, l)
        BY <1>1
    <2> QED BY <2>1, SameKeySameRest
<1>3. Nested(t, u)
    BY <1>2, SameStartNested
<1>4. ASSUME Len(k) = Len(l) PROVE t = u
    <2>1. Len(t \o k) = Len(t) + Len(k) /\ Len(t) \in Nat /\ Len(k) \in Nat
        BY Lengths
    <2>2. Len(u \o l) = Len(u) + Len(l) /\ Len(u) \in Nat
        BY Lengths
    <2>3. Len(t) = Len(u) /\ Len(t) <= Len(u)
        BY <1>2, <1>4, <2>1, <2>2
    <2>4. SubSeq(u, 1, Len(t)) = t
        BY <1>2, <2>3, SameStart
    <2>5. SubSeq(u, 1, Len(u)) = u
        BY SubSeqFull
    <2> QED BY <2>3, <2>4, <2>5
<1> QED BY <1>1, <1>3, <1>4

\* The key of a notice, and what it was made from.
LEMMA NoticeKeys ==
    ASSUME NEW taken \in SUBSET DOMAIN Sources,
           \A i \in taken : asRead[i] \in Contents[i],
           NEW s \in Items(taken, Notices)
    PROVE  /\ s.target \in Seq(STRING)
           /\ \/ /\ s.source = "openapi"
                 /\ \E o : s.key = SignalKey("openapi", s.target, <<"\n", o>>)
              \/ /\ s.source = "manual"
                 /\ \E k \in Seq(STRING) : s.key = SignalKey("manual", s.target, k)
<1>1. PICK d \in From(taken, Notices) : s = Item(d)
    BY DEF Items
<1>2. PICK i \in taken : d \in Declared(i) /\ d[3][1] \in Notices
    BY DEF From
<1>3. d[1] = i
    BY <1>2, DeclarationShape
<1>4. CASE d[3][1] = "openapi"
    <2>1. Sources[i].kind = "openapi"
        BY <1>2, <1>4, DeclarationShape
    <2>2. Sources[i].target \in Seq(STRING)
        BY <2>1, FileSourcesAssumption
    <2>3. /\ s.source = "openapi" /\ s.target = Sources[i].target
          /\ s.key = SignalKey("openapi", Sources[i].target, <<"\n", d[2]>>)
        BY <1>1, <1>3, <1>4 DEF Item
    <2> QED BY <2>2, <2>3
<1>5. CASE d[3][1] = "manual"
    <2> DEFINE item == asRead[i].document.signals[d[2]]
    <2>1. Sources[i].kind = "feed" /\ d[2] \in 1..Len(asRead[i].document.signals)
        BY <1>2, <1>5, DeclarationShape
    <2>2. item.target \in Seq(STRING) /\ item.key \in Seq(STRING)
        BY <2>1, FileSourcesAssumption
    <2>3. /\ s.source = "manual" /\ s.target = item.target
          /\ s.key = SignalKey("manual", item.target, item.key)
        BY <1>1, <1>3, <1>5 DEF Item, ItemSignal
    <2> QED BY <2>2, <2>3
<1> QED BY <1>2, <1>4, <1>5 DEF Notices

LEMMA RowsFollow == SourceInv /\ MergeInv => RowsSharedOnlyByNestedTargets
<1> SUFFICES ASSUME SourceInv, MergeInv, phase = "loaded",
                    NEW s \in merged.signals, NEW t \in merged.signals,
                    s.key = t.key, s # t
             PROVE  /\ s.source = "manual" /\ t.source = "manual"
                    /\ s.target # t.target
                    /\ Nested(s.target, t.target)
    BY DEF RowsSharedOnlyByNestedTargets
<1>1. s \in Items(supplied, Notices) /\ t \in Items(supplied, Notices)
    BY DEF MergeInv, Holds
<1>2. /\ supplied \in SUBSET DOMAIN Sources
      /\ \A i \in supplied : asRead[i] \in Contents[i]
    BY DEF SourceInv, MergeInv, WasAccepted
<1>3. SignalIdentity(s) # SignalIdentity(t)
    BY DEF SourceInv, MergedIsWellFormed, BatchWellFormed
<1>4. ASSUME NEW x \in Items(supplied, Notices)
      PROVE  /\ x.target \in Seq(STRING)
             /\ \/ /\ x.source = "openapi"
                   /\ \E o : x.key = SignalKey("openapi", x.target, <<"\n", o>>)
                \/ /\ x.source = "manual"
                   /\ \E k \in Seq(STRING) : x.key = SignalKey("manual", x.target, k)
    BY <1>2, NoticeKeys
<1>5. PICK p : IF s.source = "openapi"
               THEN s.key = SignalKey("openapi", s.target, <<"\n", p>>)
               ELSE p \in Seq(STRING) /\ s.key = SignalKey("manual", s.target, p)
    BY <1>1, <1>4
<1>6. PICK q : IF t.source = "openapi"
               THEN t.key = SignalKey("openapi", t.target, <<"\n", q>>)
               ELSE q \in Seq(STRING) /\ t.key = SignalKey("manual", t.target, q)
    BY <1>1, <1>4
<1>a. PICK S : S = STRING \cup {"openapi", "manual", "sha256", "\n", p, q}
    OBVIOUS
<1>b. PICK k : k = IF s.source = "openapi" THEN <<"\n", p>> ELSE p
    OBVIOUS
<1>c. PICK l : l = IF t.source = "openapi" THEN <<"\n", q>> ELSE q
    OBVIOUS
<1>7. s.source \in {"openapi", "manual"} /\ t.source \in {"openapi", "manual"}
    BY <1>1, <1>4
<1>8. s.target \in Seq(S) /\ t.target \in Seq(S)
    BY <1>1, <1>4, <1>a, SeqMonotonic
<1>9. /\ "openapi" \in S /\ "manual" \in S /\ "sha256" \in S
      /\ "\n" \in S /\ p \in S /\ q \in S
    BY <1>a
<1>10. k \in Seq(S) /\ l \in Seq(S)
    <2>1. <<"\n", p>> \in Seq(S) /\ <<"\n", q>> \in Seq(S)
        BY <1>9, ShortTuples
    <2>2. s.source = "openapi" \/ p \in Seq(S)
        BY <1>5, <1>a, SeqMonotonic
    <2>3. t.source = "openapi" \/ q \in Seq(S)
        BY <1>6, <1>a, SeqMonotonic
    <2> QED BY <1>b, <1>c, <2>1, <2>2, <2>3
<1>11. /\ s.key = SignalKey(s.source, s.target, k)
       /\ t.key = SignalKey(t.source, t.target, l)
    BY <1>5, <1>6, <1>7, <1>b, <1>c
<1>12. s.source \in S /\ t.source \in S
    BY <1>7, <1>9
<1>13. /\ s.source = t.source /\ Nested(s.target, t.target)
       /\ Len(k) = Len(l) => s.target = t.target
    <2>1. "sha256" \in S
        BY <1>9
    <2>2. SignalKey(s.source, s.target, k) = SignalKey(t.source, t.target, l)
        BY <1>11
    <2> QED BY ONLY <1>8, <1>10, <1>12, <2>1, <2>2, EqualKeys
<1>14. s.target # t.target
    BY <1>3, <1>13 DEF SignalIdentity
<1>15. s.source # "openapi"
    <2> SUFFICES ASSUME s.source = "openapi" PROVE FALSE
        OBVIOUS
    <2>1. Len(k) = 2 /\ Len(l) = 2
        BY <1>13, <1>b, <1>c
    <2> QED BY <1>13, <1>14, <2>1
<1> QED BY <1>7, <1>13, <1>14, <1>15

\* Only manual notices of targets of which one id continues the other's can
\* come to share a row: keys of operations, plain or digests, never do.
THEOREM OnlyNestedTargetsShareRows ==
    SourceSpec => []RowsSharedOnlyByNestedTargets
<1>1. SourceInv /\ MergeInv => RowsSharedOnlyByNestedTargets
    BY RowsFollow
<1> QED BY <1>1, MergeInvHolds, PTL
=============================================================================
