---------------------------- MODULE MCAssessment ----------------------------
(***************************************************************************)
(* Small instances of Assessment for TLC: notices whose dates straddle the *)
(* thresholds, and consumer maps that replace one another.                 *)
(***************************************************************************)
EXTENDS Assessment, TLC

CONSTANTS undated, scheduled, ending, both, sooner, light, heavy

Notice(deprecated, deprecation, sunset) ==
    [deprecated |-> deprecated, deprecation |-> deprecation, sunset |-> sunset]

\* The documents of signals; a document of a consumer says nothing of dates.
MCDates(p) ==
    CASE p = undated -> Notice(TRUE, {}, {})
      [] p = scheduled -> Notice(FALSE, {40}, {})
      [] p = ending -> Notice(TRUE, {}, {100})
      [] p = both -> Notice(FALSE, {40}, {100})
      [] p = sooner -> Notice(FALSE, {40}, {30})
      [] OTHER -> Notice(TRUE, {}, {})

MCCriticalityOf(p) == IF p = heavy THEN "critical" ELSE "low"

NoSignals == [k \in SignalKeys |-> None]
NoConsumers == [c \in ConsumerIds |-> None]
NoDependencies == [d \in DependencyKeys |-> None]

\* Every feed.
Feeds ==
    {[signals |-> f, covers |-> SignalKeys, consumers |-> NoConsumers,
      dependencies |-> NoDependencies, consumersAuthoritative |-> FALSE] :
        f \in [SignalKeys -> MaterialSignal \cup {None}]}

\* A consumer map beside a feed in which every source reports a deprecation
\* that carries no date.
FeedAndMap(p, edges, cs) ==
    [signals |-> [k \in SignalKeys |-> [payload |-> light, active |-> TRUE]],
     covers |-> SignalKeys,
     consumers |-> [c \in ConsumerIds |-> IF c \in cs THEN p ELSE None],
     dependencies |-> [d \in DependencyKeys |-> IF d \in edges THEN p ELSE None],
     consumersAuthoritative |-> TRUE]

Maps ==
    {m \in {FeedAndMap(p, edges, cs) : p \in Payloads,
                edges \in SUBSET DependencyKeys, cs \in SUBSET ConsumerIds} :
        WellFormed(m)}

Symmetry == Permutations(Ingests) \cup Permutations(ConsumerIds)

=============================================================================
