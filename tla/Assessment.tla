----------------------------- MODULE Assessment -----------------------------
(***************************************************************************)
(* services/monitor.py assess_repository and services/assessment.py        *)
(* assess_lifecycle, run by a report, an export or a dashboard request     *)
(* while imports (module Ingest) write to the same database.               *)
(*                                                                         *)
(* The signals, the consumers and the dependency edges are read by three   *)
(* SELECTs in that order, with no transaction around them, so commits of   *)
(* an import may fall between two of the reads.                            *)
(*                                                                         *)
(* Groups are assessed independently: the model holds one, whose signals   *)
(* are SignalKeys: several sources about one endpoint, or about a service. *)
(***************************************************************************)
EXTENDS Ingest, Scoring

CONSTANTS
    Scopes,             \* the scopes the group may have
    Endpoint,           \* the endpoint of an endpoint-scoped group
    Dates(_),           \* what the document of a signal says
    CriticalityOf(_),   \* what the document of a consumer says
    Instants            \* the values of `now`: --at, or the system clock

Facts == [deprecated : BOOLEAN, deprecation : SUBSET Nat, sunset : SUBSET Nat]

AtMostOne(dates) == \A d, e \in dates : d = e

\* LifecycleSignal: a notice says deprecated or gives a date, one of each at
\* most.
ASSUME AssessmentAssumption ==
    /\ Scopes \subseteq {"endpoint", "service"}
    /\ Endpoint \in Endpoints
    /\ Instants \subseteq Nat
    /\ \A p \in Payloads :
           /\ Dates(p) \in Facts
           /\ AtMostOne(Dates(p).deprecation) /\ AtMostOne(Dates(p).sunset)
           /\ Dates(p).deprecated \/ Dates(p).deprecation # {}
                                  \/ Dates(p).sunset # {}
           /\ CriticalityOf(p) \in Criticalities

VARIABLES
    scope,      \* the scope of the group
    reading,    \* what the assessment under way has read, None when none is
    report      \* the last assessment: its inputs, and the record it made

assessVars == <<scope, reading, report>>

-----------------------------------------------------------------------------
(***************************************************************************)
(* _assess_group                                                           *)
(***************************************************************************)

\* The documents of the group's active signals.
ActiveEvidence(records) ==
    {Dates(records[k].signal.payload) :
        k \in {j \in SignalKeys : records[j] # None /\ records[j].signal.active}}

DeprecationDates(evidence) == UNION {f.deprecation : f \in evidence}
SunsetDates(evidence) == UNION {f.sunset : f \in evidence}

\* Mutant of Earliest: the last date any source gives.
Last(dates) == IF dates = {} THEN {} ELSE {Max(dates)}

\* The earliest date any source gives, if one does.
Earliest(dates) == IF dates = {} THEN {} ELSE {Min(dates)}

\* The sources disagree, or put the sunset before the deprecation.
DateConflict(evidence) ==
    \/ Cardinality(DeprecationDates(evidence)) > 1
    \/ Cardinality(SunsetDates(evidence)) > 1
    \/ SunsetFirst(Earliest(DeprecationDates(evidence)),
                   Earliest(SunsetDates(evidence)))
    \/ \E f \in evidence : SunsetFirst(f.deprecation, f.sunset)

Deprecated(evidence, now) ==
    \/ \E f \in evidence : f.deprecated
    \/ \E d \in Earliest(DeprecationDates(evidence)) : d <= now

ServiceScope == scope = "service"

GroupEndpoints == IF ServiceScope THEN {} ELSE {Endpoint}

\* Every endpoint of the model belongs to the group's target.
RelevantDependencies(edges) ==
    {d \in edges : ServiceScope \/ d[2] \in GroupEndpoints}

\* Mutant of RelevantConsumers: every consumer the consumer read returned.
EveryConsumer(people, edges) == DOMAIN people

\* The consumers of the relevant edges that the consumer read returned.
RelevantConsumers(people, edges) ==
    {d[1] : d \in RelevantDependencies(edges)} \cap DOMAIN people

AssessGroup(records, people, edges, now) ==
    LET evidence == ActiveEvidence(records)
        deprecation == Earliest(DeprecationDates(evidence))
        sunset == Earliest(SunsetDates(evidence))
        conflict == DateConflict(evidence)
        affected == [c \in RelevantConsumers(people, edges) |-> people[c]]
        urgency == UrgencyScore(now, Deprecated(evidence, now),
                                deprecation, sunset, conflict)
        blastRadius == BlastRadiusScore(GroupEndpoints, affected,
                           RelevantDependencies(edges), ServiceScope)
    IN [now |-> now,
        evidence |-> evidence,
        consumers |-> affected,
        edges |-> RelevantDependencies(edges),
        deprecation_at |-> deprecation,
        sunset_at |-> sunset,
        date_conflict |-> conflict,
        state |-> LifecycleState(now, Deprecated(evidence, now), deprecation,
                                 sunset, evidence # {}, conflict),
        urgency |-> urgency,
        urgency_band |-> UrgencyBand(urgency),
        blast_radius |-> blastRadius,
        blast_radius_band |-> BlastRadiusBand(blastRadius),
        priority |-> PriorityScore(urgency, blastRadius),
        priority_band |-> UrgencyBand(PriorityScore(urgency, blastRadius))]

-----------------------------------------------------------------------------
(***************************************************************************)
(* The three reads                                                         *)
(***************************************************************************)

AssessInit ==
    /\ Init
    /\ scope \in Scopes
    /\ reading = None
    /\ report = None

\* list_signal_records, at the caller's `now`.
ReadSignals ==
    /\ reading = None
    /\ \E now \in Instants :
           reading' = [now |-> now, records |-> signals, people |-> None]
    /\ UNCHANGED <<vars, scope, report>>

\* list_consumers: each stored consumer and its criticality.
ReadConsumers ==
    /\ reading # None /\ reading.people = None
    /\ reading' = [reading EXCEPT !.people =
           [c \in {c \in ConsumerIds : consumers[c] # None} |->
               CriticalityOf(consumers[c].payload)]]
    /\ UNCHANGED <<vars, scope, report>>

StoredEdges == {d \in DependencyKeys : dependencies[d] # None}

\* list_dependencies, then assess_lifecycle.  No signal row, no group, no
\* record.
ReadDependencies ==
    /\ reading # None /\ reading.people # None
    /\ report' =
           IF \A k \in SignalKeys : reading.records[k] = None THEN None
           ELSE AssessGroup(reading.records, reading.people,
                    StoredEdges, reading.now)
    /\ reading' = None
    /\ UNCHANGED <<vars, scope>>

AssessStep == ReadSignals \/ ReadConsumers \/ ReadDependencies

AssessNext ==
    \/ Next /\ UNCHANGED assessVars
    \/ AssessStep

allVars == <<vars, assessVars>>

AssessSpec == AssessInit /\ [][AssessNext]_allVars

-----------------------------------------------------------------------------
(***************************************************************************)
(* Properties                                                              *)
(***************************************************************************)

\* determine_lifecycle_state and urgency_score read the dates independently
\* and must tell one story: an overdue sunset is worth the whole scale, a
\* conflict nearly so, a deprecation in force at least 75, withdrawn evidence
\* nothing; and a group with active evidence is never called active, since
\* every notice says deprecated or gives a date.  No score leaves the bounds of
\* ScoreCard, whose check would fail the whole report.
StateMatchesUrgency ==
    report # None =>
        /\ {report.urgency, report.blast_radius, report.priority} \subseteq 0..100
        /\ report.state # "active"
        /\ report.state = "withdrawn" <=> report.urgency = 0
        /\ report.state = "sunset_overdue" => report.urgency = 100
        /\ report.state = "conflicted" => report.urgency >= 95
        /\ report.state = "deprecated" => report.urgency >= 75
        /\ report.state = "deprecated_date_unknown" => report.urgency = 60
        /\ report.state \in {"sunset_scheduled", "deprecation_scheduled"} =>
               report.urgency < 100

\* The position of a state on the way to a sunset.
Progress == [deprecation_scheduled |-> 1, sunset_scheduled |-> 1,
             deprecated_date_unknown |-> 1, deprecated |-> 2,
             sunset_overdue |-> 3]

\* Two consecutive reports.
Successive == report # None /\ report' # None /\ report' # report

\* Time alone never makes a notice look less pressing (urgency_score: "a
\* monotone time-risk score"): on unchanged evidence a later report has at
\* least the urgency, and its state is not an earlier one.
TimeNeverLowersRisk ==
    [][Successive /\ report'.evidence = report.evidence
                  /\ report'.now >= report.now =>
           /\ report'.urgency >= report.urgency
           /\ report.state \in DOMAIN Progress =>
                  /\ report'.state \in DOMAIN Progress
                  /\ Progress[report'.state] >= Progress[report.state]]_allVars

\* "Choose conservative dates": a further source never moves a date later,
\* and never resolves a conflict.  (It may lower the urgency: a date on record
\* replaces the flat score of a deprecation without one.)
MoreEvidenceIsConservative ==
    [][Successive /\ report.evidence \subseteq report'.evidence =>
           /\ \A d \in report.deprecation_at :
                  \E e \in report'.deprecation_at : e <= d
           /\ \A s \in report.sunset_at : \E e \in report'.sunset_at : e <= s
           /\ report.date_conflict => report'.date_conflict]_allVars

Bands == [none |-> 0, low |-> 1, medium |-> 2, high |-> 3, critical |-> 4]

\* The report after this step names every consumer and every edge of the
\* report before it.
WiderImpact ==
    /\ report.edges \subseteq report'.edges
    /\ \A c \in DOMAIN report.consumers :
           /\ c \in DOMAIN report'.consumers
           /\ report'.consumers[c] = report.consumers[c]

\* Impact lifts a priority, and its band, and never lowers them below the
\* urgency (priority_score: "without ever reducing time risk"); a report whose
\* impact is wider has no smaller blast radius and, on the same evidence at
\* the same moment, no smaller priority.
ImpactOnlyLifts ==
    [][/\ report' # None =>
              /\ report'.priority >= report'.urgency
              /\ Bands[report'.priority_band] >= Bands[report'.urgency_band]
       /\ Successive /\ WiderImpact =>
              /\ report'.blast_radius >= report.blast_radius
              /\ report'.evidence = report.evidence /\ report'.now = report.now
                     => report'.priority >= report.priority]_allVars

\* However imports commit between the reads, a consumer the report names as
\* affected is, when the report is made, a stored consumer that uses the
\* group: the edges are read last and no edge outlives its consumer.
AffectedConsumersAreUsers ==
    [][report' # report /\ report' # None =>
           \A c \in DOMAIN report'.consumers :
               /\ consumers[c] # None
               /\ \E d \in RelevantDependencies(StoredEdges) : d[1] = c]_allVars

=============================================================================
