------------------------------ MODULE Scoring ------------------------------
(***************************************************************************)
(* domain/scoring.py and domain/lifecycle.py: the pure rules that turn the *)
(* dates of a lifecycle notice into a state and three scores.              *)
(*                                                                         *)
(* Instants are days since the first that datetime knows: every threshold  *)
(* is a whole number of days, so a moment past one behaves as the next day *)
(* does.  An optional date is a set of at most one instant.                *)
(***************************************************************************)
EXTENDS Integers, FiniteSets, FiniteSetsExt

\* At most `days` to go is worth `score`; with more than any of them, `beyond`.
SunsetThresholds ==
    {[days |-> 0, score |-> 100], [days |-> 7, score |-> 95],
     [days |-> 30, score |-> 85], [days |-> 90, score |-> 70],
     [days |-> 180, score |-> 55], [days |-> 365, score |-> 35]}
SunsetBeyond == 15

DeprecationThresholds ==
    {[days |-> 0, score |-> 75], [days |-> 7, score |-> 70],
     [days |-> 30, score |-> 60], [days |-> 90, score |-> 45],
     [days |-> 180, score |-> 30], [days |-> 365, score |-> 20]}
DeprecationBeyond == 10

Criticalities == {"low", "medium", "high", "critical"}

CriticalityWeight ==
    [low |-> 2, medium |-> 5, high |-> 10, critical |-> 20]

\* Mutant of DeadlineScore: a deadline that has passed reaches no threshold.
DeadlineScoreAhead(left, thresholds, beyond) ==
    LET reached == {row \in thresholds : 0 <= left /\ left <= row.days} IN
    IF reached = {} THEN beyond
    ELSE (CHOOSE row \in reached :
             \A other \in reached : row.days <= other.days).score

\* The tables list their limits in ascending order and the first that applies
\* decides: the tightest.
DeadlineScore(left, thresholds, beyond) ==
    LET reached == {row \in thresholds : left <= row.days} IN
    IF reached = {} THEN beyond
    ELSE (CHOOSE row \in reached :
             \A other \in reached : row.days <= other.days).score

DeprecationScore(left) ==
    DeadlineScore(left, DeprecationThresholds, DeprecationBeyond)

SunsetScore(left) == DeadlineScore(left, SunsetThresholds, SunsetBeyond)

\* The sunset is announced for before the deprecation.
SunsetFirst(deprecationAt, sunsetAt) ==
    \E d \in deprecationAt, s \in sunsetAt : s < d

\* A dated deprecation counts by its date alone, however late that date is.
TimeScores(now, deprecated, deprecationAt, sunsetAt) ==
    {0} \cup {DeprecationScore(d - now) : d \in deprecationAt}
        \cup {SunsetScore(s - now) : s \in sunsetAt}
        \cup (IF deprecated /\ deprecationAt = {} THEN {60} ELSE {})

UrgencyScore(now, deprecated, deprecationAt, sunsetAt, conflict) ==
    Max(TimeScores(now, deprecated, deprecationAt, sunsetAt)
        \cup (IF conflict \/ SunsetFirst(deprecationAt, sunsetAt)
              THEN {95} ELSE {}))

\* The edges that count: a known consumer's, to an endpoint of the notice or,
\* for a notice about the whole service, to any.
CountedEdges(endpoints, consumers, edges, serviceScope) ==
    {d \in edges :
        /\ d[1] \in DOMAIN consumers
        /\ IF endpoints = {} THEN serviceScope ELSE d[2] \in endpoints}

\* `consumers` maps each affected consumer to its criticality; the sum of their
\* weights, taken level by level.
HowMany(consumers, level) ==
    Cardinality({c \in DOMAIN consumers : consumers[c] = level})

ConsumerWeight(consumers) ==
    CriticalityWeight.low * HowMany(consumers, "low")
    + CriticalityWeight.medium * HowMany(consumers, "medium")
    + CriticalityWeight.high * HowMany(consumers, "high")
    + CriticalityWeight.critical * HowMany(consumers, "critical")

BlastRadiusScore(endpoints, consumers, edges, serviceScope) ==
    LET counted == CountedEdges(endpoints, consumers, edges, serviceScope)
    IN Min({100,
            Min({25, 5 * Cardinality(endpoints)})
            + Min({50, ConsumerWeight(consumers)})
            + Min({15, 2 * Cardinality(counted)})
            + (IF serviceScope THEN 10 ELSE 0)})

UrgencyBand(score) ==
    IF score = 0 THEN "none"
    ELSE IF score < 40 THEN "low"
    ELSE IF score < 70 THEN "medium"
    ELSE IF score < 90 THEN "high"
    ELSE "critical"

BlastRadiusBand(score) ==
    IF score = 0 THEN "none"
    ELSE IF score < 25 THEN "low"
    ELSE IF score < 50 THEN "medium"
    ELSE IF score < 75 THEN "high"
    ELSE "critical"

\* Mutant of PriorityScore: the mean alone.
PriorityMean(urgency, blastRadius) == (urgency + blastRadius + 1) \div 2

PriorityScore(urgency, blastRadius) ==
    Max({urgency, (urgency + blastRadius + 1) \div 2})

\* Mutant of LifecycleState: a sunset is not yet overdue at its own instant.
LifecycleStateAfter(now, deprecated, deprecationAt, sunsetAt, active, conflict) ==
    IF ~active THEN "withdrawn"
    ELSE IF conflict \/ SunsetFirst(deprecationAt, sunsetAt) THEN "conflicted"
    ELSE IF \E s \in sunsetAt : s < now THEN "sunset_overdue"
    ELSE IF \E d \in deprecationAt : d <= now THEN "deprecated"
    ELSE IF deprecationAt # {} THEN "deprecation_scheduled"
    ELSE IF sunsetAt # {} THEN "sunset_scheduled"
    ELSE IF deprecated THEN "deprecated_date_unknown"
    ELSE "active"

\* determine_lifecycle_state: the first condition that holds decides.
LifecycleState(now, deprecated, deprecationAt, sunsetAt, active, conflict) ==
    IF ~active THEN "withdrawn"
    ELSE IF conflict \/ SunsetFirst(deprecationAt, sunsetAt) THEN "conflicted"
    ELSE IF \E s \in sunsetAt : s <= now THEN "sunset_overdue"
    ELSE IF \E d \in deprecationAt : d <= now THEN "deprecated"
    ELSE IF deprecationAt # {} THEN "deprecation_scheduled"
    ELSE IF sunsetAt # {} THEN "sunset_scheduled"
    ELSE IF deprecated THEN "deprecated_date_unknown"
    ELSE "active"

=============================================================================
