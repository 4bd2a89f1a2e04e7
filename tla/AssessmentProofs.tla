-------------------------- MODULE AssessmentProofs --------------------------
(***************************************************************************)
(* Proofs about the scores and about the reports, for any number of        *)
(* signals, consumers and imports that commit while a report is made.      *)
(***************************************************************************)
EXTENDS Assessment, IngestProofs, FiniteSetTheorems, WellFoundedInduction, TLAPS

-----------------------------------------------------------------------------
(***************************************************************************)
(* Least and greatest elements                                             *)
(***************************************************************************)

Less == {p \in Nat \X Nat : p[1] < p[2]}

LEMMA LeastNatural ==
    ASSUME NEW S \in SUBSET Nat, S # {}
    PROVE  \E m \in S : \A x \in S : m <= x
<1>1. IsWellFoundedOn(Less, Nat)
    BY NatLessThanWellFounded DEF OpToRel, Less
<1>2. PICK m \in S : \A x \in S : ~(<<x, m>> \in Less)
    BY <1>1, WFMin
<1>3. ASSUME NEW x \in S, x < m
      PROVE  FALSE
    <2>1. <<x, m>> \in Nat \X Nat /\ <<x, m>>[1] < <<x, m>>[2]
        BY <1>3
    <2> QED BY <1>2, <2>1 DEF Less
<1> QED BY <1>3

LEMMA MinOfNaturals ==
    ASSUME NEW S \in SUBSET Nat, S # {}
    PROVE  Min(S) \in S /\ \A x \in S : Min(S) <= x
BY LeastNatural DEF Min

\* Scores are bounded, so a set of them has a greatest one.
LEMMA MaxOfScores ==
    ASSUME NEW S \in SUBSET (0..100), S # {}
    PROVE  Max(S) \in S /\ \A x \in S : Max(S) >= x
<1> DEFINE T == {100 - x : x \in S}
<1>1. \A x \in S : 100 - x \in T /\ 100 - x \in Nat
    OBVIOUS
<1>2. T \subseteq Nat /\ T # {}
    BY <1>1
<1>3. PICK m \in T : \A y \in T : m <= y
    <2> HIDE DEF T
    <2> QED BY <1>2, LeastNatural
<1>4. PICK s \in S : m = 100 - s
    BY <1>3
<1>5. ASSUME NEW x \in S
      PROVE  s >= x
    <2>1. m <= 100 - x
        BY <1>1, <1>3
    <2>2. x \in Int /\ s \in Int
        OBVIOUS
    <2> HIDE DEF T
    <2> QED BY <1>4, <2>1, <2>2
<1> QED BY <1>5 DEF Max

-----------------------------------------------------------------------------
(***************************************************************************)
(* The two tables of thresholds, as chains of conditions                   *)
(***************************************************************************)

\* The row with the least limit that is reached decides.
LEMMA TightestRow ==
    ASSUME NEW left \in Int, NEW thresholds, NEW beyond, NEW row \in thresholds,
           left <= row.days,
           \A other \in thresholds :
               left <= other.days =>
                   row.days <= other.days /\ (other.days <= row.days => other = row)
    PROVE  DeadlineScore(left, thresholds, beyond) = row.score
<1> DEFINE reached == {r \in thresholds : left <= r.days}
<1>1. row \in reached /\ \A other \in reached : row.days <= other.days
    OBVIOUS
<1>2. \A r \in reached : (\A other \in reached : r.days <= other.days) => r = row
    BY <1>1
<1>3. (CHOOSE r \in reached : \A other \in reached : r.days <= other.days) = row
    <2> HIDE DEF reached
    <2> QED BY <1>1, <1>2
<1> QED BY <1>1, <1>3 DEF DeadlineScore

LEMMA NoRowReached ==
    ASSUME NEW left \in Int, NEW thresholds, NEW beyond,
           \A row \in thresholds : ~(left <= row.days)
    PROVE  DeadlineScore(left, thresholds, beyond) = beyond
BY DEF DeadlineScore

DeprecationTable(left) ==
    IF left <= 0 THEN 75 ELSE IF left <= 7 THEN 70
    ELSE IF left <= 30 THEN 60 ELSE IF left <= 90 THEN 45
    ELSE IF left <= 180 THEN 30 ELSE IF left <= 365 THEN 20 ELSE 10

LEMMA DeprecationScoreIsTable ==
    ASSUME NEW left \in Int
    PROVE  DeprecationScore(left) = DeprecationTable(left)
<1> DEFINE Row(days, score) == [days |-> days, score |-> score]
           rows == {Row(0, 75), Row(7, 70), Row(30, 60),
                    Row(90, 45), Row(180, 30), Row(365, 20)}
<1>1. DeprecationThresholds = rows
    BY DEF DeprecationThresholds
<1>2. CASE left <= 0
    <2> DEFINE row == Row(0, 75)
    <2>1. row \in rows /\ left <= row.days
        BY <1>2
    <2>2. \A r \in rows : left <= r.days =>
              row.days <= r.days /\ (r.days <= row.days => r = row)
        BY <1>2
    <2>3. DeadlineScore(left, rows, DeprecationBeyond) = row.score
        <3> HIDE DEF rows, row
        <3> QED BY <2>1, <2>2, TightestRow
    <2> QED BY <1>1, <1>2, <2>3 DEF DeprecationScore, DeprecationTable
<1>3. CASE 0 < left /\ left <= 7
    <2> DEFINE row == Row(7, 70)
    <2>1. row \in rows /\ left <= row.days
        BY <1>3
    <2>2. \A r \in rows : left <= r.days =>
              row.days <= r.days /\ (r.days <= row.days => r = row)
        BY <1>3
    <2>3. DeadlineScore(left, rows, DeprecationBeyond) = row.score
        <3> HIDE DEF rows, row
        <3> QED BY <2>1, <2>2, TightestRow
    <2> QED BY <1>1, <1>3, <2>3 DEF DeprecationScore, DeprecationTable
<1>4. CASE 7 < left /\ left <= 30
    <2> DEFINE row == Row(30, 60)
    <2>1. row \in rows /\ left <= row.days
        BY <1>4
    <2>2. \A r \in rows : left <= r.days =>
              row.days <= r.days /\ (r.days <= row.days => r = row)
        BY <1>4
    <2>3. DeadlineScore(left, rows, DeprecationBeyond) = row.score
        <3> HIDE DEF rows, row
        <3> QED BY <2>1, <2>2, TightestRow
    <2> QED BY <1>1, <1>4, <2>3 DEF DeprecationScore, DeprecationTable
<1>5. CASE 30 < left /\ left <= 90
    <2> DEFINE row == Row(90, 45)
    <2>1. row \in rows /\ left <= row.days
        BY <1>5
    <2>2. \A r \in rows : left <= r.days =>
              row.days <= r.days /\ (r.days <= row.days => r = row)
        BY <1>5
    <2>3. DeadlineScore(left, rows, DeprecationBeyond) = row.score
        <3> HIDE DEF rows, row
        <3> QED BY <2>1, <2>2, TightestRow
    <2> QED BY <1>1, <1>5, <2>3 DEF DeprecationScore, DeprecationTable
<1>6. CASE 90 < left /\ left <= 180
    <2> DEFINE row == Row(180, 30)
    <2>1. row \in rows /\ left <= row.days
        BY <1>6
    <2>2. \A r \in rows : left <= r.days =>
              row.days <= r.days /\ (r.days <= row.days => r = row)
        BY <1>6
    <2>3. DeadlineScore(left, rows, DeprecationBeyond) = row.score
        <3> HIDE DEF rows, row
        <3> QED BY <2>1, <2>2, TightestRow
    <2> QED BY <1>1, <1>6, <2>3 DEF DeprecationScore, DeprecationTable
<1>7. CASE 180 < left /\ left <= 365
    <2> DEFINE row == Row(365, 20)
    <2>1. row \in rows /\ left <= row.days
        BY <1>7
    <2>2. \A r \in rows : left <= r.days =>
              row.days <= r.days /\ (r.days <= row.days => r = row)
        BY <1>7
    <2>3. DeadlineScore(left, rows, DeprecationBeyond) = row.score
        <3> HIDE DEF rows, row
        <3> QED BY <2>1, <2>2, TightestRow
    <2> QED BY <1>1, <1>7, <2>3 DEF DeprecationScore, DeprecationTable
<1>8. CASE 365 < left
    <2>1. DeadlineScore(left, rows, DeprecationBeyond) = DeprecationBeyond
        BY <1>8, NoRowReached
    <2> QED BY <1>1, <1>8, <2>1 DEF DeprecationScore, DeprecationTable, DeprecationBeyond
<1> QED BY <1>2, <1>3, <1>4, <1>5, <1>6, <1>7, <1>8

SunsetTable(left) ==
    IF left <= 0 THEN 100 ELSE IF left <= 7 THEN 95
    ELSE IF left <= 30 THEN 85 ELSE IF left <= 90 THEN 70
    ELSE IF left <= 180 THEN 55 ELSE IF left <= 365 THEN 35 ELSE 15

LEMMA SunsetScoreIsTable ==
    ASSUME NEW left \in Int
    PROVE  SunsetScore(left) = SunsetTable(left)
<1> DEFINE Row(days, score) == [days |-> days, score |-> score]
           rows == {Row(0, 100), Row(7, 95), Row(30, 85),
                    Row(90, 70), Row(180, 55), Row(365, 35)}
<1>1. SunsetThresholds = rows
    BY DEF SunsetThresholds
<1>2. CASE left <= 0
    <2> DEFINE row == Row(0, 100)
    <2>1. row \in rows /\ left <= row.days
        BY <1>2
    <2>2. \A r \in rows : left <= r.days =>
              row.days <= r.days /\ (r.days <= row.days => r = row)
        BY <1>2
    <2>3. DeadlineScore(left, rows, SunsetBeyond) = row.score
        <3> HIDE DEF rows, row
        <3> QED BY <2>1, <2>2, TightestRow
    <2> QED BY <1>1, <1>2, <2>3 DEF SunsetScore, SunsetTable
<1>3. CASE 0 < left /\ left <= 7
    <2> DEFINE row == Row(7, 95)
    <2>1. row \in rows /\ left <= row.days
        BY <1>3
    <2>2. \A r \in rows : left <= r.days =>
              row.days <= r.days /\ (r.days <= row.days => r = row)
        BY <1>3
    <2>3. DeadlineScore(left, rows, SunsetBeyond) = row.score
        <3> HIDE DEF rows, row
        <3> QED BY <2>1, <2>2, TightestRow
    <2> QED BY <1>1, <1>3, <2>3 DEF SunsetScore, SunsetTable
<1>4. CASE 7 < left /\ left <= 30
    <2> DEFINE row == Row(30, 85)
    <2>1. row \in rows /\ left <= row.days
        BY <1>4
    <2>2. \A r \in rows : left <= r.days =>
              row.days <= r.days /\ (r.days <= row.days => r = row)
        BY <1>4
    <2>3. DeadlineScore(left, rows, SunsetBeyond) = row.score
        <3> HIDE DEF rows, row
        <3> QED BY <2>1, <2>2, TightestRow
    <2> QED BY <1>1, <1>4, <2>3 DEF SunsetScore, SunsetTable
<1>5. CASE 30 < left /\ left <= 90
    <2> DEFINE row == Row(90, 70)
    <2>1. row \in rows /\ left <= row.days
        BY <1>5
    <2>2. \A r \in rows : left <= r.days =>
              row.days <= r.days /\ (r.days <= row.days => r = row)
        BY <1>5
    <2>3. DeadlineScore(left, rows, SunsetBeyond) = row.score
        <3> HIDE DEF rows, row
        <3> QED BY <2>1, <2>2, TightestRow
    <2> QED BY <1>1, <1>5, <2>3 DEF SunsetScore, SunsetTable
<1>6. CASE 90 < left /\ left <= 180
    <2> DEFINE row == Row(180, 55)
    <2>1. row \in rows /\ left <= row.days
        BY <1>6
    <2>2. \A r \in rows : left <= r.days =>
              row.days <= r.days /\ (r.days <= row.days => r = row)
        BY <1>6
    <2>3. DeadlineScore(left, rows, SunsetBeyond) = row.score
        <3> HIDE DEF rows, row
        <3> QED BY <2>1, <2>2, TightestRow
    <2> QED BY <1>1, <1>6, <2>3 DEF SunsetScore, SunsetTable
<1>7. CASE 180 < left /\ left <= 365
    <2> DEFINE row == Row(365, 35)
    <2>1. row \in rows /\ left <= row.days
        BY <1>7
    <2>2. \A r \in rows : left <= r.days =>
              row.days <= r.days /\ (r.days <= row.days => r = row)
        BY <1>7
    <2>3. DeadlineScore(left, rows, SunsetBeyond) = row.score
        <3> HIDE DEF rows, row
        <3> QED BY <2>1, <2>2, TightestRow
    <2> QED BY <1>1, <1>7, <2>3 DEF SunsetScore, SunsetTable
<1>8. CASE 365 < left
    <2>1. DeadlineScore(left, rows, SunsetBeyond) = SunsetBeyond
        BY <1>8, NoRowReached
    <2> QED BY <1>1, <1>8, <2>1 DEF SunsetScore, SunsetTable, SunsetBeyond
<1> QED BY <1>2, <1>3, <1>4, <1>5, <1>6, <1>7, <1>8

\* What the proofs need of the two tables.
LEMMA DeprecationScoreFacts ==
    ASSUME NEW left \in Int
    PROVE  /\ DeprecationScore(left) \in 10..75
           /\ left <= 0 => DeprecationScore(left) = 75
           /\ \A later \in Int : left <= later =>
                  DeprecationScore(later) <= DeprecationScore(left)
BY DeprecationScoreIsTable DEF DeprecationTable

LEMMA SunsetScoreFacts ==
    ASSUME NEW left \in Int
    PROVE  /\ SunsetScore(left) \in 15..100
           /\ left <= 0 <=> SunsetScore(left) = 100
           /\ \A later \in Int : left <= later =>
                  SunsetScore(later) <= SunsetScore(left)
BY SunsetScoreIsTable DEF SunsetTable

-----------------------------------------------------------------------------
(***************************************************************************)
(* Urgency and state                                                       *)
(***************************************************************************)

OptionalDate(dates) == dates = {} \/ \E d \in Nat : dates = {d}

\* The scores urgency_score takes the greatest of.
Scores(now, deprecated, deprecationAt, sunsetAt, conflict) ==
    TimeScores(now, deprecated, deprecationAt, sunsetAt)
        \cup (IF conflict \/ SunsetFirst(deprecationAt, sunsetAt)
              THEN {95} ELSE {})

LEMMA UrgencyIsGreatest ==
    ASSUME NEW now \in Nat, NEW deprecated, NEW D, NEW S, NEW conflict,
           OptionalDate(D), OptionalDate(S)
    PROVE  LET urgency == UrgencyScore(now, deprecated, D, S, conflict)
               all == Scores(now, deprecated, D, S, conflict)
           IN /\ all \subseteq 0..100
              /\ urgency \in all
              /\ \A x \in all : urgency >= x
<1> DEFINE all == Scores(now, deprecated, D, S, conflict)
<1>1. /\ \A d \in D : DeprecationScore(d - now) \in 0..100
      /\ \A s \in S : SunsetScore(s - now) \in 0..100
    <2>1. ASSUME NEW d \in D
          PROVE  DeprecationScore(d - now) \in 0..100
        <3>1. d - now \in Int
            BY DEF OptionalDate
        <3>2. DeprecationScore(d - now) \in 10..75
            BY <3>1, DeprecationScoreFacts
        <3> QED BY <3>2
    <2>2. ASSUME NEW s \in S
          PROVE  SunsetScore(s - now) \in 0..100
        <3>1. s - now \in Int
            BY DEF OptionalDate
        <3>2. SunsetScore(s - now) \in 15..100
            BY <3>1, SunsetScoreFacts
        <3> QED BY <3>2
    <2> QED BY <2>1, <2>2
<1>2. all \in SUBSET (0..100) /\ all # {}
    BY <1>1 DEF Scores, TimeScores
<1>3. UrgencyScore(now, deprecated, D, S, conflict) = Max(all)
    BY DEF UrgencyScore, Scores
<1> HIDE DEF all
<1>4. Max(all) \in all /\ \A x \in all : Max(all) >= x
    BY <1>2, MaxOfScores
<1> QED BY <1>2, <1>3, <1>4 DEF all

\* One story of the two rules: what StateMatchesUrgency says of a report.
LEMMA StateAgreesWithUrgency ==
    ASSUME NEW now \in Nat, NEW deprecated \in BOOLEAN, NEW D, NEW S,
           NEW conflict \in BOOLEAN, NEW active \in BOOLEAN,
           OptionalDate(D), OptionalDate(S),
           active <=> deprecated \/ D # {} \/ S # {},
           conflict => active
    PROVE  LET urgency == UrgencyScore(now, deprecated, D, S, conflict)
               state == LifecycleState(now, deprecated, D, S, active, conflict)
           IN /\ urgency \in 0..100
              /\ state # "active"
              /\ state = "withdrawn" <=> urgency = 0
              /\ state = "sunset_overdue" => urgency = 100
              /\ state = "conflicted" => urgency >= 95
              /\ state = "deprecated" => urgency >= 75
              /\ state = "deprecated_date_unknown" => urgency = 60
              /\ state \in {"sunset_scheduled", "deprecation_scheduled"} =>
                     urgency < 100
<1> DEFINE urgency == UrgencyScore(now, deprecated, D, S, conflict)
           state == LifecycleState(now, deprecated, D, S, active, conflict)
           all == Scores(now, deprecated, D, S, conflict)
<1>1. /\ all \subseteq 0..100
      /\ urgency \in all
      /\ \A x \in all : urgency >= x
    BY UrgencyIsGreatest
<1>2. \A d \in D : /\ d - now \in Int
                   /\ DeprecationScore(d - now) \in 10..75
                   /\ d <= now => DeprecationScore(d - now) = 75
    <2>1. \A d \in D : d \in Nat /\ d - now \in Int /\ (d <= now => d - now <= 0)
        BY DEF OptionalDate
    <2> QED BY <2>1, DeprecationScoreFacts
<1>3. \A s \in S : /\ SunsetScore(s - now) \in 15..100
                   /\ s <= now <=> SunsetScore(s - now) = 100
    <2>1. \A s \in S : s \in Nat /\ s - now \in Int /\ (s <= now <=> s - now <= 0)
        BY DEF OptionalDate
    <2> QED BY <2>1, SunsetScoreFacts
<1>4. \A x : x \in all <=>
          \/ x = 0
          \/ \E d \in D : x = DeprecationScore(d - now)
          \/ \E s \in S : x = SunsetScore(s - now)
          \/ x = 60 /\ deprecated /\ D = {}
          \/ x = 95 /\ (conflict \/ SunsetFirst(D, S))
    BY DEF Scores, TimeScores
<1>5. SunsetFirst(D, S) => D # {}
    BY DEF SunsetFirst
<1> HIDE DEF urgency, all
<1>6. urgency \in 0..100
    BY <1>1
<1>7. state = "withdrawn" <=> ~active
    BY DEF LifecycleState
<1>8. ~active => urgency = 0
    BY <1>1, <1>4, <1>5
<1>9. active => urgency > 0
    <2>1. ASSUME NEW d \in D PROVE urgency > 0
        BY <1>1, <1>2, <1>4
    <2>2. ASSUME NEW s \in S PROVE urgency > 0
        BY <1>1, <1>3, <1>4
    <2>3. CASE deprecated /\ D = {}
        BY <1>1, <1>4, <2>3
    <2> QED BY <2>1, <2>2, <2>3
<1>10. state = "sunset_overdue" => urgency = 100
    <2>1. state = "sunset_overdue" => \E s \in S : s <= now
        BY DEF LifecycleState
    <2>2. ASSUME NEW s \in S, s <= now PROVE urgency = 100
        BY <1>1, <1>3, <1>4, <1>6, <2>2
    <2> QED BY <2>1, <2>2
<1>11. state = "conflicted" => urgency >= 95
    <2>1. state = "conflicted" => conflict \/ SunsetFirst(D, S)
        BY DEF LifecycleState
    <2> QED BY <1>1, <1>4, <2>1
<1>12. state = "deprecated" => urgency >= 75
    <2>1. state = "deprecated" => \E d \in D : d <= now
        BY DEF LifecycleState
    <2>2. ASSUME NEW d \in D, d <= now PROVE urgency >= 75
        <3>1. DeprecationScore(d - now) \in all /\ DeprecationScore(d - now) = 75
            BY <1>2, <1>4, <2>2
        <3> QED BY <1>1, <3>1
    <2> QED BY <2>1, <2>2
<1>13. state = "deprecated_date_unknown" => urgency = 60
    <2>1. state = "deprecated_date_unknown" =>
              D = {} /\ S = {} /\ deprecated /\ ~conflict
        BY DEF LifecycleState
    <2> QED BY <1>1, <1>4, <1>5, <2>1
<1>14. state \in {"sunset_scheduled", "deprecation_scheduled"} => urgency < 100
    <2>1. state \in {"sunset_scheduled", "deprecation_scheduled"} =>
              \A s \in S : ~(s <= now)
        BY DEF LifecycleState
    <2> QED BY <1>1, <1>2, <1>3, <1>4, <2>1
<1>15. state # "active"
    BY DEF LifecycleState
<1> QED BY <1>6, <1>7, <1>8, <1>9, <1>10, <1>11, <1>12, <1>13, <1>14, <1>15 DEF urgency

\* urgency_score: "a monotone time-risk score".
LEMMA UrgencyGrows ==
    ASSUME NEW now \in Nat, NEW later \in Nat, now <= later,
           NEW before \in BOOLEAN, NEW after \in BOOLEAN, before => after,
           NEW D, NEW S, NEW conflict, OptionalDate(D), OptionalDate(S)
    PROVE  UrgencyScore(now, before, D, S, conflict)
               <= UrgencyScore(later, after, D, S, conflict)
<1> DEFINE u == UrgencyScore(now, before, D, S, conflict)
           v == UrgencyScore(later, after, D, S, conflict)
           old == Scores(now, before, D, S, conflict)
           new == Scores(later, after, D, S, conflict)
<1>1. old \subseteq 0..100 /\ u \in old
    BY UrgencyIsGreatest
<1>2. new \subseteq 0..100 /\ v \in new /\ \A x \in new : v >= x
    BY UrgencyIsGreatest
<1>3. \E x \in new : u <= x
    <2>1. ASSUME NEW d \in D, u = DeprecationScore(d - now)
          PROVE  /\ DeprecationScore(d - later) \in new
                 /\ u <= DeprecationScore(d - later)
        <3>1. d - now \in Int /\ d - later \in Int /\ d - later <= d - now
            BY DEF OptionalDate
        <3>2. u <= DeprecationScore(d - later)
            BY <2>1, <3>1, DeprecationScoreFacts
        <3> QED BY <3>2 DEF Scores, TimeScores
    <2>2. ASSUME NEW s \in S, u = SunsetScore(s - now)
          PROVE  /\ SunsetScore(s - later) \in new
                 /\ u <= SunsetScore(s - later)
        <3>1. s - now \in Int /\ s - later \in Int /\ s - later <= s - now
            BY DEF OptionalDate
        <3>2. u <= SunsetScore(s - later)
            BY <2>2, <3>1, SunsetScoreFacts
        <3> QED BY <3>2 DEF Scores, TimeScores
    <2>3. CASE u \in new
        BY <1>1, <2>3
    <2>4. \/ \E d \in D : u = DeprecationScore(d - now)
          \/ \E s \in S : u = SunsetScore(s - now)
          \/ u \in new
        BY <1>1 DEF Scores, TimeScores
    <2> QED BY <2>1, <2>2, <2>3, <2>4
<1> HIDE DEF u, v, old, new
<1>4. u <= v
    BY <1>1, <1>2, <1>3
<1> QED BY <1>4 DEF u, v

LEMMA StateAdvances ==
    ASSUME NEW now \in Nat, NEW later \in Nat, now <= later,
           NEW before \in BOOLEAN, NEW after \in BOOLEAN, before => after,
           NEW D, NEW S, NEW active, NEW conflict,
           OptionalDate(D), OptionalDate(S),
           LifecycleState(now, before, D, S, active, conflict) \in DOMAIN Progress
    PROVE  LET old == LifecycleState(now, before, D, S, active, conflict)
               new == LifecycleState(later, after, D, S, active, conflict)
           IN new \in DOMAIN Progress /\ Progress[new] >= Progress[old]
<1>1. /\ (\E s \in S : s <= now) => \E s \in S : s <= later
      /\ (\E d \in D : d <= now) => \E d \in D : d <= later
    BY DEF OptionalDate
<1>2. /\ DOMAIN Progress = {"deprecation_scheduled", "sunset_scheduled",
                            "deprecated_date_unknown", "deprecated",
                            "sunset_overdue"}
      /\ Progress["deprecation_scheduled"] = 1
      /\ Progress["sunset_scheduled"] = 1
      /\ Progress["deprecated_date_unknown"] = 1
      /\ Progress["deprecated"] = 2
      /\ Progress["sunset_overdue"] = 3
    BY DEF Progress
<1> QED BY <1>1, <1>2 DEF LifecycleState

-----------------------------------------------------------------------------
(***************************************************************************)
(* The dates a group of notices gives                                      *)
(***************************************************************************)

\* What list_signal_records can return: finitely many notices, each with what
\* LifecycleSignal requires.
Evidence(e) ==
    /\ IsFiniteSet(e)
    /\ e \subseteq Facts
    /\ \A f \in e : /\ AtMostOne(f.deprecation) /\ AtMostOne(f.sunset)
                    /\ f.deprecated \/ f.deprecation # {} \/ f.sunset # {}

LEMMA DatesAreFinite ==
    ASSUME NEW e, Evidence(e)
    PROVE  /\ DeprecationDates(e) \in SUBSET Nat
           /\ SunsetDates(e) \in SUBSET Nat
           /\ IsFiniteSet(DeprecationDates(e))
           /\ IsFiniteSet(SunsetDates(e))
<1> DEFINE ds == {f.deprecation : f \in e}
           ss == {f.sunset : f \in e}
<1>1. \A f \in e : f.deprecation \in SUBSET Nat /\ f.sunset \in SUBSET Nat
    BY DEF Evidence, Facts
<1>2. ASSUME NEW dates \in SUBSET Nat, AtMostOne(dates)
      PROVE  IsFiniteSet(dates)
    <2>1. CASE dates = {}
        BY <2>1, FS_EmptySet
    <2>2. ASSUME NEW d \in dates
          PROVE  IsFiniteSet(dates)
        <3>1. dates = {d}
            BY <1>2 DEF AtMostOne
        <3> QED BY <3>1, FS_Singleton
    <2> QED BY <2>1, <2>2
<1>3. /\ \A dates \in ds : IsFiniteSet(dates)
      /\ \A dates \in ss : IsFiniteSet(dates)
    BY <1>1, <1>2 DEF Evidence
<1>4. IsFiniteSet(ds)
    <2>1. [f \in e |-> f.deprecation] \in Surjection(e, ds)
        BY DEF Surjection
    <2>2. IsFiniteSet(e)
        BY DEF Evidence
    <2> HIDE DEF ds
    <2> QED BY <2>1, <2>2, FS_Surjection
<1>5. IsFiniteSet(ss)
    <2>1. [f \in e |-> f.sunset] \in Surjection(e, ss)
        BY DEF Surjection
    <2>2. IsFiniteSet(e)
        BY DEF Evidence
    <2> HIDE DEF ss
    <2> QED BY <2>1, <2>2, FS_Surjection
<1>6. DeprecationDates(e) = UNION ds /\ SunsetDates(e) = UNION ss
    BY DEF DeprecationDates, SunsetDates
<1>7. UNION ds \subseteq Nat /\ UNION ss \subseteq Nat
    BY <1>1
<1> HIDE DEF ds, ss
<1>8. IsFiniteSet(UNION ds) /\ IsFiniteSet(UNION ss)
    BY <1>3, <1>4, <1>5, FS_UNION
<1> QED BY <1>6, <1>7, <1>8

LEMMA EarliestIsLeast ==
    ASSUME NEW dates \in SUBSET Nat
    PROVE  /\ OptionalDate(Earliest(dates))
           /\ Earliest(dates) \subseteq dates
           /\ dates # {} <=> Earliest(dates) # {}
           /\ \A d \in Earliest(dates) : \A x \in dates : d <= x
<1>1. CASE dates = {}
    BY <1>1 DEF Earliest, OptionalDate
<1>2. CASE dates # {}
    <2>1. Earliest(dates) = {Min(dates)}
        BY <1>2 DEF Earliest
    <2>2. Min(dates) \in dates /\ \A x \in dates : Min(dates) <= x
        BY <1>2, MinOfNaturals
    <2> QED BY <1>2, <2>1, <2>2 DEF OptionalDate
<1> QED BY <1>1, <1>2

\* More dates give an earliest one that is no later.
LEMMA EarlierOfMore ==
    ASSUME NEW few \in SUBSET Nat, NEW many \in SUBSET Nat, few \subseteq many
    PROVE  \A d \in Earliest(few) : \E e \in Earliest(many) : e <= d
BY EarliestIsLeast DEF OptionalDate

LEMMA MoreThanOneOfMore ==
    ASSUME NEW few, NEW many, few \subseteq many, IsFiniteSet(many),
           Cardinality(few) > 1
    PROVE  Cardinality(many) > 1
<1>1. IsFiniteSet(few) /\ Cardinality(few) <= Cardinality(many)
    BY FS_Subset
<1>2. Cardinality(few) \in Nat /\ Cardinality(many) \in Nat
    BY <1>1, FS_CardinalityType
<1> QED BY <1>1, <1>2

LEMMA TwoElements ==
    ASSUME NEW S, IsFiniteSet(S), NEW a \in S, NEW b \in S, a # b
    PROVE  Cardinality(S) > 1
<1>1. Cardinality(S) \in Nat
    BY FS_CardinalityType
<1>2. Cardinality(S) # 0
    BY FS_EmptySet
<1>3. Cardinality(S) # 1
    BY FS_Singleton
<1> QED BY <1>1, <1>2, <1>3

\* A source that moves the earliest deprecation makes the dates disagree; one
\* that does not leaves the sunset that lay before it where it was, or earlier.
LEMMA ConflictsStay ==
    ASSUME NEW few, NEW many, Evidence(few), Evidence(many),
           few \subseteq many, DateConflict(few)
    PROVE  DateConflict(many)
<1> DEFINE D == DeprecationDates(few)   S == SunsetDates(few)
           E == DeprecationDates(many)  T == SunsetDates(many)
<1>1. /\ D \in SUBSET Nat /\ S \in SUBSET Nat
      /\ E \in SUBSET Nat /\ T \in SUBSET Nat
      /\ IsFiniteSet(E) /\ IsFiniteSet(T)
    BY DatesAreFinite
<1>2. D \subseteq E /\ S \subseteq T
    BY DEF DeprecationDates, SunsetDates
<1>3. \/ Cardinality(D) > 1
      \/ Cardinality(S) > 1
      \/ SunsetFirst(Earliest(D), Earliest(S))
      \/ \E f \in few : SunsetFirst(f.deprecation, f.sunset)
    BY DEF DateConflict
<1> SUFFICES \/ Cardinality(E) > 1
             \/ Cardinality(T) > 1
             \/ SunsetFirst(Earliest(E), Earliest(T))
             \/ \E f \in many : SunsetFirst(f.deprecation, f.sunset)
    BY DEF DateConflict
<1> HIDE DEF D, S, E, T
<1>4. CASE Cardinality(D) > 1 \/ Cardinality(S) > 1
    BY <1>1, <1>2, <1>4, MoreThanOneOfMore
<1>5. CASE SunsetFirst(Earliest(D), Earliest(S))
    <2>1. PICK d \in Earliest(D), s \in Earliest(S) : s < d
        BY <1>5 DEF SunsetFirst
    <2>2. /\ d \in D /\ s \in S /\ d \in Nat /\ s \in Nat
        BY <1>1, EarliestIsLeast
    <2>3. PICK dd \in Earliest(E) : dd <= d
        BY <1>1, <1>2, EarlierOfMore
    <2>4. PICK ss \in Earliest(T) : ss <= s
        BY <1>1, <1>2, EarlierOfMore
    <2>5. dd \in E /\ ss \in T /\ dd \in Nat /\ ss \in Nat
        BY <1>1, EarliestIsLeast
    <2>6. CASE dd = d
        BY <2>1, <2>2, <2>4, <2>5, <2>6 DEF SunsetFirst
    <2>7. CASE dd # d
        BY <1>1, <1>2, <2>2, <2>5, <2>7, TwoElements
    <2> QED BY <2>6, <2>7
<1>6. CASE \E f \in few : SunsetFirst(f.deprecation, f.sunset)
    BY <1>6
<1> QED BY <1>3, <1>4, <1>5, <1>6

-----------------------------------------------------------------------------
(***************************************************************************)
(* Blast radius and priority                                               *)
(***************************************************************************)

LEMMA MinOfTwo ==
    ASSUME NEW a \in Nat, NEW b \in Nat
    PROVE  Min({a, b}) = IF a <= b THEN a ELSE b
<1>1. Min({a, b}) \in {a, b} /\ \A x \in {a, b} : Min({a, b}) <= x
    BY MinOfNaturals
<1> QED BY <1>1

LEMMA MaxOfTwo ==
    ASSUME NEW a \in 0..100, NEW b \in 0..100
    PROVE  Max({a, b}) = IF a >= b THEN a ELSE b
<1>1. Max({a, b}) \in {a, b} /\ \A x \in {a, b} : Max({a, b}) >= x
    BY MaxOfScores
<1> QED BY <1>1

\* `wide` has every consumer of `narrow`, with the same criticality.
Widens(narrow, wide) ==
    \A c \in DOMAIN narrow : c \in DOMAIN wide /\ wide[c] = narrow[c]

LEMMA CountGrows ==
    ASSUME NEW wide, IsFiniteSet(DOMAIN wide), NEW narrow, Widens(narrow, wide),
           NEW level
    PROVE  /\ HowMany(narrow, level) \in Nat
           /\ HowMany(wide, level) \in Nat
           /\ HowMany(narrow, level) <= HowMany(wide, level)
<1> DEFINE few == {c \in DOMAIN narrow : narrow[c] = level}
           many == {c \in DOMAIN wide : wide[c] = level}
<1>1. many \in SUBSET DOMAIN wide /\ few \in SUBSET many
    BY DEF Widens
<1>2. HowMany(narrow, level) = Cardinality(few) /\ HowMany(wide, level) = Cardinality(many)
    BY DEF HowMany
<1> HIDE DEF few, many
<1>3. IsFiniteSet(many)
    BY <1>1, FS_Subset
<1>4. IsFiniteSet(few) /\ Cardinality(few) <= Cardinality(many)
    BY <1>1, <1>3, FS_Subset
<1>5. Cardinality(few) \in Nat /\ Cardinality(many) \in Nat
    BY <1>3, <1>4, FS_CardinalityType
<1> QED BY <1>2, <1>4, <1>5

LEMMA WeightGrows ==
    ASSUME NEW wide, IsFiniteSet(DOMAIN wide), NEW narrow, Widens(narrow, wide)
    PROVE  /\ ConsumerWeight(narrow) \in Nat
           /\ ConsumerWeight(wide) \in Nat
           /\ ConsumerWeight(narrow) <= ConsumerWeight(wide)
<1>1. \A level \in Criticalities :
          /\ HowMany(narrow, level) \in Nat
          /\ HowMany(wide, level) \in Nat
          /\ HowMany(narrow, level) <= HowMany(wide, level)
    BY CountGrows
<1>2. /\ CriticalityWeight.low = 2 /\ CriticalityWeight.medium = 5
      /\ CriticalityWeight.high = 10 /\ CriticalityWeight.critical = 20
    BY DEF CriticalityWeight
<1>3. /\ "low" \in Criticalities /\ "medium" \in Criticalities
      /\ "high" \in Criticalities /\ "critical" \in Criticalities
    BY DEF Criticalities
<1> QED BY <1>1, <1>2, <1>3 DEF ConsumerWeight

LEMMA BlastRadiusGrows ==
    ASSUME NEW endpoints, IsFiniteSet(endpoints), NEW serviceScope \in BOOLEAN,
           NEW wide, IsFiniteSet(DOMAIN wide), NEW narrow, Widens(narrow, wide),
           NEW many, IsFiniteSet(many), NEW few \in SUBSET many
    PROVE  LET small == BlastRadiusScore(endpoints, narrow, few, serviceScope)
               large == BlastRadiusScore(endpoints, wide, many, serviceScope)
           IN small \in 0..100 /\ large \in 0..100 /\ small <= large
<1> DEFINE fewer == CountedEdges(endpoints, narrow, few, serviceScope)
           more == CountedEdges(endpoints, wide, many, serviceScope)
           scopePoints == IF serviceScope THEN 10 ELSE 0
<1>1. more \in SUBSET many /\ fewer \in SUBSET more
    BY DEF CountedEdges, Widens
<1>2. Cardinality(endpoints) \in Nat
    BY FS_CardinalityType
<1>3. /\ ConsumerWeight(narrow) \in Nat
      /\ ConsumerWeight(wide) \in Nat
      /\ ConsumerWeight(narrow) <= ConsumerWeight(wide)
    BY WeightGrows
<1>4. /\ BlastRadiusScore(endpoints, narrow, few, serviceScope) =
            Min({100, Min({25, 5 * Cardinality(endpoints)})
                      + Min({50, ConsumerWeight(narrow)})
                      + Min({15, 2 * Cardinality(fewer)}) + scopePoints})
      /\ BlastRadiusScore(endpoints, wide, many, serviceScope) =
            Min({100, Min({25, 5 * Cardinality(endpoints)})
                      + Min({50, ConsumerWeight(wide)})
                      + Min({15, 2 * Cardinality(more)}) + scopePoints})
    BY DEF BlastRadiusScore
<1>5. scopePoints \in Nat
    OBVIOUS
<1> HIDE DEF fewer, more, scopePoints
<1>6. IsFiniteSet(more)
    BY <1>1, FS_Subset
<1>7. IsFiniteSet(fewer) /\ Cardinality(fewer) <= Cardinality(more)
    BY <1>1, <1>6, FS_Subset
<1>8. Cardinality(fewer) \in Nat /\ Cardinality(more) \in Nat
    BY <1>6, <1>7, FS_CardinalityType
<1> DEFINE e == Min({25, 5 * Cardinality(endpoints)})
           c1 == Min({50, ConsumerWeight(narrow)})
           c2 == Min({50, ConsumerWeight(wide)})
           d1 == Min({15, 2 * Cardinality(fewer)})
           d2 == Min({15, 2 * Cardinality(more)})
<1>9. e \in Nat
    BY <1>2, MinOfTwo
<1>10. c1 \in Nat /\ c2 \in Nat /\ c1 <= c2
    BY <1>3, MinOfTwo
<1>11. d1 \in Nat /\ d2 \in Nat /\ d1 <= d2
    BY <1>7, <1>8, MinOfTwo
<1> HIDE DEF e, c1, c2, d1, d2
<1> DEFINE small == Min({100, e + c1 + d1 + scopePoints})
           large == Min({100, e + c2 + d2 + scopePoints})
<1>12. small \in 0..100 /\ large \in 0..100 /\ small <= large
    <2>1. /\ e + c1 + d1 + scopePoints \in Nat
          /\ e + c2 + d2 + scopePoints \in Nat
          /\ e + c1 + d1 + scopePoints <= e + c2 + d2 + scopePoints
        BY <1>5, <1>9, <1>10, <1>11
    <2> DEFINE m == e + c1 + d1 + scopePoints
               n == e + c2 + d2 + scopePoints
    <2> HIDE DEF m, n
    <2>2. /\ Min({100, m}) = IF 100 <= m THEN 100 ELSE m
          /\ Min({100, n}) = IF 100 <= n THEN 100 ELSE n
        BY <2>1, MinOfTwo DEF m, n
    <2>3. m \in Nat /\ n \in Nat /\ m <= n
        BY <2>1 DEF m, n
    <2> QED BY <2>2, <2>3 DEF m, n
<1> QED BY <1>4, <1>12 DEF e, c1, c2, d1, d2

\* priority_score: "without ever reducing time risk".
LEMMA PriorityLifts ==
    ASSUME NEW urgency \in 0..100, NEW impact \in 0..100
    PROVE  /\ PriorityScore(urgency, impact) \in 0..100
           /\ PriorityScore(urgency, impact) >= urgency
           /\ \A more \in 0..100 : impact <= more =>
                  PriorityScore(urgency, impact) <= PriorityScore(urgency, more)
<1>1. ASSUME NEW x \in 0..100
      PROVE  \E mean \in 0..100 :
                 /\ 2 * mean <= urgency + x + 1 /\ urgency + x <= 2 * mean
                 /\ PriorityScore(urgency, x) =
                        IF urgency >= mean THEN urgency ELSE mean
    <2> DEFINE mean == (urgency + x + 1) \div 2
    <2>1. mean \in Int /\ 2 * mean <= urgency + x + 1 /\ urgency + x <= 2 * mean
        OBVIOUS
    <2>2. PriorityScore(urgency, x) = Max({urgency, mean})
        BY DEF PriorityScore
    <2> HIDE DEF mean
    <2>3. mean \in 0..100
        BY <2>1
    <2>4. Max({urgency, mean}) = IF urgency >= mean THEN urgency ELSE mean
        BY <2>3, MaxOfTwo
    <2> QED BY <2>1, <2>2, <2>3, <2>4
<1>2. ASSUME NEW more \in 0..100, impact <= more
      PROVE  PriorityScore(urgency, impact) <= PriorityScore(urgency, more)
    <2>1. PICK m \in 0..100 :
              /\ 2 * m <= urgency + impact + 1
              /\ PriorityScore(urgency, impact) = IF urgency >= m THEN urgency ELSE m
        BY <1>1
    <2>2. PICK n \in 0..100 :
              /\ urgency + more <= 2 * n
              /\ PriorityScore(urgency, more) = IF urgency >= n THEN urgency ELSE n
        BY <1>1
    <2>3. m <= n
        BY <1>2, <2>1, <2>2
    <2> QED BY <2>1, <2>2, <2>3
<1>3. PICK m \in 0..100 :
          PriorityScore(urgency, impact) = IF urgency >= m THEN urgency ELSE m
    BY <1>1
<1> QED BY <1>2, <1>3

LEMMA BandsGrow ==
    ASSUME NEW a \in 0..100, NEW b \in 0..100, a <= b
    PROVE  Bands[UrgencyBand(a)] <= Bands[UrgencyBand(b)]
<1>1. /\ Bands["none"] = 0 /\ Bands["low"] = 1 /\ Bands["medium"] = 2
      /\ Bands["high"] = 3 /\ Bands["critical"] = 4
    BY DEF Bands
<1>2. ASSUME NEW x \in 0..100
      PROVE  Bands[UrgencyBand(x)] = IF x = 0 THEN 0 ELSE IF x < 40 THEN 1
                 ELSE IF x < 70 THEN 2 ELSE IF x < 90 THEN 3 ELSE 4
    <2>1. UrgencyBand(x) = IF x = 0 THEN "none" ELSE IF x < 40 THEN "low"
              ELSE IF x < 70 THEN "medium" ELSE IF x < 90 THEN "high"
              ELSE "critical"
        BY DEF UrgencyBand
    <2> QED BY <1>1, <2>1
<1> QED BY <1>2

-----------------------------------------------------------------------------
(***************************************************************************)
(* The tables stay finite                                                  *)
(***************************************************************************)

Present(table) == {k \in DOMAIN table : table[k] # None}

FiniteRows ==
    /\ IsFiniteSet(Present(signals))
    /\ IsFiniteSet(Present(consumers))
    /\ IsFiniteSet(Present(dependencies))

\* A table to which one row at most is added.
LEMMA OneRowMore ==
    ASSUME NEW old, NEW new, DOMAIN new = DOMAIN old, IsFiniteSet(Present(old)),
           NEW k, \A l \in DOMAIN old : l # k => new[l] = old[l] \/ new[l] = None
    PROVE  IsFiniteSet(Present(new))
<1>1. Present(new) \in SUBSET (Present(old) \cup {k})
    BY DEF Present
<1>2. IsFiniteSet(Present(old) \cup {k})
    BY FS_AddElement
<1> QED BY <1>1, <1>2, FS_Subset

LEMMA UpsertKeepsFinite ==
    ASSUME StoreTypeOK, FiniteRows, NEW k \in SignalKeys, NEW s,
           UpsertSignal(k, s)
    PROVE  FiniteRows'
<1>1. /\ DOMAIN signals' = DOMAIN signals
      /\ \A l \in DOMAIN signals : l # k => signals'[l] = signals[l]
      /\ UNCHANGED <<consumers, dependencies>>
    BY DEF UpsertSignal, DiscoverSignal, IgnoreStaleSignal, RefreshSignal, StoreTypeOK
<1>2. IsFiniteSet(Present(signals'))
    BY <1>1, OneRowMore DEF FiniteRows
<1> QED BY <1>1, <1>2 DEF FiniteRows

LEMMA NextFiniteRows ==
    ASSUME TypeOK, FiniteRows, [Next]_vars
    PROVE  FiniteRows'
<1> USE DEF FiniteRows
<1>1. ASSUME NEW i \in Ingests, PutConsumer(i) PROVE FiniteRows'
    <2>1. PICK c \in ConsumerIds :
              UpsertConsumer(c, batch[i].consumers[c], observedAt[i])
        BY <1>1 DEF PutConsumer, ConsumersIn
    <2>2. /\ DOMAIN consumers' = DOMAIN consumers
          /\ \A l \in DOMAIN consumers : l # c => consumers'[l] = consumers[l]
          /\ UNCHANGED <<signals, dependencies>>
        BY <2>1 DEF UpsertConsumer, TypeOK, StoreTypeOK
    <2>3. IsFiniteSet(Present(consumers'))
        BY <2>2, OneRowMore
    <2> QED BY <2>2, <2>3
<1>2. ASSUME NEW i \in Ingests, PutDependency(i) PROVE FiniteRows'
    <2>1. PICK d \in DependencyKeys :
              UpsertDependency(d, batch[i].dependencies[d], observedAt[i])
        BY <1>2 DEF PutDependency, DependenciesDue, DependenciesIn
    <2>2. /\ DOMAIN dependencies' = DOMAIN dependencies
          /\ \A l \in DOMAIN dependencies : l # d => dependencies'[l] = dependencies[l]
          /\ UNCHANGED <<signals, consumers>>
        BY <2>1 DEF UpsertDependency, TypeOK, StoreTypeOK
    <2>3. IsFiniteSet(Present(dependencies'))
        BY <2>2, OneRowMore
    <2> QED BY <2>2, <2>3
<1>3. ASSUME NEW i \in Ingests, PutSignal(i) PROVE FiniteRows'
    BY <1>3, UpsertKeepsFinite DEF PutSignal, SignalsIn, TypeOK
<1>4. ASSUME NEW i \in Ingests, WithdrawSignal(i) PROVE FiniteRows'
    BY <1>4, UpsertKeepsFinite DEF WithdrawSignal, TypeOK
<1>5. ASSUME NEW i \in Ingests, ReconcileConsumers(i) PROVE FiniteRows'
    <2>1. /\ DOMAIN consumers' = DOMAIN consumers
          /\ \A c \in DOMAIN consumers :
                 consumers'[c] = consumers[c] \/ consumers'[c] = None
          /\ DOMAIN dependencies' = DOMAIN dependencies
          /\ \A d \in DOMAIN dependencies :
                 dependencies'[d] = dependencies[d] \/ dependencies'[d] = None
          /\ UNCHANGED signals
        BY <1>5 DEF ReconcileConsumers, ReconcileConsumerSnapshot, TypeOK,
                    StoreTypeOK, storeVars
    <2>2. IsFiniteSet(Present(consumers'))
        BY <2>1, OneRowMore
    <2>3. IsFiniteSet(Present(dependencies'))
        BY <2>1, OneRowMore
    <2> QED BY <2>1, <2>2, <2>3
<1>6. ASSUME NEW i \in Ingests,
             \/ Begin(i) \/ CountChangesBefore(i) \/ RejectDependency(i)
             \/ ListActiveSignals(i) \/ Summarise(i) \/ Die(i)
      PROVE  FiniteRows'
    <2>1. UNCHANGED storeVars
        BY <1>6 DEF Begin, CountChangesBefore, RejectDependency,
                    ListActiveSignals, Summarise, Die
    <2> QED BY <2>1 DEF storeVars
<1>7. CASE UNCHANGED vars
    BY <1>7 DEF vars, storeVars
<1> QED BY <1>1, <1>2, <1>3, <1>4, <1>5, <1>6, <1>7 DEF Next, Step

-----------------------------------------------------------------------------
(***************************************************************************)
(* What an assessment has read, and what a report is made of               *)
(***************************************************************************)

ReadingInv ==
    reading # None =>
        /\ reading = [now |-> reading.now, records |-> reading.records,
                      people |-> reading.people]
        /\ reading.now \in Nat
        /\ DOMAIN reading.records = SignalKeys
        /\ IsFiniteSet(Present(reading.records))
        /\ \A k \in SignalKeys : reading.records[k] # None =>
               reading.records[k].signal.payload \in Payloads
        /\ reading.people # None => IsFiniteSet(DOMAIN reading.people)

\* Every field of a report is what the rules make of its inputs.
ReportInv ==
    report # None =>
        LET evidence == report.evidence
            deprecated == Deprecated(evidence, report.now)
        IN  /\ report.now \in Nat
            /\ Evidence(evidence)
            /\ IsFiniteSet(DOMAIN report.consumers)
            /\ IsFiniteSet(report.edges)
            /\ report.deprecation_at = Earliest(DeprecationDates(evidence))
            /\ report.sunset_at = Earliest(SunsetDates(evidence))
            /\ report.date_conflict = DateConflict(evidence)
            /\ report.state =
                   LifecycleState(report.now, deprecated, report.deprecation_at,
                       report.sunset_at, evidence # {}, report.date_conflict)
            /\ report.urgency =
                   UrgencyScore(report.now, deprecated, report.deprecation_at,
                       report.sunset_at, report.date_conflict)
            /\ report.urgency_band = UrgencyBand(report.urgency)
            /\ report.blast_radius =
                   BlastRadiusScore(GroupEndpoints, report.consumers,
                       report.edges, ServiceScope)
            /\ report.priority = PriorityScore(report.urgency, report.blast_radius)
            /\ report.priority_band = UrgencyBand(report.priority)

LEMMA ActiveEvidenceIsEvidence ==
    ASSUME NEW records, DOMAIN records = SignalKeys, IsFiniteSet(Present(records)),
           \A k \in SignalKeys : records[k] # None =>
               records[k].signal.payload \in Payloads
    PROVE  Evidence(ActiveEvidence(records))
<1> DEFINE active == {k \in SignalKeys : records[k] # None /\ records[k].signal.active}
           e == ActiveEvidence(records)
           document == [k \in active |-> Dates(records[k].signal.payload)]
<1>1. IsFiniteSet(active)
    BY FS_Subset DEF Present
<1>2. document \in Surjection(active, e)
    BY DEF Surjection, ActiveEvidence
<1>3. \A f \in e : \E p \in Payloads : f = Dates(p)
    BY DEF ActiveEvidence
<1> HIDE DEF active, e, document
<1>4. IsFiniteSet(e)
    BY <1>1, <1>2, FS_Surjection
<1>5. Evidence(e)
    BY <1>3, <1>4, AssessmentAssumption DEF Evidence
<1> QED BY <1>5 DEF e

LEMMA AssessGroupMakesReport ==
    ASSUME NEW records, NEW people, NEW edges, NEW now \in Nat,
           Evidence(ActiveEvidence(records)),
           IsFiniteSet(DOMAIN people), IsFiniteSet(edges),
           UNCHANGED scope, report' = AssessGroup(records, people, edges, now)
    PROVE  ReportInv'
<1>1. /\ report'.now = now
      /\ report'.evidence = ActiveEvidence(records)
      /\ report'.edges = RelevantDependencies(edges)
      /\ report'.deprecation_at = Earliest(DeprecationDates(ActiveEvidence(records)))
      /\ report'.sunset_at = Earliest(SunsetDates(ActiveEvidence(records)))
      /\ report'.date_conflict = DateConflict(ActiveEvidence(records))
    BY DEF AssessGroup
<1>2. report'.consumers = [c \in RelevantConsumers(people, edges) |-> people[c]]
    BY DEF AssessGroup
<1>3. IsFiniteSet(DOMAIN report'.consumers)
    <2>1. RelevantConsumers(people, edges) \in SUBSET DOMAIN people
        BY DEF RelevantConsumers
    <2>2. DOMAIN report'.consumers = RelevantConsumers(people, edges)
        BY <1>2
    <2> QED BY <2>1, <2>2, FS_Subset
<1>4. IsFiniteSet(RelevantDependencies(edges))
    BY FS_Subset DEF RelevantDependencies
<1>5. ServiceScope' = ServiceScope /\ GroupEndpoints' = GroupEndpoints
    BY DEF ServiceScope, GroupEndpoints
<1>6. /\ report'.state =
            LifecycleState(now, Deprecated(report'.evidence, now),
                report'.deprecation_at, report'.sunset_at,
                report'.evidence # {}, report'.date_conflict)
      /\ report'.urgency =
            UrgencyScore(now, Deprecated(report'.evidence, now),
                report'.deprecation_at, report'.sunset_at, report'.date_conflict)
    BY <1>1 DEF AssessGroup
<1>7. report'.blast_radius =
          BlastRadiusScore(GroupEndpoints, report'.consumers, report'.edges,
              ServiceScope)
    BY <1>1, <1>2 DEF AssessGroup
<1>8. /\ report'.urgency_band = UrgencyBand(report'.urgency)
      /\ report'.priority = PriorityScore(report'.urgency, report'.blast_radius)
      /\ report'.priority_band = UrgencyBand(report'.priority)
    BY DEF AssessGroup
<1> QED BY <1>1, <1>3, <1>4, <1>5, <1>6, <1>7, <1>8 DEF ReportInv

LEMMA InitAssess == AssessInit => FiniteRows /\ ReadingInv /\ ReportInv
<1> SUFFICES ASSUME AssessInit PROVE FiniteRows /\ ReadingInv /\ ReportInv
    OBVIOUS
<1>1. Present(signals) = {} /\ Present(consumers) = {} /\ Present(dependencies) = {}
    BY DEF AssessInit, Init, StoreInit, Present
<1> QED BY <1>1, FS_EmptySet DEF AssessInit, FiniteRows, ReadingInv, ReportInv

\* Reports read the tables and leave them alone.
LEMMA AssessRefinesIngest ==
    /\ AssessInit => Init
    /\ [AssessNext]_allVars => [Next]_vars /\ UNCHANGED scope
BY DEF AssessInit, AssessNext, AssessStep, ReadSignals, ReadConsumers,
       ReadDependencies, allVars, assessVars

LEMMA NextAssess ==
    ASSUME TypeOK, FiniteRows, ReadingInv, ReportInv, [AssessNext]_allVars
    PROVE  FiniteRows' /\ ReadingInv' /\ ReportInv'
<1>1. FiniteRows'
    BY AssessRefinesIngest, NextFiniteRows
<1>2. CASE UNCHANGED assessVars
    BY <1>1, <1>2 DEF assessVars, ReadingInv, ReportInv, ServiceScope, GroupEndpoints
<1>3. CASE ReadSignals
    <2>1. PICK now \in Instants :
              reading' = [now |-> now, records |-> signals, people |-> None]
        BY <1>3 DEF ReadSignals
    <2>2. /\ now \in Nat
          /\ DOMAIN signals = SignalKeys
          /\ \A k \in SignalKeys : signals[k] # None =>
                 signals[k].signal.payload \in Payloads
        BY AssessmentAssumption DEF TypeOK, StoreTypeOK, SignalRow, Signal
    <2>3. ReadingInv'
        BY <2>1, <2>2 DEF ReadingInv, FiniteRows
    <2>4. ReportInv'
        BY <1>3 DEF ReadSignals, ReportInv, ServiceScope, GroupEndpoints
    <2> QED BY <1>1, <2>3, <2>4
<1>4. CASE ReadConsumers
    <2> DEFINE people == [c \in {c \in ConsumerIds : consumers[c] # None} |->
                             CriticalityOf(consumers[c].payload)]
    <2>1. IsFiniteSet(DOMAIN people)
        BY DEF FiniteRows, Present, TypeOK, StoreTypeOK
    <2>2. reading # None /\ reading' = [reading EXCEPT !.people = people]
        BY <1>4 DEF ReadConsumers
    <2> HIDE DEF people
    <2>3. reading' = [now |-> reading.now, records |-> reading.records,
                      people |-> people]
        BY <2>2 DEF ReadingInv
    <2>4. /\ reading'.now = reading.now
          /\ reading'.records = reading.records
          /\ reading'.people = people
        BY <2>3
    <2>5. ReadingInv'
        BY <2>1, <2>2, <2>3, <2>4 DEF ReadingInv
    <2>6. ReportInv'
        BY <1>4 DEF ReadConsumers, ReportInv, ServiceScope, GroupEndpoints
    <2> QED BY <1>1, <2>5, <2>6
<1>5. CASE ReadDependencies
    <2>1. ReadingInv'
        BY <1>5 DEF ReadDependencies, ReadingInv
    <2>2. Evidence(ActiveEvidence(reading.records))
        BY <1>5, ActiveEvidenceIsEvidence DEF ReadDependencies, ReadingInv
    <2>3. IsFiniteSet(StoredEdges)
        BY DEF StoredEdges, FiniteRows, Present, TypeOK, StoreTypeOK
    <2>4. IsFiniteSet(DOMAIN reading.people) /\ reading.now \in Nat
        BY <1>5 DEF ReadDependencies, ReadingInv
    <2>5. CASE report' = None
        BY <1>1, <2>1, <2>5 DEF ReportInv
    <2>6. CASE report' = AssessGroup(reading.records, reading.people,
                             StoredEdges, reading.now)
        <3>1. UNCHANGED scope
            BY <1>5 DEF ReadDependencies
        <3>2. ReportInv'
            BY <2>2, <2>3, <2>4, <2>6, <3>1, AssessGroupMakesReport
        <3> QED BY <1>1, <2>1, <3>2
    <2> QED BY <1>1, <1>5, <2>1, <2>5, <2>6 DEF ReadDependencies
<1>6. \/ UNCHANGED assessVars
      \/ ReadSignals \/ ReadConsumers \/ ReadDependencies
    BY DEF AssessNext, AssessStep, allVars
<1> QED BY <1>2, <1>3, <1>4, <1>5, <1>6

LEMMA ReportsInvariant ==
    AssessSpec => [](TypeOK /\ NoOrphanEdges /\ ReadingInv /\ ReportInv)
<1>1. AssessSpec => Spec
    <2>1. AssessInit => Init
        BY AssessRefinesIngest
    <2>2. [AssessNext]_allVars => [Next]_vars
        BY AssessRefinesIngest
    <2> QED BY <2>1, <2>2, PTL DEF AssessSpec, Spec
<1>2. AssessInit => FiniteRows /\ ReadingInv /\ ReportInv
    BY InitAssess
<1>3. TypeOK /\ (FiniteRows /\ ReadingInv /\ ReportInv) /\ [AssessNext]_allVars
          => (FiniteRows /\ ReadingInv /\ ReportInv)'
    BY NextAssess
<1> QED BY <1>1, <1>2, <1>3, TypeCorrect, EdgesHaveConsumers, PTL DEF AssessSpec

-----------------------------------------------------------------------------
(***************************************************************************)
(* The theorems                                                            *)
(***************************************************************************)

\* The dates of a report are optional, and its judgements true or false.
LEMMA ReportDates ==
    ASSUME NEW e, Evidence(e), NEW now
    PROVE  /\ OptionalDate(Earliest(DeprecationDates(e)))
           /\ OptionalDate(Earliest(SunsetDates(e)))
           /\ Deprecated(e, now) \in BOOLEAN
           /\ DateConflict(e) \in BOOLEAN
<1>1. DeprecationDates(e) \in SUBSET Nat /\ SunsetDates(e) \in SUBSET Nat
    BY DatesAreFinite
<1>2. /\ OptionalDate(Earliest(DeprecationDates(e)))
      /\ OptionalDate(Earliest(SunsetDates(e)))
    BY <1>1, EarliestIsLeast
<1>3. Deprecated(e, now) \in BOOLEAN
    BY DEF Deprecated
<1>4. DateConflict(e) \in BOOLEAN
    BY DEF DateConflict
<1> QED BY <1>2, <1>3, <1>4

\* A group is active exactly when something is known of its end.
LEMMA ActiveMeansSomethingKnown ==
    ASSUME NEW e, Evidence(e), NEW now
    PROVE  /\ e # {} <=> \/ Deprecated(e, now)
                        \/ Earliest(DeprecationDates(e)) # {}
                        \/ Earliest(SunsetDates(e)) # {}
           /\ DateConflict(e) => e # {}
<1>1. /\ DeprecationDates(e) \in SUBSET Nat /\ SunsetDates(e) \in SUBSET Nat
      /\ IsFiniteSet(DeprecationDates(e)) /\ IsFiniteSet(SunsetDates(e))
    BY DatesAreFinite
<1>2. /\ DeprecationDates(e) # {} <=> Earliest(DeprecationDates(e)) # {}
      /\ SunsetDates(e) # {} <=> Earliest(SunsetDates(e)) # {}
    BY <1>1, EarliestIsLeast
<1>3. CASE e = {}
    <2>1. DeprecationDates(e) = {} /\ SunsetDates(e) = {}
        BY <1>3 DEF DeprecationDates, SunsetDates
    <2>2. Cardinality({}) = 0
        BY FS_EmptySet
    <2>3. Earliest(DeprecationDates(e)) = {} /\ Earliest(SunsetDates(e)) = {}
        BY <1>2, <2>1
    <2>4. ~Deprecated(e, now)
        BY <1>3, <2>3 DEF Deprecated
    <2>5. ~(Cardinality(DeprecationDates(e)) > 1)
          /\ ~(Cardinality(SunsetDates(e)) > 1)
        BY <2>1, <2>2
    <2>6. ~DateConflict(e)
        BY <1>3, <2>3, <2>5 DEF DateConflict, SunsetFirst
    <2> QED BY <1>3, <2>3, <2>4, <2>6
<1>4. CASE e # {}
    <2>1. PICK f \in e : f.deprecated \/ f.deprecation # {} \/ f.sunset # {}
        BY <1>4 DEF Evidence
    <2>2. /\ f.deprecation # {} => DeprecationDates(e) # {}
          /\ f.sunset # {} => SunsetDates(e) # {}
        BY DEF DeprecationDates, SunsetDates
    <2>3. f.deprecated => Deprecated(e, now)
        BY DEF Deprecated
    <2>4. \/ Deprecated(e, now)
          \/ Earliest(DeprecationDates(e)) # {}
          \/ Earliest(SunsetDates(e)) # {}
        BY <1>2, <2>1, <2>2, <2>3
    <2> QED BY <1>4, <2>4
<1> QED BY <1>3, <1>4

LEMMA ReportInvGivesState == ReportInv => StateMatchesUrgency
<1> SUFFICES ASSUME ReportInv, report # None PROVE StateMatchesUrgency
    BY DEF StateMatchesUrgency
<1> DEFINE deprecated == Deprecated(report.evidence, report.now)
<1>1. /\ report.now \in Nat
      /\ Evidence(report.evidence)
      /\ report.deprecation_at = Earliest(DeprecationDates(report.evidence))
      /\ report.sunset_at = Earliest(SunsetDates(report.evidence))
      /\ report.date_conflict = DateConflict(report.evidence)
      /\ IsFiniteSet(DOMAIN report.consumers) /\ IsFiniteSet(report.edges)
    BY DEF ReportInv
<1>2. /\ report.state =
            LifecycleState(report.now, deprecated, report.deprecation_at,
                report.sunset_at, report.evidence # {}, report.date_conflict)
      /\ report.urgency =
            UrgencyScore(report.now, deprecated, report.deprecation_at,
                report.sunset_at, report.date_conflict)
    BY DEF ReportInv
<1>3. /\ report.blast_radius =
            BlastRadiusScore(GroupEndpoints, report.consumers, report.edges,
                ServiceScope)
      /\ report.priority = PriorityScore(report.urgency, report.blast_radius)
    BY DEF ReportInv
<1>4. /\ OptionalDate(report.deprecation_at) /\ OptionalDate(report.sunset_at)
      /\ deprecated \in BOOLEAN /\ report.date_conflict \in BOOLEAN
    BY <1>1, ReportDates
<1>5. /\ report.evidence # {} <=> \/ deprecated \/ report.deprecation_at # {}
                                 \/ report.sunset_at # {}
      /\ report.date_conflict => report.evidence # {}
    BY <1>1, ActiveMeansSomethingKnown
<1> HIDE DEF deprecated
<1>6. /\ report.urgency \in 0..100
      /\ report.state # "active"
      /\ report.state = "withdrawn" <=> report.urgency = 0
      /\ report.state = "sunset_overdue" => report.urgency = 100
      /\ report.state = "conflicted" => report.urgency >= 95
      /\ report.state = "deprecated" => report.urgency >= 75
      /\ report.state = "deprecated_date_unknown" => report.urgency = 60
      /\ report.state \in {"sunset_scheduled", "deprecation_scheduled"} =>
             report.urgency < 100
    <2> DEFINE active == report.evidence # {}
    <2>1. active \in BOOLEAN
        OBVIOUS
    <2>2. active <=> deprecated \/ report.deprecation_at # {} \/ report.sunset_at # {}
        BY <1>5
    <2>3. report.date_conflict => active
        BY <1>5
    <2>4. report.state =
              LifecycleState(report.now, deprecated, report.deprecation_at,
                  report.sunset_at, active, report.date_conflict)
        BY <1>2
    <2> HIDE DEF active
    <2> QED BY <1>1, <1>2, <1>4, <2>1, <2>2, <2>3, <2>4, StateAgreesWithUrgency
<1>7. IsFiniteSet(GroupEndpoints) /\ ServiceScope \in BOOLEAN
    BY FS_EmptySet, FS_Singleton DEF GroupEndpoints, ServiceScope
<1>8. report.blast_radius \in 0..100
    <2>1. Widens(report.consumers, report.consumers)
        BY DEF Widens
    <2> QED BY <1>1, <1>3, <1>7, <2>1, BlastRadiusGrows
<1>9. report.priority \in 0..100
    <2>1. PriorityScore(report.urgency, report.blast_radius) \in 0..100
        BY <1>6, <1>8, PriorityLifts
    <2> QED BY <1>3, <2>1
<1> QED BY <1>6, <1>8, <1>9 DEF StateMatchesUrgency

\* State, urgency and evidence of every report tell one story, and no score
\* leaves its bounds.
THEOREM StatesMatchUrgency == AssessSpec => []StateMatchesUrgency
BY ReportsInvariant, ReportInvGivesState, PTL

LEMMA TimeStep ==
    ReportInv /\ ReportInv'
        => (Successive /\ report'.evidence = report.evidence
                       /\ report'.now >= report.now =>
                /\ report'.urgency >= report.urgency
                /\ report.state \in DOMAIN Progress =>
                       /\ report'.state \in DOMAIN Progress
                       /\ Progress[report'.state] >= Progress[report.state])
<1> SUFFICES ASSUME ReportInv, ReportInv', Successive,
                    report'.evidence = report.evidence,
                    report'.now >= report.now
             PROVE  /\ report'.urgency >= report.urgency
                    /\ report.state \in DOMAIN Progress =>
                           /\ report'.state \in DOMAIN Progress
                           /\ Progress[report'.state] >= Progress[report.state]
    OBVIOUS
<1> DEFINE e == report.evidence
           D == Earliest(DeprecationDates(e))
           S == Earliest(SunsetDates(e))
           before == Deprecated(e, report.now)
           after == Deprecated(e, report'.now)
           conflict == DateConflict(e)
           active == e # {}
<1>1. Evidence(e) /\ report.now \in Nat /\ report'.now \in Nat
      /\ report.now <= report'.now
    BY DEF ReportInv, Successive
<1>2. /\ report.urgency = UrgencyScore(report.now, before, D, S, conflict)
      /\ report.state = LifecycleState(report.now, before, D, S, active, conflict)
    BY DEF ReportInv, Successive
<1>3. /\ report'.urgency = UrgencyScore(report'.now, after, D, S, conflict)
      /\ report'.state = LifecycleState(report'.now, after, D, S, active, conflict)
    BY DEF ReportInv, Successive
<1>4. /\ OptionalDate(D) /\ OptionalDate(S)
      /\ before \in BOOLEAN /\ after \in BOOLEAN
    BY <1>1, ReportDates
<1>5. before => after
    BY <1>1, <1>4 DEF Deprecated, OptionalDate
<1> HIDE DEF e, D, S, before, after, conflict, active
<1>6. UrgencyScore(report.now, before, D, S, conflict)
          <= UrgencyScore(report'.now, after, D, S, conflict)
    BY <1>1, <1>4, <1>5, UrgencyGrows
<1>7. report.state \in DOMAIN Progress =>
          /\ report'.state \in DOMAIN Progress
          /\ Progress[report'.state] >= Progress[report.state]
    BY <1>1, <1>2, <1>3, <1>4, <1>5, StateAdvances
<1>8. report'.urgency >= report.urgency
    BY <1>2, <1>3, <1>6
<1> QED BY <1>7, <1>8

\* A report on the same evidence at a later moment has no smaller urgency and
\* no earlier state.
THEOREM TimeOnlyAddsRisk == AssessSpec => TimeNeverLowersRisk
<1>1. ReportInv /\ ReportInv' /\ [AssessNext]_allVars
          => [Successive /\ report'.evidence = report.evidence
                         /\ report'.now >= report.now =>
                  /\ report'.urgency >= report.urgency
                  /\ report.state \in DOMAIN Progress =>
                         /\ report'.state \in DOMAIN Progress
                         /\ Progress[report'.state] >= Progress[report.state]]_allVars
    BY TimeStep
<1> QED BY <1>1, ReportsInvariant, PTL DEF AssessSpec, TimeNeverLowersRisk

LEMMA EvidenceStep ==
    ReportInv /\ ReportInv'
        => (Successive /\ report.evidence \subseteq report'.evidence =>
                /\ \A d \in report.deprecation_at :
                       \E e \in report'.deprecation_at : e <= d
                /\ \A s \in report.sunset_at :
                       \E e \in report'.sunset_at : e <= s
                /\ report.date_conflict => report'.date_conflict)
<1> SUFFICES ASSUME ReportInv, ReportInv', Successive,
                    report.evidence \subseteq report'.evidence
             PROVE  /\ \A d \in report.deprecation_at :
                           \E e \in report'.deprecation_at : e <= d
                    /\ \A s \in report.sunset_at :
                           \E e \in report'.sunset_at : e <= s
                    /\ report.date_conflict => report'.date_conflict
    OBVIOUS
<1> DEFINE few == report.evidence
           many == report'.evidence
<1>1. /\ Evidence(few)
      /\ report.deprecation_at = Earliest(DeprecationDates(few))
      /\ report.sunset_at = Earliest(SunsetDates(few))
      /\ report.date_conflict = DateConflict(few)
    BY DEF ReportInv, Successive
<1>2. /\ Evidence(many)
      /\ report'.deprecation_at = Earliest(DeprecationDates(many))
      /\ report'.sunset_at = Earliest(SunsetDates(many))
      /\ report'.date_conflict = DateConflict(many)
    BY DEF ReportInv, Successive
<1>3. few \subseteq many
    OBVIOUS
<1> HIDE DEF few, many
<1>4. /\ DeprecationDates(few) \subseteq DeprecationDates(many)
      /\ SunsetDates(few) \subseteq SunsetDates(many)
    BY <1>3 DEF DeprecationDates, SunsetDates
<1>5. /\ DeprecationDates(few) \in SUBSET Nat /\ SunsetDates(few) \in SUBSET Nat
      /\ DeprecationDates(many) \in SUBSET Nat /\ SunsetDates(many) \in SUBSET Nat
    BY <1>1, <1>2, DatesAreFinite
<1>6. \A d \in Earliest(DeprecationDates(few)) :
          \E e \in Earliest(DeprecationDates(many)) : e <= d
    BY <1>4, <1>5, EarlierOfMore
<1>7. \A s \in Earliest(SunsetDates(few)) :
          \E e \in Earliest(SunsetDates(many)) : e <= s
    BY <1>4, <1>5, EarlierOfMore
<1>8. DateConflict(few) => DateConflict(many)
    BY <1>1, <1>2, <1>3, ConflictsStay
<1> QED BY <1>1, <1>2, <1>6, <1>7, <1>8

\* A further source moves no date later and resolves no conflict.
THEOREM DatesStayConservative == AssessSpec => MoreEvidenceIsConservative
<1>1. ReportInv /\ ReportInv' /\ [AssessNext]_allVars
          => [Successive /\ report.evidence \subseteq report'.evidence =>
                  /\ \A d \in report.deprecation_at :
                         \E e \in report'.deprecation_at : e <= d
                  /\ \A s \in report.sunset_at :
                         \E e \in report'.sunset_at : e <= s
                  /\ report.date_conflict => report'.date_conflict]_allVars
    BY EvidenceStep
<1> QED BY <1>1, ReportsInvariant, PTL DEF AssessSpec, MoreEvidenceIsConservative

Scored(r) ==
    r.urgency \in 0..100 /\ r.blast_radius \in 0..100 /\ r.priority \in 0..100

LEMMA ReportScores == ReportInv => (report # None => Scored(report))
BY ReportInvGivesState DEF StateMatchesUrgency, Scored

LEMMA NextReportScores == ReportInv' => (report' # None => Scored(report'))
<1>1. (ReportInv => (report # None => Scored(report)))'
    BY ReportScores, PTL
<1> QED BY <1>1

LEMMA ImpactStep ==
    ReportInv /\ ReportInv' /\ UNCHANGED scope
        => /\ report' # None =>
                  /\ report'.priority >= report'.urgency
                  /\ Bands[report'.priority_band] >= Bands[report'.urgency_band]
           /\ Successive /\ WiderImpact =>
                  /\ report'.blast_radius >= report.blast_radius
                  /\ report'.evidence = report.evidence /\ report'.now = report.now
                         => report'.priority >= report.priority
<1> SUFFICES ASSUME ReportInv, ReportInv', UNCHANGED scope
             PROVE  /\ report' # None =>
                           /\ report'.priority >= report'.urgency
                           /\ Bands[report'.priority_band] >=
                                  Bands[report'.urgency_band]
                    /\ Successive /\ WiderImpact =>
                           /\ report'.blast_radius >= report.blast_radius
                           /\ report'.evidence = report.evidence
                                  /\ report'.now = report.now
                                  => report'.priority >= report.priority
    OBVIOUS
<1>1. ASSUME report' # None
      PROVE  /\ report'.priority >= report'.urgency
             /\ Bands[report'.priority_band] >= Bands[report'.urgency_band]
    <2>1. /\ report'.urgency \in 0..100
          /\ report'.blast_radius \in 0..100
          /\ report'.priority \in 0..100
        BY <1>1, NextReportScores DEF Scored
    <2>2. /\ report'.priority = PriorityScore(report'.urgency, report'.blast_radius)
          /\ report'.priority_band = UrgencyBand(report'.priority)
          /\ report'.urgency_band = UrgencyBand(report'.urgency)
        BY <1>1 DEF ReportInv
    <2>3. report'.priority >= report'.urgency
        BY <2>1, <2>2, PriorityLifts
    <2>4. Bands[UrgencyBand(report'.urgency)] <= Bands[UrgencyBand(report'.priority)]
        BY <2>1, <2>3, BandsGrow
    <2>5. /\ Bands[UrgencyBand(report'.urgency)] \in Nat
          /\ Bands[UrgencyBand(report'.priority)] \in Nat
        BY <2>1 DEF UrgencyBand, Bands
    <2> QED BY <2>2, <2>3, <2>4, <2>5
<1>2. ASSUME Successive, WiderImpact
      PROVE  /\ report'.blast_radius >= report.blast_radius
             /\ report'.evidence = report.evidence /\ report'.now = report.now
                    => report'.priority >= report.priority
    <2>1. /\ report.urgency \in 0..100 /\ report.blast_radius \in 0..100
          /\ report'.urgency \in 0..100 /\ report'.blast_radius \in 0..100
        BY <1>2, ReportScores, NextReportScores DEF Successive, Scored
    <2>2. /\ IsFiniteSet(DOMAIN report'.consumers)
          /\ IsFiniteSet(report'.edges)
          /\ report'.blast_radius =
                BlastRadiusScore(GroupEndpoints, report'.consumers, report'.edges,
                    ServiceScope)
          /\ report'.priority = PriorityScore(report'.urgency, report'.blast_radius)
        BY <1>2 DEF ReportInv, Successive, GroupEndpoints, ServiceScope
    <2>3. /\ report.blast_radius =
                BlastRadiusScore(GroupEndpoints, report.consumers, report.edges,
                    ServiceScope)
          /\ report.priority = PriorityScore(report.urgency, report.blast_radius)
        BY <1>2 DEF ReportInv, Successive
    <2>4. IsFiniteSet(GroupEndpoints) /\ ServiceScope \in BOOLEAN
        BY FS_EmptySet, FS_Singleton DEF GroupEndpoints, ServiceScope
    <2>5. /\ report.edges \in SUBSET report'.edges
          /\ Widens(report.consumers, report'.consumers)
        BY <1>2 DEF WiderImpact, Widens
    <2>6. BlastRadiusScore(GroupEndpoints, report.consumers, report.edges, ServiceScope)
              <= BlastRadiusScore(GroupEndpoints, report'.consumers, report'.edges,
                     ServiceScope)
        BY <2>2, <2>4, <2>5, BlastRadiusGrows
    <2>7. report.blast_radius <= report'.blast_radius
        BY <2>2, <2>3, <2>6
    <2>8. ASSUME report'.evidence = report.evidence, report'.now = report.now
          PROVE  report'.priority >= report.priority
        <3>1. report'.urgency = report.urgency
            BY <1>2, <2>8 DEF ReportInv, Successive
        <3>2. PriorityScore(report.urgency, report.blast_radius)
                  <= PriorityScore(report.urgency, report'.blast_radius)
            BY <2>1, <2>7, PriorityLifts
        <3>3. /\ PriorityScore(report.urgency, report.blast_radius) \in 0..100
              /\ PriorityScore(report.urgency, report'.blast_radius) \in 0..100
            BY <2>1, PriorityLifts
        <3> QED BY <2>2, <2>3, <3>1, <3>2, <3>3
    <2> QED BY <2>1, <2>7, <2>8
<1> QED BY <1>1, <1>2

\* Impact lifts a priority and its band and never lowers them; wider impact
\* weighs no less.
THEOREM ImpactNeverLowers == AssessSpec => ImpactOnlyLifts
<1>1. ReportInv /\ ReportInv' /\ [AssessNext]_allVars
          => [/\ report' # None =>
                     /\ report'.priority >= report'.urgency
                     /\ Bands[report'.priority_band] >= Bands[report'.urgency_band]
              /\ Successive /\ WiderImpact =>
                     /\ report'.blast_radius >= report.blast_radius
                     /\ report'.evidence = report.evidence /\ report'.now = report.now
                            => report'.priority >= report.priority]_allVars
    BY ImpactStep, AssessRefinesIngest
<1> QED BY <1>1, ReportsInvariant, PTL DEF AssessSpec, ImpactOnlyLifts

\* The edges of a report are read last and have their consumers, whatever was
\* removed after the consumers were read.
THEOREM ReportsNameUsers == AssessSpec => AffectedConsumersAreUsers
<1>1. NoOrphanEdges /\ [AssessNext]_allVars
          => [report' # report /\ report' # None =>
                  \A c \in DOMAIN report'.consumers :
                      /\ consumers[c] # None
                      /\ \E d \in RelevantDependencies(StoredEdges) : d[1] = c]_allVars
    <2> SUFFICES ASSUME NoOrphanEdges, AssessNext, report' # report, report' # None,
                        NEW c \in DOMAIN report'.consumers
                 PROVE  /\ consumers[c] # None
                        /\ \E d \in RelevantDependencies(StoredEdges) : d[1] = c
        BY DEF allVars, assessVars
    <2>1. report' = AssessGroup(reading.records, reading.people, StoredEdges,
                        reading.now)
        BY DEF AssessNext, AssessStep, ReadSignals, ReadConsumers,
               ReadDependencies, assessVars
    <2>2. report'.consumers =
              [x \in RelevantConsumers(reading.people, StoredEdges) |->
                  reading.people[x]]
        BY <2>1 DEF AssessGroup
    <2>3. PICK d \in RelevantDependencies(StoredEdges) : d[1] = c
        BY <2>2 DEF RelevantConsumers
    <2>4. consumers[d[1]] # None
        BY DEF RelevantDependencies, StoredEdges, NoOrphanEdges
    <2> QED BY <2>3, <2>4
<1> QED BY <1>1, ReportsInvariant, PTL DEF AssessSpec, AffectedConsumersAreUsers

=============================================================================
