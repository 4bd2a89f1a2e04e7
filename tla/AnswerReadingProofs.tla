------------------------ MODULE AnswerReadingProofs ------------------------
(***************************************************************************)
(* Theorems about AnswerReading, for any URLs, fields and scan times.      *)
(***************************************************************************)
EXTENDS AnswerReading, TLAPS

-----------------------------------------------------------------------------
(***************************************************************************)
(* The calendar                                                            *)
(***************************************************************************)

LEMMA LastDayIs == LastDay = 3652059
<1>1. ~IsLeapYear(9999)
  BY DEF IsLeapYear
<1>2. DaysBeforeMonth(9999, 12) = 334
  BY <1>1 DEF DaysBeforeMonth
<1>3. DaysBeforeYear(9999) = 3651694
  BY DEF DaysBeforeYear
<1>4. QED
  BY <1>2, <1>3 DEF LastDay, LastYear, DayNumber

\* A date lies in its year, and only 31 December is the last day of it.
LEMMA DayOfYear ==
    ASSUME NEW year \in Int, NEW month \in Int, month \in 1..12,
           NEW day \in Int, day >= 1, day <= DaysInMonth(year, month)
    PROVE  /\ DaysBeforeMonth(year, month) + day \in 1..366
           /\ ~IsLeapYear(year) => DaysBeforeMonth(year, month) + day <= 365
           /\ DaysBeforeMonth(year, month) + day >= 365 /\ ~IsLeapYear(year) =>
                  month = 12 /\ day = 31
<1>1. DaysInMonth(year, month) \in
          IF month = 2 THEN {IF IsLeapYear(year) THEN 29 ELSE 28}
          ELSE IF month \in {4, 6, 9, 11} THEN {30} ELSE {31}
  BY DEF DaysInMonth
<1>3. PICK leap \in {0, 1} :
          DaysBeforeMonth(year, month) =
              <<0, 31, 59, 90, 120, 151, 181, 212, 243, 273, 304, 334>>[month] + leap
              /\ (leap = 1 => IsLeapYear(year) /\ month > 2)
              /\ (leap = 0 => ~IsLeapYear(year) \/ month <= 2)
  BY DEF DaysBeforeMonth
<1>4. QED
  BY <1>1, <1>3

\* Before the last year of the calendar there is room for another year.
LEMMA RoomBeforeLastYear ==
    ASSUME NEW year \in Int, year >= 1, year <= 9998
    PROVE  DaysBeforeYear(year) \in Int /\ DaysBeforeYear(year) + 367 <= LastDay
<1>1. PICK past \in 0..9997 : past = year - 1
  OBVIOUS
<1>2. DaysBeforeYear(year) = past * 365 + past \div 4 - past \div 100 + past \div 400
  BY <1>1 DEF DaysBeforeYear
<1>3. /\ past \div 4 \in Int /\ 4 * (past \div 4) <= past
      /\ past \div 100 \in Int /\ 100 * (past \div 100) > past - 100
      /\ past \div 400 \in Int /\ 400 * (past \div 400) <= past
  OBVIOUS
<1>4. QED
  BY <1>2, <1>3, LastDayIs

\* Every calendar date has a day; all but the last have a day after them.
LEMMA DayInCalendar ==
    ASSUME NEW year \in Int, year \in 1..LastYear,
           NEW month \in Int, month \in 1..12,
           NEW day \in Int, day >= 1, day <= DaysInMonth(year, month)
    PROVE  /\ DayNumber(year, month, day) \in Int
           /\ DayNumber(year, month, day) <= LastDay
           /\ DayNumber(year, month, day) = LastDay =>
                  year = LastYear /\ month = 12 /\ day = 31
<1>0. year \in 1..9999
  BY DEF LastYear
<1>1. /\ DaysBeforeMonth(year, month) + day \in 1..366
      /\ ~IsLeapYear(year) => DaysBeforeMonth(year, month) + day <= 365
      /\ DaysBeforeMonth(year, month) + day >= 365 /\ ~IsLeapYear(year) =>
             month = 12 /\ day = 31
  BY DayOfYear
<1>2. PICK n \in 1..366 : n = DaysBeforeMonth(year, month) + day
  BY <1>1
<1>3. DaysBeforeMonth(year, month) \in Int /\ day \in Int
  <2>1. <<0, 31, 59, 90, 120, 151, 181, 212, 243, 273, 304, 334>>[month] \in Int
    OBVIOUS
  <2>2. DaysBeforeMonth(year, month) \in Int
    BY <2>1 DEF DaysBeforeMonth
  <2>3. QED
    BY <2>2
<1>4. CASE year = 9999
  <2>1. ~IsLeapYear(9999) /\ DaysBeforeYear(9999) = 3651694
    BY DEF IsLeapYear, DaysBeforeYear
  <2>2. DayNumber(year, month, day) = 3651694 + n
    BY <1>2, <1>3, <1>4, <2>1 DEF DayNumber
  <2>3. QED
    BY <1>1, <1>2, <1>4, <2>1, <2>2, LastDayIs DEF LastYear
<1>5. CASE year # 9999
  <2>1. DaysBeforeYear(year) \in Int /\ DaysBeforeYear(year) + 367 <= LastDay
    <3>1. year >= 1 /\ year <= 9998
      BY <1>0, <1>5
    <3>2. QED
      BY <3>1, RoomBeforeLastYear
  <2>2. DayNumber(year, month, day) =
            DaysBeforeYear(year) + DaysBeforeMonth(year, month) + day
    BY DEF DayNumber
  <2>3. DayNumber(year, month, day) = DaysBeforeYear(year) + n
    BY ONLY <1>2, <1>3, <2>1, <2>2
  <2>4. QED
    BY <2>1, <2>3, LastDayIs
<1>6. QED
  BY <1>4, <1>5

-----------------------------------------------------------------------------
(***************************************************************************)
(* parse_http_date                                                         *)
(***************************************************************************)

\* The instant of a text without its leap second.
Taken(text, year) ==
    [day |-> DayNumber(year, text.month, text.day),
     second |-> text.hour * 3600 + text.minute * 60
                    + (IF text.second = 60 THEN 59 ELSE text.second)]

LEMMA BuildInstantIs ==
    ASSUME NEW text \in CapturedTexts, NEW year \in Int
    PROVE  BuildInstant(text, year) =
               IF text.second = 60 THEN OneSecondLater(Taken(text, year))
               ELSE Taken(text, year)
<1>1. PICK u : u = [text EXCEPT !.year = year, !.second = IF @ = 60 THEN 59 ELSE @]
  OBVIOUS
<1>2. /\ u.year = year /\ u.month = text.month /\ u.day = text.day
      /\ u.hour = text.hour /\ u.minute = text.minute
      /\ u.second = IF text.second = 60 THEN 59 ELSE text.second
  BY <1>1 DEF CapturedTexts
<1>3. InstantOf(u) = Taken(text, year)
  BY <1>2 DEF InstantOf, Taken
<1>4. QED
  BY <1>1, <1>3 DEF BuildInstant

Dated(text, year) ==
    [raises |-> "nothing", value |-> BuildInstant(text, year),
     obsolete |-> text.form # "imf",
     utcAlias |-> text.form = "imf" /\ text.zone = "UTC",
     leapSecond |-> text.second = 60]

\* What parse_http_date gives for a text read in a year.
Outcome(text, year) ==
    IF ~IsCalendarTime(text, year) THEN Refused
    ELSE IF BuildInstant(text, year).day > LastDay THEN Overflowed
    ELSE IF text.weekday # ExpectedWeekday(text, year) THEN Refused
    ELSE Dated(text, year)

LEMMA ParseHttpDateIs ==
    ASSUME NEW text, NEW thisYear, NEW allowObsolete \in BOOLEAN,
           NEW allowUtc \in BOOLEAN
    PROVE  ParseHttpDate(text, thisYear, allowObsolete, allowUtc) =
               IF Admitted(text, allowObsolete, allowUtc)
               THEN Outcome(text, YearRead(text, thisYear)) ELSE Refused
  BY Zenon DEF ParseHttpDate, Outcome, Dated

LEMMA OutcomeIs ==
    ASSUME NEW text, NEW year
    PROVE  /\ Outcome(text, year).raises \in
                  {"nothing", "ValueError", "OverflowError"}
           /\ Outcome(text, year).raises = "OverflowError" =>
                  /\ Outcome(text, year) = Overflowed
                  /\ IsCalendarTime(text, year)
                  /\ BuildInstant(text, year).day > LastDay
           /\ Outcome(text, year).raises = "nothing" =>
                  /\ IsCalendarTime(text, year)
                  /\ ~(BuildInstant(text, year).day > LastDay)
                  /\ text.weekday = ExpectedWeekday(text, year)
                  /\ Outcome(text, year).value = BuildInstant(text, year)
                  /\ Outcome(text, year) = Dated(text, year)
  BY DEF Outcome, Dated, Refused, Overflowed

LEMMA TakenIs ==
    ASSUME NEW text \in CapturedTexts, NEW year \in Int, IsCalendarTime(text, year)
    PROVE  LET taken == Taken(text, year) IN
           /\ taken.day \in Int /\ taken.day <= LastDay
           /\ taken.day = LastDay =>
                  year = LastYear /\ text.month = 12 /\ text.day = 31
           /\ taken.second = text.hour * 3600 + text.minute * 60
                                + (IF text.second = 60 THEN 59 ELSE text.second)
<1>1. /\ year \in 1..LastYear /\ text.month \in 1..12
      /\ text.day >= 1 /\ text.day <= DaysInMonth(year, text.month)
      /\ text.month \in Int /\ text.day \in Int
  <2>1. text.month \in (1..12) \cup {Missing} /\ text.day \in TwoDigits
    BY DEF CapturedTexts
  <2>2. text.month \in 1..12 /\ year \in 1..LastYear
        /\ text.day \in 1..DaysInMonth(year, text.month)
    BY <2>1 DEF IsCalendarTime
  <2>3. DaysInMonth(year, text.month) \in Int
    BY <2>2 DEF DaysInMonth
  <2>4. QED
    BY <2>1, <2>2, <2>3
<1>2. /\ DayNumber(year, text.month, text.day) \in Int
      /\ DayNumber(year, text.month, text.day) <= LastDay
      /\ DayNumber(year, text.month, text.day) = LastDay =>
             year = LastYear /\ text.month = 12 /\ text.day = 31
  BY <1>1, DayInCalendar
<1>3. QED
  BY <1>2 DEF Taken

\* Nothing but the numbers of a date and its time of day make its instant.
LEMMA SameNumbers ==
    ASSUME NEW t \in CapturedTexts, NEW u \in CapturedTexts, NEW year \in Int,
           t.month = u.month, t.day = u.day, t.hour = u.hour,
           t.minute = u.minute, t.second = u.second
    PROVE  /\ IsCalendarTime(t, year) <=> IsCalendarTime(u, year)
           /\ BuildInstant(t, year) = BuildInstant(u, year)
           /\ ExpectedWeekday(t, year) = ExpectedWeekday(u, year)
<1>1. Taken(t, year) = Taken(u, year)
  BY DEF Taken
<1>2. BuildInstant(t, year) = BuildInstant(u, year)
  BY <1>1, BuildInstantIs
<1>3. QED
  BY <1>2 DEF IsCalendarTime, ExpectedWeekday

\* The next second of a leap second begins a minute, and leaves the calendar
\* only at its very end.
LEMMA LeapSecond ==
    ASSUME NEW text \in CapturedTexts, NEW year \in Int,
           IsCalendarTime(text, year), text.second = 60
    PROVE  LET instant == BuildInstant(text, year) IN
           /\ instant = OneSecondLater(Taken(text, year))
           /\ instant.second % 60 = 0
           /\ instant.day > LastDay =>
                  /\ text.minute = 59 /\ text.hour = 23
                  /\ text.day = 31 /\ text.month = 12 /\ year = LastYear
<1>1. BuildInstant(text, year) = OneSecondLater(Taken(text, year))
  BY BuildInstantIs
<1>2. PICK hour \in Int, minute \in Int :
          /\ hour = text.hour /\ minute = text.minute
          /\ hour >= 0 /\ hour < 24 /\ minute >= 0 /\ minute < 60
  BY DEF IsCalendarTime, CapturedTexts, TwoDigits
<1>3. PICK day \in Int : day = Taken(text, year).day
  BY TakenIs
<1>4. /\ day <= LastDay
      /\ day = LastDay => year = LastYear /\ text.month = 12 /\ text.day = 31
  BY <1>3, TakenIs
<1>5. Taken(text, year) = [day |-> day, second |-> hour * 3600 + minute * 60 + 59]
  BY <1>2, <1>3 DEF Taken
<1>6. OneSecondLater(Taken(text, year)) =
          IF hour * 3600 + minute * 60 + 60 < 86400
          THEN [day |-> day, second |-> hour * 3600 + minute * 60 + 60]
          ELSE [day |-> day + 1, second |-> 0]
  BY <1>2, <1>3, <1>5 DEF OneSecondLater, SecondsPerDay
<1>7. (hour * 3600 + minute * 60 + 60) % 60 = 0 /\ 0 % 60 = 0
  BY <1>2
<1>8. ASSUME BuildInstant(text, year).day > LastDay
      PROVE  minute = 59 /\ hour = 23 /\ day = LastDay
  BY <1>1, <1>2, <1>4, <1>6, <1>8, LastDayIs
<1>9. BuildInstant(text, year).second % 60 = 0
  <2>1. CASE hour * 3600 + minute * 60 + 60 < 86400
    <3>1. BuildInstant(text, year).second = hour * 3600 + minute * 60 + 60
      BY <1>1, <1>6, <2>1
    <3>2. QED
      BY ONLY <3>1, <1>7
  <2>2. CASE ~(hour * 3600 + minute * 60 + 60 < 86400)
    <3>1. BuildInstant(text, year).second = 0
      BY <1>1, <1>6, <2>2
    <3>2. QED
      BY ONLY <3>1, <1>7
  <2>3. QED
    BY <2>1, <2>2
<1>10. QED
  BY <1>1, <1>2, <1>4, <1>8, <1>9

\* A two-digit year means the year it abbreviates, within fifty of the reader's.
LEMMA TwoDigitsGiveYear ==
    ASSUME NEW thisYear \in Int, NEW year \in TwoDigitYears(thisYear)
    PROVE  YearFromRfc850(year % 100, thisYear) = year
<1>1. /\ year \in Int /\ year >= thisYear - 49 /\ year <= thisYear + 50
      /\ year \div 100 <= thisYear \div 100
  BY DEF TwoDigitYears
<1>2. PICK a \in Int, b \in Int : a = year \div 100 /\ b = thisYear \div 100
  BY <1>1
<1>3. PICK r \in Int, s \in Int :
          r = year % 100 /\ year = 100 * a + r /\ r >= 0 /\ r < 100
          /\ thisYear = 100 * b + s /\ s >= 0 /\ s < 100
  BY <1>1, <1>2
<1>4. a = b \/ a = b - 1
  BY <1>1, <1>2, <1>3
<1>5. YearFromRfc850(r, thisYear) =
          IF b * 100 + r > thisYear + 50 THEN b * 100 + r - 100 ELSE b * 100 + r
  BY <1>2 DEF YearFromRfc850
<1>6. QED
  BY <1>1, <1>3, <1>4, <1>5

-----------------------------------------------------------------------------
(***************************************************************************)
(* The fields of dates                                                     *)
(***************************************************************************)

\* What a field that occurs once, and safely, says.
SaysOf(field) == field[1].says

IsSingle(field) == field # <<>> /\ Len(field) = 1 /\ field[1].safe

\* What the parser of Sunset makes of the outcome of parse_http_date.
SunsetOf(date) ==
    IF date.raises = "OverflowError" THEN date
    ELSE IF date.raises = "ValueError" THEN Invalid("invalid_sunset_date")
    ELSE HeaderValue(IF date.utcAlias THEN "legacy" ELSE "valid",
                     date.value, FALSE, DateCodes(date))

\* What LegacyDeprecation makes of it.
DeprecationOf(date, at) ==
    IF date.raises = "OverflowError" THEN date
    ELSE IF date.raises = "ValueError" THEN Invalid("invalid_deprecation_header")
    ELSE HeaderValue("legacy", date.value, HasPassed(date.value, at),
                     {"legacy_deprecation_http_date"} \cup DateCodes(date))

LEMMA OutcomeRaises ==
    ASSUME NEW text, NEW thisYear, NEW allowObsolete \in BOOLEAN,
           NEW allowUtc \in BOOLEAN
    PROVE  LET date == ParseHttpDate(text, thisYear, allowObsolete, allowUtc) IN
           /\ date.raises \in {"nothing", "ValueError", "OverflowError"}
           /\ date.raises = "OverflowError" => date = Overflowed
           /\ date.raises # "ValueError" =>
                  /\ Admitted(text, allowObsolete, allowUtc)
                  /\ date = Outcome(text, YearRead(text, thisYear))
<1>1. CASE Admitted(text, allowObsolete, allowUtc)
  <2>1. ParseHttpDate(text, thisYear, allowObsolete, allowUtc) =
            Outcome(text, YearRead(text, thisYear))
    BY <1>1, ParseHttpDateIs
  <2>2. QED
    BY <1>1, <2>1, OutcomeIs
<1>2. CASE ~Admitted(text, allowObsolete, allowUtc)
  <2>1. ParseHttpDate(text, thisYear, allowObsolete, allowUtc) = Refused
    BY <1>2, ParseHttpDateIs
  <2>2. QED
    BY <2>1 DEF Refused
<1>3. QED
  BY <1>1, <1>2

LEMMA ParseSunsetIs ==
    ASSUME NEW field, NEW at, NEW m, IsSingle(field)
    PROVE  ParseSunset(field, at, m) =
               SunsetOf(ParseHttpDate(DateText(SaysOf(field)), at.year, TRUE,
                                      m = "compat"))
<1>1. PICK date : date = ParseHttpDate(DateText(SaysOf(field)), at.year, TRUE,
                                       m = "compat")
  OBVIOUS
<1>2. date.raises \in {"nothing", "ValueError", "OverflowError"}
  <2>1. (m = "compat") \in BOOLEAN
    OBVIOUS
  <2>2. ParseHttpDate(DateText(SaysOf(field)), at.year, TRUE, m = "compat").raises
            \in {"nothing", "ValueError", "OverflowError"}
    BY <2>1, OutcomeRaises
  <2>3. QED
    BY <1>1, <2>2
<1>3. ParseSunset(field, at, m) =
          CASE date.raises = "OverflowError" -> date
            [] date.raises = "ValueError" -> Invalid("invalid_sunset_date")
            [] IsDate(date) ->
               HeaderValue(IF date.utcAlias THEN "legacy" ELSE "valid",
                           date.value, FALSE, DateCodes(date))
  BY <1>1, Zenon DEF ParseSunset, IsSingle, SaysOf
<1>4. QED
  BY <1>1, <1>2, <1>3 DEF SunsetOf, IsDate

LEMMA ParseDeprecationIs ==
    ASSUME NEW field, NEW at, NEW m \in Modes, IsSingle(field),
           CanBeSaid(SaysOf(field)), ~IsStructuredDate(SaysOf(field))
    PROVE  ParseDeprecation(field, at, m) =
               IF m = "strict" THEN Invalid("invalid_deprecation_header")
               ELSE IF SaysOf(field).kind = "boolean"
               THEN HeaderValue("legacy", Missing, TRUE,
                                {"legacy_deprecation_boolean"})
               ELSE DeprecationOf(ParseHttpDate(DateText(SaysOf(field)), at.year,
                                                FALSE, TRUE), at)
<1>1. PICK says : says = SaysOf(field)
  OBVIOUS
<1>2. PICK date : date = ParseHttpDate(DateText(says), at.year, FALSE, TRUE)
  OBVIOUS
<1>3. date.raises \in {"nothing", "ValueError", "OverflowError"}
  BY <1>2, OutcomeRaises
<1>4. ParseDeprecation(field, at, m) =
          CASE IsStructuredDate(says) ->
                  HeaderValue("valid", says.at, HasPassed(says.at, at),
                      IF says.parameters
                      THEN {"ignored_deprecation_parameters"} ELSE {})
            [] ~IsStructuredDate(says) /\ m = "compat" ->
                   LegacyDeprecation(says, at)
            [] ~IsStructuredDate(says) /\ m = "strict" ->
                   Invalid("invalid_deprecation_header")
  BY <1>1, Zenon DEF ParseDeprecation, IsSingle, SaysOf
<1>5. ParseDeprecation(field, at, m) =
          IF m = "strict" THEN Invalid("invalid_deprecation_header")
          ELSE LegacyDeprecation(says, at)
  BY <1>1, <1>4 DEF Modes
<1>6. LegacyDeprecation(says, at) =
          IF says.kind = "boolean"
          THEN HeaderValue("legacy", Missing, TRUE, {"legacy_deprecation_boolean"})
          ELSE DeprecationOf(date, at)
  BY <1>2, <1>3 DEF LegacyDeprecation, DeprecationOf, IsDate
<1>7. QED
  BY <1>1, <1>2, <1>5, <1>6

-----------------------------------------------------------------------------
(***************************************************************************)
(* The invariant: what a scan holds is what it read                        *)
(***************************************************************************)

ScanTypeOK == now \in Nows /\ mode \in Modes

AskedAskable == stage = "asked" => request \in Urls /\ IsAskable(request)

SunsetRead ==
    sunsetField # <<>> => /\ sunsetField \in SunsetFields
                          /\ sunset = ParseSunset(sunsetField, now, mode)

DeprecationRead ==
    deprecationField # <<>> =>
        /\ deprecationField \in DeprecationFields
        /\ deprecation = ParseDeprecation(deprecationField, now, mode)

\* A scan that is past the arrival of its answer holds the Link field as sent,
\* and no target of it is malformed.
Arrived == {"retained", "sunset", "deprecation"}

LinksRead ==
    /\ stage \in Arrived \/ links # Missing =>
           linkField \in LinkFields /\ ~IsMalformed(linkField)
    /\ links # Missing => /\ stage \in {"record", "withdraw", "discard"}
                          /\ links = ParseLinks(RedactedField(linkField))

\* A scan that ended in an OverflowError was stopped by the field it read last.
Overflowing ==
    \/ /\ retryField \in RetryAfters \ {Missing}
       /\ RetryDelay(retryField, now).raises = "OverflowError"
    \/ /\ sunsetField \in SunsetFields
       /\ ParseSunset(sunsetField, now, mode).raises = "OverflowError"
    \/ /\ deprecationField \in DeprecationFields
       /\ ParseDeprecation(deprecationField, now, mode).raises = "OverflowError"

RaisedBy ==
    /\ stage # "raised" => error = "nothing"
    /\ error = "OverflowError" => Overflowing

ReadInv ==
    /\ ScanTypeOK
    /\ AskedAskable
    /\ SunsetRead
    /\ DeprecationRead
    /\ LinksRead
    /\ RaisedBy

LEMMA VerdictIs ==
    ASSUME NEW s, NEW d
    PROVE  Verdict(s, d) \in {"record", "withdraw", "discard"}
  BY DEF Verdict

LEMMA UrlRaisesIs ==
    ASSUME NEW url
    PROVE  UrlRaises(url) \in {"nothing", "ValueError", "InvalidURL"}
  BY Zenon DEF UrlRaises

LEMMA AskStep ==
    ASSUME ReadInv, NEW url \in Urls, Ask(url)
    PROVE  ReadInv'
<1>1. PICK next : next = IF Accepted(url) THEN "asked" ELSE "blocked"
  OBVIOUS
<1>2. /\ next \in {"asked", "blocked"}
      /\ next = "asked" => Accepted(url)
  <2>1. CASE Accepted(url)
    BY <1>1, <2>1
  <2>2. CASE ~Accepted(url)
    BY <1>1, <2>2
  <2>3. QED
    BY <2>1, <2>2
<1>3. /\ error' = UrlRaises(url)
      /\ stage' = IF UrlRaises(url) = "nothing" THEN next ELSE "raised"
  BY <1>1, Zenon DEF Ask, GoOnUnless
<1>4. /\ error' # "OverflowError" /\ (stage' # "raised" => error' = "nothing")
      /\ stage' \in {"asked", "blocked", "raised"}
      /\ stage' = "asked" => UrlRaises(url) = "nothing" /\ next = "asked"
  BY <1>2, <1>3, UrlRaisesIs
<1>5. stage' = "asked" => IsAskable(url)
  BY <1>2, <1>4, Zenon DEF IsAskable
<1>6. /\ request' = url /\ stage = "idle"
      /\ UNCHANGED <<now, mode, retryField, delay, sunsetField, deprecationField,
                     linkField, sunset, deprecation, links>>
  BY Zenon DEF Ask
<1>7. links' = Missing
  BY <1>6 DEF ReadInv, LinksRead
<1>8. QED
  BY <1>4, <1>5, <1>6, <1>7 DEF ReadInv, ScanTypeOK, AskedAskable, SunsetRead,
                          DeprecationRead, Arrived, LinksRead, RaisedBy

LEMMA ArriveStep ==
    ASSUME ReadInv, NEW field \in LinkFields, Arrive(field)
    PROVE  ReadInv'
<1>1. PICK raised : raised = IF IsMalformed(field) THEN "ValueError" ELSE "nothing"
  OBVIOUS
<1>2. /\ raised \in {"ValueError", "nothing"}
      /\ raised = "nothing" => ~IsMalformed(field)
  <2>1. CASE IsMalformed(field)
    BY <1>1, <2>1
  <2>2. CASE ~IsMalformed(field)
    BY <1>1, <2>2
  <2>3. QED
    BY <2>1, <2>2
<1>3. /\ stage = "asked" /\ linkField' = field
      /\ error' = raised
      /\ stage' = IF raised = "nothing" THEN "retained" ELSE "raised"
      /\ UNCHANGED <<now, mode, retryField, delay, sunsetField, deprecationField,
                     sunset, deprecation, links>>
  BY <1>1, Zenon DEF Arrive, GoOnUnless
<1>4. links' = Missing
  BY <1>3 DEF ReadInv, LinksRead
<1>5. LinksRead'
  <2>1. stage' \in Arrived => ~IsMalformed(field)
    BY <1>2, <1>3 DEF Arrived
  <2>2. stage' \in Arrived => ~IsMalformed(linkField)'
    BY <1>3, <2>1 DEF IsMalformed
  <2>3. linkField' \in LinkFields
    BY <1>3
  <2>4. QED
    BY <1>4, <2>2, <2>3 DEF LinksRead
<1>6. QED
  BY <1>2, <1>3, <1>5 DEF ReadInv, ScanTypeOK, AskedAskable, SunsetRead,
                          DeprecationRead, RaisedBy

LEMMA FailStep ==
    ASSUME ReadInv, Fail
    PROVE  ReadInv'
  BY DEF ReadInv, Fail, ScanTypeOK, AskedAskable, SunsetRead, DeprecationRead,
         Arrived, LinksRead, RaisedBy, Overflowing

LEMMA CacheRefusesStep ==
    ASSUME ReadInv, CacheRefuses
    PROVE  ReadInv'
  BY DEF ReadInv, CacheRefuses, GoOnUnless, ScanTypeOK, AskedAskable,
         SunsetRead, DeprecationRead, Arrived, LinksRead, RaisedBy, Overflowing

LEMMA AskedToWaitStep ==
    ASSUME ReadInv, NEW retryAfter \in RetryAfters, AskedToWait(retryAfter)
    PROVE  ReadInv'
<1>1. RaisedBy'
  <2>1. retryAfter = Missing => RetryDelay(retryAfter, now).raises = "nothing"
    BY DEF RetryDelay, Delay
  <2>2. QED
    BY <2>1 DEF AskedToWait, GoOnUnless, RaisedBy, Overflowing
<1>2. QED
  BY <1>1 DEF ReadInv, AskedToWait, GoOnUnless, ScanTypeOK, AskedAskable,
              SunsetRead, DeprecationRead, Arrived, LinksRead

LEMMA ReadSunsetStep ==
    ASSUME ReadInv, NEW field \in SunsetFields, ReadSunset(field)
    PROVE  ReadInv'
<1>1. RaisedBy'
  BY DEF ReadInv, ReadSunset, GoOnUnless, RaisedBy, Overflowing
<1>2. SunsetRead'
  BY DEF ReadSunset, SunsetRead
<1>3. QED
  BY <1>1, <1>2 DEF ReadInv, ReadSunset, GoOnUnless, ScanTypeOK, AskedAskable,
                    DeprecationRead, Arrived, LinksRead

LEMMA ReadDeprecationStep ==
    ASSUME ReadInv, NEW field \in DeprecationFields, ReadDeprecation(field)
    PROVE  ReadInv'
<1>1. RaisedBy'
  BY DEF ReadInv, ReadDeprecation, GoOnUnless, RaisedBy, Overflowing
<1>2. DeprecationRead'
  BY DEF ReadDeprecation, DeprecationRead
<1>3. QED
  BY <1>1, <1>2 DEF ReadInv, ReadDeprecation, GoOnUnless, ScanTypeOK,
                    AskedAskable, SunsetRead, Arrived, LinksRead

LEMMA ReadLinkFieldStep ==
    ASSUME ReadInv, ReadLinkField
    PROVE  ReadInv'
<1>1. stage' \in {"record", "withdraw", "discard"}
  BY VerdictIs DEF ReadLinkField
<1>2. QED
  BY <1>1 DEF ReadInv, ReadLinkField, ScanTypeOK, AskedAskable, SunsetRead,
              DeprecationRead, Arrived, LinksRead, RaisedBy, Overflowing

LEMMA ReadInvHolds == AnswerSpec => []ReadInv
<1>1. AnswerInit => ReadInv
  BY DEF AnswerInit, ReadInv, ScanTypeOK, AskedAskable, SunsetRead,
         DeprecationRead, Arrived, LinksRead, RaisedBy
<1>2. ReadInv /\ [AnswerNext]_answerVars => ReadInv'
  <2>1. SUFFICES ASSUME ReadInv, [AnswerNext]_answerVars PROVE ReadInv'
    OBVIOUS
  <2>2. CASE UNCHANGED answerVars
    BY <2>1, <2>2 DEF answerVars, ReadInv, ScanTypeOK, AskedAskable,
       SunsetRead, DeprecationRead, Arrived, LinksRead, RaisedBy, Overflowing
  <2>3. CASE \E url \in Urls : Ask(url)
    BY <2>1, <2>3, AskStep
  <2>4. CASE \E field \in LinkFields : Arrive(field)
    BY <2>1, <2>4, ArriveStep
  <2>5. CASE Fail
    BY <2>1, <2>5, FailStep
  <2>6. CASE \E retryAfter \in RetryAfters : AskedToWait(retryAfter)
    BY <2>1, <2>6, AskedToWaitStep
  <2>7. CASE CacheRefuses
    BY <2>1, <2>7, CacheRefusesStep
  <2>8. CASE \E field \in SunsetFields : ReadSunset(field)
    BY <2>1, <2>8, ReadSunsetStep
  <2>9. CASE \E field \in DeprecationFields : ReadDeprecation(field)
    BY <2>1, <2>9, ReadDeprecationStep
  <2>10. CASE ReadLinkField
    BY <2>1, <2>10, ReadLinkFieldStep
  <2>11. QED
    BY <2>1, <2>2, <2>3, <2>4, <2>5, <2>6, <2>7, <2>8, <2>9, <2>10
       DEF AnswerNext
<1>3. QED
  BY <1>1, <1>2, PTL DEF AnswerSpec

-----------------------------------------------------------------------------
(***************************************************************************)
(* Origins and links                                                       *)
(***************************************************************************)

\* Without a deviation, the name that is looked up and the host that is asked
\* are one.
LEMMA NamesAgree ==
    ASSUME NEW host, ~HasDeviation(host)
    PROVE  NormalizeHostname(host) = RequestedHost(host)
<1>1. \A n \in DOMAIN host.labels :
          (IF host.labels[n].spelling = "ace" THEN "kept" ELSE "folded") =
          (IF host.labels[n].spelling \in {"ace", "deviation"}
           THEN "kept" ELSE "folded")
  BY DEF HasDeviation
<1>2. QED
  BY <1>1 DEF NormalizeHostname, RequestedHost

LEMMA AcceptedScheme ==
    ASSUME NEW url \in Urls, Accepted(url)
    PROVE  url.scheme \in {"http", "https"}
<1>1. /\ Missing # "invalid_url" /\ Missing # "unsupported_scheme"
  BY AnswerReadingAssumption
<1>2. SUFFICES ASSUME url.scheme \notin {"http", "https"} PROVE FALSE
  OBVIOUS
<1>3. Violation(url) \in {"invalid_url", "unsupported_scheme"}
  BY <1>2, Zenon DEF Violation
<1>4. QED
  BY <1>1, <1>3 DEF Accepted

LEMMA OriginIs ==
    ASSUME NEW u \in Urls, NEW v \in Urls, Accepted(u), Accepted(v),
           ~HasDeviation(u.host), ~HasDeviation(v.host)
    PROVE  Origin(u) = Origin(v) <=> SameServer(u, v)
<1>1. /\ u.scheme \in {"http", "https"} /\ v.scheme \in {"http", "https"}
      /\ u.port \in Nat \cup {Missing} /\ v.port \in Nat \cup {Missing}
      /\ Missing \notin Int
  BY AcceptedScheme, AnswerReadingAssumption
<1>2. PICK standard \in Nat : standard = IF u.scheme = "https" THEN 443 ELSE 80
  OBVIOUS
<1>3. DefaultPort[u.scheme] = standard
  BY <1>1, <1>2 DEF DefaultPort
<1>4. PICK p : p = IF u.port = Missing THEN DefaultPort[u.scheme] ELSE u.port
  OBVIOUS
<1>5. PICK q : q = IF v.port = Missing THEN DefaultPort[v.scheme] ELSE v.port
  OBVIOUS
<1>6. Origin(u) = Origin(v) <=>
          /\ u.scheme = v.scheme
          /\ RequestedHost(u.host) = RequestedHost(v.host)
          /\ p = q
  <2>1. /\ NormalizeHostname(u.host) = RequestedHost(u.host)
        /\ NormalizeHostname(v.host) = RequestedHost(v.host)
    BY NamesAgree
  <2>2. QED
    BY <1>4, <1>5, <2>1 DEF Origin
<1>7. ASSUME u.scheme = v.scheme
      PROVE  p = q <=> \/ u.port = v.port
                       \/ {u.port, v.port} = {Missing, standard}
  <2>1. q = IF v.port = Missing THEN standard ELSE v.port
    BY <1>3, <1>5, <1>7
  <2>2. p = IF u.port = Missing THEN standard ELSE u.port
    BY <1>3, <1>4
  <2>3. standard # Missing
    BY <1>1
  <2>4. CASE u.port = Missing
    BY <2>1, <2>2, <2>3, <2>4
  <2>5. CASE u.port # Missing /\ v.port = Missing
    BY <2>1, <2>2, <2>3, <2>5
  <2>6. CASE u.port # Missing /\ v.port # Missing
    BY <2>1, <2>2, <2>3, <2>6
  <2>7. QED
    BY <2>4, <2>5, <2>6
<1>8. QED
  BY <1>2, <1>6, <1>7 DEF SameServer

\* Two URLs that are asked for are paced together exactly when they go to one
\* server (_ValidatedUrl.origin against httpx.URL), unless a host is spelled
\* with letters that the two IDNA standards take differently.
THEOREM PacedByServer == AnswerSpec => []OriginIdentifiesServer
<1>1. ReadInv => OriginIdentifiesServer
  <2>1. SUFFICES ASSUME ReadInv, stage = "asked", NEW url \in Urls,
                        IsAskable(url),
                        ~HasDeviation(url.host), ~HasDeviation(request.host)
                 PROVE  Origin(url) = Origin(request) <=> SameServer(url, request)
    BY Zenon DEF OriginIdentifiesServer
  <2>2. /\ request \in Urls /\ Accepted(request) /\ Accepted(url)
    BY <2>1, Zenon DEF ReadInv, AskedAskable, IsAskable
  <2>3. QED
    BY <2>1, <2>2, OriginIs
<1>2. QED
  BY <1>1, ReadInvHolds, PTL

\* What redaction leaves of a link fails exactly if the link, as it was sent,
\* stops the parser; its relations and its url are kept.
LEMMA RedactedLink ==
    ASSUME NEW link, IsLink(link), link.target # "malformed"
    PROVE  /\ LinkFails(RedactLink(link)) <=> StopsParser(link)
           /\ IsPolicyLink(RedactLink(link)) <=> IsPolicyLink(link)
           /\ RedactLink(link).url = link.url
<1>1. PICK redacted : redacted = RedactLink(link)
  OBVIOUS
<1>2. link.target \in {"absolute", "credentials", "relative", "hostless",
                       "foreign", "unreadable"}
  BY DEF IsLink, Targets, RedactedTarget
<1>3. /\ redacted.target = RedactedTarget[link.target]
      /\ redacted.relations = link.relations /\ redacted.url = link.url
      /\ redacted.wellFormed = link.wellFormed
  BY <1>1 DEF RedactLink, IsLink
<1>4. /\ redacted.target = "invalid" <=> link.target = "unreadable"
      /\ redacted.target = "foreign" <=> link.target = "foreign"
  BY <1>2, <1>3 DEF RedactedTarget
<1>5. IsPolicyLink(redacted) <=> IsPolicyLink(link)
  BY <1>3 DEF IsPolicyLink
<1>6. LinkFails(redacted) <=> StopsParser(link)
  BY <1>3, <1>4, <1>5, Zenon DEF LinkFails, StopsParser
<1>7. QED
  BY <1>1, <1>3, <1>5, <1>6

\* The occurrences of a field and their values stay in their places.
LEMMA RedactedPlaces ==
    ASSUME NEW field, IsLinkField(field), NEW n \in DOMAIN field
    PROVE  LET redacted == RedactedField(field)[n] IN
           /\ n \in DOMAIN RedactedField(field)
           /\ redacted.safe = field[n].safe
           /\ redacted.balanced = field[n].balanced
           /\ DOMAIN redacted.values = DOMAIN field[n].values
           /\ \A m \in DOMAIN field[n].values :
                  redacted.values[m] = RedactLink(field[n].values[m])
<1>1. PICK values : values = [m \in DOMAIN field[n].values |->
                                  RedactLink(field[n].values[m])]
  OBVIOUS
<1>2. n \in DOMAIN RedactedField(field)
      /\ RedactedField(field)[n] = RedactOccurrence(field[n])
  BY DEF RedactedField
<1>3. RedactOccurrence(field[n]) = [field[n] EXCEPT !.values = values]
  BY <1>1, Zenon DEF RedactOccurrence
<1>4. DOMAIN field[n] = {"safe", "balanced", "values"}
  BY DEF IsLinkField
<1>5. LET redacted == [field[n] EXCEPT !.values = values] IN
      /\ redacted.safe = field[n].safe
      /\ redacted.balanced = field[n].balanced
      /\ redacted.values = values
  BY <1>4
<1>6. DOMAIN values = DOMAIN field[n].values
      /\ \A m \in DOMAIN field[n].values :
             values[m] = RedactLink(field[n].values[m])
  BY <1>1
<1>7. QED
  BY <1>2, <1>3, <1>5, <1>6, Zenon

LEMMA LinkReadOrReported ==
    ASSUME NEW field, NEW n \in DOMAIN field,
           NEW m \in DOMAIN field[n].values,
           IsPolicyLink(field[n].values[m]),
           field[n].values[m].url \notin ParseLinks(field).urls
    PROVE  /\ ParseLinks(field).codes # {}
           /\ \/ ~field[n].safe \/ ~field[n].balanced
              \/ \E l \in 1..m : LinkFails(field[n].values[l])
<1>1. PICK occurrence : occurrence = field[n]
  OBVIOUS
<1>2. /\ OccurrenceUrls(occurrence) \subseteq ParseLinks(field).urls
      /\ OccurrenceCodes(occurrence) \subseteq ParseLinks(field).codes
  BY <1>1 DEF ParseLinks
<1>3. occurrence.values[m].url \notin OccurrenceUrls(occurrence)
  BY <1>1, <1>2
<1>4. CASE ~occurrence.safe
  BY <1>1, <1>2, <1>4 DEF OccurrenceCodes
<1>5. CASE occurrence.safe /\ ~occurrence.balanced
  BY <1>1, <1>2, <1>5 DEF OccurrenceCodes
<1>6. CASE occurrence.safe /\ occurrence.balanced
  <2>1. m \notin ReadLinks(occurrence)
    BY <1>1, <1>3, <1>6, Zenon DEF OccurrenceUrls
  <2>2. \E l \in 1..m : LinkFails(occurrence.values[l])
    BY <1>1, <2>1, Zenon DEF ReadLinks
  <2>3. ReadLinks(occurrence) # DOMAIN occurrence.values
    BY <1>1, <2>1, Zenon
  <2>4. OccurrenceCodes(occurrence) = {"invalid_link_header"}
    BY <1>6, <2>3, Zenon DEF OccurrenceCodes
  <2>5. ParseLinks(field).codes # {}
    BY <1>2, <2>4
  <2>6. QED
    BY <1>1, <2>2, <2>5, Zenon
<1>7. QED
  BY <1>4, <1>5, <1>6, Zenon

\* Of the Link field of an answer, as it was sent, no policy link is lost
\* without a diagnostic, and a defect costs only what follows it in its
\* occurrence (_redact_link_header and parse_documentation_links together).
THEOREM NoLinkLostSilently == AnswerSpec => []LinksKeptOrReported
<1>1. ReadInv => LinksKeptOrReported
  <2>1. SUFFICES ASSUME ReadInv, links # Missing,
                        NEW n \in DOMAIN linkField,
                        NEW m \in DOMAIN linkField[n].values,
                        IsPolicyLink(linkField[n].values[m]),
                        linkField[n].values[m].url \notin links.urls
                 PROVE  /\ links.codes # {}
                        /\ \/ ~linkField[n].safe \/ ~linkField[n].balanced
                           \/ \E l \in 1..m : StopsParser(linkField[n].values[l])
    BY Zenon DEF LinksKeptOrReported
  <2>2. /\ linkField \in LinkFields /\ ~IsMalformed(linkField)
        /\ links = ParseLinks(RedactedField(linkField))
    BY <2>1 DEF ReadInv, LinksRead
  <2>3. IsLinkField(linkField)
    BY <2>2, AnswerReadingAssumption
  <2>4. \A l \in DOMAIN linkField[n].values :
            /\ IsLink(linkField[n].values[l])
            /\ linkField[n].values[l].target # "malformed"
    BY <2>1, <2>2, <2>3 DEF IsLinkField, IsMalformed
  <2>5. PICK redacted : redacted = RedactedField(linkField)
    OBVIOUS
  <2>6. /\ n \in DOMAIN redacted
        /\ redacted[n].safe = linkField[n].safe
        /\ redacted[n].balanced = linkField[n].balanced
        /\ DOMAIN redacted[n].values = DOMAIN linkField[n].values
        /\ \A l \in DOMAIN linkField[n].values :
               redacted[n].values[l] = RedactLink(linkField[n].values[l])
    BY <2>1, <2>3, <2>5, RedactedPlaces
  <2>7. \A l \in DOMAIN linkField[n].values :
            /\ LinkFails(redacted[n].values[l]) <=>
                   StopsParser(linkField[n].values[l])
            /\ IsPolicyLink(redacted[n].values[l]) <=>
                   IsPolicyLink(linkField[n].values[l])
            /\ redacted[n].values[l].url = linkField[n].values[l].url
    BY <2>4, <2>6, RedactedLink
  <2>8. /\ m \in DOMAIN redacted[n].values
        /\ IsPolicyLink(redacted[n].values[m])
        /\ redacted[n].values[m].url \notin ParseLinks(redacted).urls
    BY <2>1, <2>2, <2>5, <2>6, <2>7
  <2>9. /\ ParseLinks(redacted).codes # {}
        /\ \/ ~redacted[n].safe \/ ~redacted[n].balanced
           \/ \E l \in 1..m : LinkFails(redacted[n].values[l])
    BY <2>6, <2>8, LinkReadOrReported
  <2>10. 1..m \subseteq DOMAIN linkField[n].values
    BY <2>1, <2>3 DEF IsLinkField
  <2>11. \/ ~linkField[n].safe \/ ~linkField[n].balanced
         \/ \E l \in 1..m : StopsParser(linkField[n].values[l])
    BY <2>6, <2>7, <2>9, <2>10, Zenon
  <2>12. QED
    BY <2>2, <2>5, <2>9, <2>11, Zenon
<1>2. QED
  BY <1>1, ReadInvHolds, PTL

-----------------------------------------------------------------------------
(***************************************************************************)
(* Strict and compat mode                                                  *)
(***************************************************************************)

LEMMA SinglesRead ==
    ASSUME NEW field, NEW at, NEW m, ~IsSingle(field)
    PROVE  /\ ParseSunset(field, at, m) =
                  IF field = <<>> THEN Absent
                  ELSE IF Len(field) # 1 THEN Invalid("duplicate_sunset_header")
                  ELSE Invalid("unsafe_sunset_header")
           /\ ParseDeprecation(field, at, m) =
                  IF field = <<>> THEN Absent
                  ELSE IF Len(field) # 1 THEN Invalid("duplicate_deprecation_header")
                  ELSE Invalid("unsafe_deprecation_header")
<1>1. CASE field = <<>>
  BY <1>1, Zenon DEF ParseSunset, ParseDeprecation
<1>2. CASE field # <<>> /\ Len(field) # 1
  BY <1>2, Zenon DEF ParseSunset, ParseDeprecation
<1>3. CASE field # <<>> /\ Len(field) = 1
  <2>1. ~field[1].safe
    BY <1>3 DEF IsSingle
  <2>2. QED
    BY <1>3, <2>1, Zenon DEF ParseSunset, ParseDeprecation
<1>4. QED
  BY <1>1, <1>2, <1>3, Zenon

LEMMA SunsetExtends ==
    ASSUME NEW field, NEW at
    PROVE  Extends(ParseSunset(field, at, "compat"), ParseSunset(field, at, "strict"))
<1>1. CASE ~IsSingle(field)
  <2>1. ParseSunset(field, at, "compat") = ParseSunset(field, at, "strict")
    BY <1>1, SinglesRead
  <2>2. QED
    BY <2>1 DEF Extends
<1>2. CASE IsSingle(field)
  <2>1. PICK text : text = DateText(SaysOf(field))
    OBVIOUS
  <2>2. PICK compat : compat = ParseHttpDate(text, at.year, TRUE, TRUE)
    OBVIOUS
  <2>3. PICK strict : strict = ParseHttpDate(text, at.year, TRUE, FALSE)
    OBVIOUS
  <2>4. ParseSunset(field, at, "compat") = SunsetOf(compat)
    <3>1. ("compat" = "compat") = TRUE
      OBVIOUS
    <3>2. QED
      BY <1>2, <2>1, <2>2, <3>1, ParseSunsetIs
  <2>5. ParseSunset(field, at, "strict") = SunsetOf(strict)
    <3>1. ("strict" = "compat") = FALSE
      OBVIOUS
    <3>2. QED
      BY <1>2, <2>1, <2>3, <3>1, ParseSunsetIs
  <2>6. CASE Admitted(text, TRUE, FALSE)
    <3>1. Admitted(text, TRUE, TRUE)
      BY <2>6 DEF Admitted
    <3>2. compat = strict
      BY <2>2, <2>3, <2>6, <3>1, ParseHttpDateIs
    <3>3. QED
      BY <2>4, <2>5, <3>2 DEF Extends
  <2>7. CASE ~Admitted(text, TRUE, FALSE)
    <3>1. SunsetOf(strict) = Invalid("invalid_sunset_date")
      <4>1. strict = Refused
        BY <2>3, <2>7, ParseHttpDateIs
      <4>2. strict.raises = "ValueError"
        BY <4>1 DEF Refused
      <4>3. QED
        BY <4>2 DEF SunsetOf
    <3>2. SunsetOf(strict).raises = "nothing" /\ ~IsAccepted(SunsetOf(strict))
      BY <3>1 DEF Invalid, HeaderValue, IsAccepted
    <3>3. ASSUME SunsetOf(compat).raises = "nothing", IsAccepted(SunsetOf(compat))
          PROVE  SunsetOf(compat).status = "legacy" /\ SunsetOf(compat).codes # {}
      <4>1. /\ compat.raises \in {"nothing", "ValueError", "OverflowError"}
            /\ compat.raises = "OverflowError" => compat = Overflowed
            /\ compat.raises # "ValueError" =>
                   /\ Admitted(text, TRUE, TRUE)
                   /\ compat = Outcome(text, YearRead(text, at.year))
        BY <2>2, OutcomeRaises
      <4>2. compat.raises # "ValueError"
        BY <3>3 DEF SunsetOf, Invalid, HeaderValue, IsAccepted
      <4>3. compat.raises # "OverflowError"
        BY <3>3 DEF SunsetOf
      <4>4. text.form = "imf" /\ text.zone = "UTC"
        BY <2>7, <4>1, <4>2 DEF Admitted
      <4>5. compat.utcAlias = TRUE
        <5>1. (text.form = "imf" /\ text.zone = "UTC") = TRUE
          BY <4>4
        <5>2. \A value, obsolete, leapSecond, utcAlias :
                  [raises |-> "nothing", value |-> value, obsolete |-> obsolete,
                   utcAlias |-> utcAlias, leapSecond |-> leapSecond].utcAlias
                      = utcAlias
          OBVIOUS
        <5>3. compat = Dated(text, YearRead(text, at.year))
          <6>1. compat = Outcome(text, YearRead(text, at.year))
                /\ compat.raises = "nothing"
            BY <4>1, <4>2, <4>3
          <6>2. QED
            BY <6>1, OutcomeIs
        <5>4. QED
          BY <5>1, <5>2, <5>3, Zenon DEF Dated
      <4>6. SunsetOf(compat) = HeaderValue("legacy", compat.value, FALSE,
                                           DateCodes(compat))
        BY <4>2, <4>3, <4>5 DEF SunsetOf
      <4>7. "utc_timezone_alias" \in DateCodes(compat)
        BY <4>5 DEF DateCodes
      <4>8. QED
        BY <4>6, <4>7 DEF HeaderValue
    <3>4. QED
      BY <2>4, <2>5, <3>2, <3>3 DEF Extends
  <2>8. QED
    BY <2>6, <2>7
<1>3. QED
  BY <1>1, <1>2

LEMMA DeprecationExtends ==
    ASSUME NEW field, NEW at, field # <<>> => IsDateField(field)
    PROVE  Extends(ParseDeprecation(field, at, "compat"),
                   ParseDeprecation(field, at, "strict"))
<1>1. CASE ~IsSingle(field)
  <2>1. ParseDeprecation(field, at, "compat") = ParseDeprecation(field, at, "strict")
    BY <1>1, SinglesRead
  <2>2. QED
    BY <2>1 DEF Extends
<1>2. CASE IsSingle(field) /\ IsStructuredDate(SaysOf(field))
  <2>1. ParseDeprecation(field, at, "compat") = ParseDeprecation(field, at, "strict")
    <3>1. \A m : ParseDeprecation(field, at, m) =
              HeaderValue("valid", SaysOf(field).at, HasPassed(SaysOf(field).at, at),
                  IF SaysOf(field).parameters
                  THEN {"ignored_deprecation_parameters"} ELSE {})
      BY <1>2, Zenon DEF ParseDeprecation, IsSingle, SaysOf
    <3>2. QED
      BY <3>1, Zenon
  <2>2. QED
    BY <2>1 DEF Extends
<1>3. CASE IsSingle(field) /\ ~IsStructuredDate(SaysOf(field))
  <2>1. CanBeSaid(SaysOf(field))
    BY <1>3 DEF IsSingle, IsDateField, SaysOf
  <2>2. PICK compat : compat = ParseDeprecation(field, at, "compat")
    OBVIOUS
  <2>3. PICK strict : strict = ParseDeprecation(field, at, "strict")
    OBVIOUS
  <2>4. strict = Invalid("invalid_deprecation_header")
    BY <1>3, <2>1, <2>3, ParseDeprecationIs DEF Modes
  <2>5. strict.raises = "nothing" /\ ~IsAccepted(strict)
    BY <2>4 DEF Invalid, HeaderValue, IsAccepted
  <2>6. PICK date : date = ParseHttpDate(DateText(SaysOf(field)), at.year, FALSE, TRUE)
    OBVIOUS
  <2>7. compat = IF SaysOf(field).kind = "boolean"
                 THEN HeaderValue("legacy", Missing, TRUE,
                                  {"legacy_deprecation_boolean"})
                 ELSE DeprecationOf(date, at)
    BY <1>3, <2>1, <2>2, <2>6, ParseDeprecationIs DEF Modes
  <2>8. ASSUME compat.raises = "nothing", IsAccepted(compat)
        PROVE  compat.status = "legacy" /\ compat.codes # {}
    <3>1. CASE SaysOf(field).kind = "boolean"
      BY <2>7, <3>1 DEF HeaderValue
    <3>2. CASE SaysOf(field).kind # "boolean"
      <4>1. compat = DeprecationOf(date, at)
        BY <2>7, <3>2
      <4>2. date.raises # "OverflowError" /\ date.raises # "ValueError"
        BY <2>8, <4>1 DEF DeprecationOf, Invalid, HeaderValue, IsAccepted
      <4>3. QED
        BY <4>1, <4>2 DEF DeprecationOf, HeaderValue
    <3>3. QED
      BY <3>1, <3>2
  <2>9. QED
    BY <2>2, <2>3, <2>5, <2>8 DEF Extends
<1>4. QED
  BY <1>1, <1>2, <1>3

\* Compat mode reads what strict mode reads, and as the same; what it reads
\* beyond that is legacy and has a diagnostic (parse_lifecycle_headers).
THEOREM CompatOnlyAdds == AnswerSpec => []CompatExtendsStrict
<1>1. ReadInv => CompatExtendsStrict
  <2>1. SUFFICES ASSUME ReadInv PROVE CompatExtendsStrict
    OBVIOUS
  <2>2. deprecationField # <<>> => IsDateField(deprecationField)
    BY <2>1, AnswerReadingAssumption DEF ReadInv, DeprecationRead
  <2>3. QED
    BY <2>2, SunsetExtends, DeprecationExtends DEF CompatExtendsStrict
<1>2. QED
  BY <1>1, ReadInvHolds, PTL

-----------------------------------------------------------------------------
(***************************************************************************)
(* Spellings and leap seconds                                              *)
(***************************************************************************)

\* A text of a field of dates is the one thing the field says.
LEMMA DateTextsAre ==
    ASSUME NEW field, IsDateField(field), NEW text \in DateTexts(field)
    PROVE  /\ IsSingle(field)
           /\ text \in CapturedTexts
           /\ DateText(SaysOf(field)) = text
<1>1. /\ Len(field) = 1 /\ field[1].safe
      /\ field[1].says.kind = "date" /\ field[1].says.text.form # "other"
      /\ text = field[1].says.text
  BY DEF DateTexts
<1>2. field # <<>>
  <2>1. Len(<<>>) = 0
    OBVIOUS
  <2>2. QED
    BY ONLY <1>1, <2>1
<1>3. CanBeSaid(field[1].says)
  BY <1>1 DEF IsDateField
<1>4. QED
  BY <1>1, <1>2, <1>3 DEF IsSingle, SaysOf, DateText, CanBeSaid

LEMMA YearReadIs ==
    ASSUME NEW text \in CapturedTexts, NEW thisYear \in Int
    PROVE  YearRead(text, thisYear) \in Int
<1>1. text.year \in Int
  <2>1. text.year \in FourDigits
    BY DEF CapturedTexts
  <2>2. \A year \in FourDigits : year \in Int
    BY DEF FourDigits
  <2>3. QED
    BY ONLY <2>1, <2>2, Zenon
<1>2. YearFromRfc850(text.year, thisYear) \in Int
  BY <1>1 DEF YearFromRfc850
<1>3. QED
  BY <1>1, <1>2 DEF YearRead

\* The texts of Sunset fields that a mode admits.
AdmittedIn(text, m) == Admitted(text, TRUE, m = "compat")

\* What the reading of a date text holds when it is accepted.
LEMMA AcceptedSunset ==
    ASSUME NEW field, NEW at, NEW m, IsSingle(field),
           ParseSunset(field, at, m).raises = "nothing",
           IsAccepted(ParseSunset(field, at, m)),
           NEW text, text = DateText(SaysOf(field)),
           NEW year, year = YearRead(text, at.year)
    PROVE  /\ AdmittedIn(text, m)
           /\ IsCalendarTime(text, year)
           /\ ~(BuildInstant(text, year).day > LastDay)
           /\ text.weekday = ExpectedWeekday(text, year)
           /\ ParseSunset(field, at, m).value = BuildInstant(text, year)
<1>3. PICK date : date = ParseHttpDate(text, at.year, TRUE, m = "compat")
  OBVIOUS
<1>4. ParseSunset(field, at, m) = SunsetOf(date)
  BY <1>3, ParseSunsetIs
<1>5. /\ date.raises \in {"nothing", "ValueError", "OverflowError"}
      /\ date.raises # "ValueError" =>
             AdmittedIn(text, m) /\ date = Outcome(text, year)
  <2>1. PICK allowUtc \in BOOLEAN : allowUtc = (m = "compat")
    OBVIOUS
  <2>2. /\ date = ParseHttpDate(text, at.year, TRUE, allowUtc)
        /\ Admitted(text, TRUE, allowUtc) => AdmittedIn(text, m)
    BY <1>3, <2>1, Zenon DEF AdmittedIn
  <2>3. /\ date.raises \in {"nothing", "ValueError", "OverflowError"}
        /\ date.raises # "ValueError" =>
               /\ Admitted(text, TRUE, allowUtc)
               /\ date = Outcome(text, YearRead(text, at.year))
    BY ONLY <2>2, allowUtc \in BOOLEAN, OutcomeRaises
  <2>4. QED
    BY <2>2, <2>3, Zenon
<1>6. date.raises # "ValueError"
  BY <1>4 DEF SunsetOf, Invalid, HeaderValue, IsAccepted
<1>7. date.raises # "OverflowError"
  BY <1>4 DEF SunsetOf
<1>8. /\ AdmittedIn(text, m)
      /\ Outcome(text, year).raises = "nothing" /\ date = Outcome(text, year)
  BY <1>5, <1>6, <1>7
<1>9. /\ IsCalendarTime(text, year)
      /\ ~(BuildInstant(text, year).day > LastDay)
      /\ text.weekday = ExpectedWeekday(text, year)
      /\ Outcome(text, year).value = BuildInstant(text, year)
  BY <1>8, OutcomeIs
<1>10. SunsetOf(date).value = date.value
  BY <1>6, <1>7 DEF SunsetOf, HeaderValue
<1>11. QED
  BY <1>4, <1>8, <1>9, <1>10

\* A right text that the mode admits is read as its instant.
LEMMA RightTextIsRead ==
    ASSUME NEW text, NEW year, AdmittedIn(text, mode),
           year = YearRead(text, now.year),
           IsCalendarTime(text, year),
           ~(BuildInstant(text, year).day > LastDay),
           text.weekday = ExpectedWeekday(text, year)
    PROVE  Read(text).value = BuildInstant(text, year)
<1>1. PICK field : field = <<[safe |-> TRUE,
                              says |-> [kind |-> "date", text |-> text]]>>
  OBVIOUS
<1>2. IsSingle(field) /\ SaysOf(field) = [kind |-> "date", text |-> text]
  BY <1>1 DEF IsSingle, SaysOf
<1>3. DateText(SaysOf(field)) = text
  BY <1>2 DEF DateText
<1>4. PICK date : date = ParseHttpDate(text, now.year, TRUE, mode = "compat")
  OBVIOUS
<1>5. Read(text) = SunsetOf(date)
  <2>1. Read(text) = ParseSunset(field, now, mode)
    BY <1>1, Zenon DEF Read
  <2>2. ParseSunset(field, now, mode) =
            SunsetOf(ParseHttpDate(DateText(SaysOf(field)), now.year, TRUE,
                                   mode = "compat"))
    BY <1>2, ParseSunsetIs
  <2>3. QED
    BY <1>3, <1>4, <2>1, <2>2, Zenon
<1>6. date = Outcome(text, year)
  <2>1. PICK allowUtc \in BOOLEAN : allowUtc = (mode = "compat")
    OBVIOUS
  <2>2. date = ParseHttpDate(text, now.year, TRUE, allowUtc)
        /\ Admitted(text, TRUE, allowUtc)
    BY <1>4, <2>1, Zenon DEF AdmittedIn
  <2>3. QED
    BY <2>2, ParseHttpDateIs
<1>7. Outcome(text, year) = Dated(text, year)
  BY DEF Outcome
<1>8. date.raises = "nothing" /\ date.value = BuildInstant(text, year)
  BY <1>6, <1>7 DEF Dated
<1>9. QED
  BY <1>5, <1>8 DEF SunsetOf, HeaderValue

\* What the scan holds of a Sunset field it accepted.
LEMMA SunsetHeld ==
    ASSUME ReadInv, NEW text \in DateTexts(sunsetField),
           sunset.raises = "nothing", IsAccepted(sunset)
    PROVE  LET year == YearRead(text, now.year) IN
           /\ text \in CapturedTexts /\ now.year \in Int /\ year \in Int
           /\ AdmittedIn(text, mode)
           /\ IsCalendarTime(text, year)
           /\ ~(BuildInstant(text, year).day > LastDay)
           /\ text.weekday = ExpectedWeekday(text, year)
           /\ sunset.value = BuildInstant(text, year)
<1>1. sunsetField # <<>>
  <2>1. Len(<<>>) = 0
    OBVIOUS
  <2>2. Len(sunsetField) = 1
    BY DEF DateTexts
  <2>3. QED
    BY ONLY <2>1, <2>2
<1>2. /\ sunsetField \in SunsetFields
      /\ sunset = ParseSunset(sunsetField, now, mode) /\ now \in Nows
  BY <1>1 DEF ReadInv, SunsetRead, ScanTypeOK
<1>3. IsDateField(sunsetField)
  BY <1>2, AnswerReadingAssumption
<1>4. IsSingle(sunsetField) /\ text \in CapturedTexts
      /\ DateText(SaysOf(sunsetField)) = text
  BY <1>3, DateTextsAre
<1>5. now.year \in Int
  <2>1. now.year \in 1..LastYear
    BY <1>2, AnswerReadingAssumption
  <2>2. \A year \in 1..LastYear : year \in Int
    BY DEF LastYear
  <2>3. QED
    BY <2>1, <2>2, Zenon
<1>6. YearRead(text, now.year) \in Int
  BY <1>4, <1>5, YearReadIs
<1>7. /\ ParseSunset(sunsetField, now, mode).raises = "nothing"
      /\ IsAccepted(ParseSunset(sunsetField, now, mode))
  BY <1>2
<1>8. /\ AdmittedIn(text, mode)
      /\ IsCalendarTime(text, YearRead(text, now.year))
      /\ ~(BuildInstant(text, YearRead(text, now.year)).day > LastDay)
      /\ text.weekday = ExpectedWeekday(text, YearRead(text, now.year))
      /\ ParseSunset(sunsetField, now, mode).value =
             BuildInstant(text, YearRead(text, now.year))
  <2>1. PICK year : year = YearRead(text, now.year)
    OBVIOUS
  <2>2. /\ AdmittedIn(text, mode)
        /\ IsCalendarTime(text, year)
        /\ ~(BuildInstant(text, year).day > LastDay)
        /\ text.weekday = ExpectedWeekday(text, year)
        /\ ParseSunset(sunsetField, now, mode).value = BuildInstant(text, year)
    BY ONLY <1>4, <1>7, <2>1, AcceptedSunset
  <2>3. QED
    BY <2>1, <2>2, Zenon
<1>9. QED
  BY <1>2, <1>4, <1>5, <1>6, <1>8

LEMMA SpellingRead ==
    ASSUME NEW t \in CapturedTexts, NEW u \in CapturedTexts, NEW year \in Int,
           t.month = u.month, t.day = u.day, t.hour = u.hour,
           t.minute = u.minute, t.second = u.second, t.weekday = u.weekday,
           u.form \in {"rfc850", "asctime"}, YearRead(u, now.year) = year,
           IsCalendarTime(t, year), ~(BuildInstant(t, year).day > LastDay),
           t.weekday = ExpectedWeekday(t, year)
    PROVE  Read(u).value = BuildInstant(t, year)
<1>1. /\ IsCalendarTime(u, year) /\ BuildInstant(u, year) = BuildInstant(t, year)
      /\ ExpectedWeekday(u, year) = ExpectedWeekday(t, year)
  BY SameNumbers
<1>2. AdmittedIn(u, mode)
  BY DEF Admitted, AdmittedIn
<1>3. QED
  BY <1>1, <1>2, RightTextIsRead

LEMMA AnotherYear ==
    ASSUME NEW Forms, NEW Weekdays, NEW Years, NEW Months, NEW Numbers, NEW Zones,
           NEW t \in [form : Forms, weekday : Weekdays, year : Years,
                      month : Months, day : Numbers, hour : Numbers,
                      minute : Numbers, second : Numbers, zone : Zones],
           NEW year \in Years
    PROVE  [t EXCEPT !.year = year] \in
               [form : Forms, weekday : Weekdays, year : Years,
                month : Months, day : Numbers, hour : Numbers,
                minute : Numbers, second : Numbers, zone : Zones]
  OBVIOUS

LEMMA TwoDigitSpelling ==
    ASSUME NEW text \in CapturedTexts, NEW digits \in FourDigits
    PROVE  LET u == [text EXCEPT !.form = "rfc850", !.year = digits] IN
           /\ u \in CapturedTexts /\ u.form = "rfc850" /\ u.year = digits
           /\ text.month = u.month /\ text.day = u.day /\ text.hour = u.hour
           /\ text.minute = u.minute /\ text.second = u.second
           /\ text.weekday = u.weekday
<1>1. PICK v : v = [text EXCEPT !.form = "rfc850"]
  OBVIOUS
<1>2. /\ v \in CapturedTexts /\ v.form = "rfc850"
      /\ text.month = v.month /\ text.day = v.day /\ text.hour = v.hour
      /\ text.minute = v.minute /\ text.second = v.second
      /\ text.weekday = v.weekday
  BY <1>1 DEF CapturedTexts
<1>3. PICK u : u = [v EXCEPT !.year = digits]
  OBVIOUS
<1>4. u \in CapturedTexts
  BY <1>2, <1>3, AnotherYear DEF CapturedTexts
<1>5. /\ v.form = u.form /\ u.year = digits
      /\ v.month = u.month /\ v.day = u.day /\ v.hour = u.hour
      /\ v.minute = u.minute /\ v.second = u.second /\ v.weekday = u.weekday
  BY <1>2, <1>3 DEF CapturedTexts
<1>6. u = [text EXCEPT !.form = "rfc850", !.year = digits]
  BY <1>1, <1>3
<1>7. QED
  BY <1>2, <1>4, <1>5, <1>6

\* An accepted Sunset date spelled as asctime does, or with a two-digit year
\* that abbreviates its own, is the same instant (parse_http_date).
THEOREM SpellingsAreOneInstant == AnswerSpec => []SpellingsAgree
<1>1. ReadInv => SpellingsAgree
  <2>1. SUFFICES ASSUME ReadInv, NEW text \in DateTexts(sunsetField),
                        text.form = "imf", sunset.raises = "nothing",
                        IsAccepted(sunset)
                 PROVE  /\ Read(InAsctime(text)).value = sunset.value
                        /\ text.year \in TwoDigitYears(now.year) =>
                               Read(InRfc850(text)).value = sunset.value
    BY Zenon DEF SpellingsAgree
  <2>2. YearRead(text, now.year) = text.year
    BY <2>1 DEF YearRead
  <2>3. /\ text \in CapturedTexts /\ now.year \in Int /\ text.year \in Int
        /\ IsCalendarTime(text, text.year)
        /\ ~(BuildInstant(text, text.year).day > LastDay)
        /\ text.weekday = ExpectedWeekday(text, text.year)
        /\ sunset.value = BuildInstant(text, text.year)
    BY <2>1, <2>2, SunsetHeld
  <2>4. Read(InAsctime(text)).value = sunset.value
    <3>1. PICK u : u = InAsctime(text)
      OBVIOUS
    <3>2. /\ u \in CapturedTexts /\ u.form = "asctime" /\ u.year = text.year
          /\ text.month = u.month /\ text.day = u.day /\ text.hour = u.hour
          /\ text.minute = u.minute /\ text.second = u.second
          /\ text.weekday = u.weekday
      BY <2>3, <3>1 DEF InAsctime, CapturedTexts
    <3>3. YearRead(u, now.year) = text.year
      BY <3>2 DEF YearRead
    <3>4. Read(u).value = BuildInstant(text, text.year)
      BY <2>3, <3>2, <3>3, SpellingRead
    <3>5. QED
      BY <2>3, <3>1, <3>4
  <2>5. ASSUME text.year \in TwoDigitYears(now.year)
        PROVE  Read(InRfc850(text)).value = sunset.value
    <3>1. PICK u : u = InRfc850(text)
      OBVIOUS
    <3>2. /\ u \in CapturedTexts /\ u.form = "rfc850" /\ u.year = text.year % 100
          /\ text.month = u.month /\ text.day = u.day /\ text.hour = u.hour
          /\ text.minute = u.minute /\ text.second = u.second
          /\ text.weekday = u.weekday
      <4>1. text.year % 100 \in FourDigits
        BY <2>3 DEF FourDigits
      <4>2. LET w == [text EXCEPT !.form = "rfc850", !.year = text.year % 100] IN
            /\ w \in CapturedTexts /\ w.form = "rfc850"
            /\ w.year = text.year % 100
            /\ text.month = w.month /\ text.day = w.day /\ text.hour = w.hour
            /\ text.minute = w.minute /\ text.second = w.second
            /\ text.weekday = w.weekday
        BY ONLY <2>3, <4>1, TwoDigitSpelling
      <4>3. QED
        BY <3>1, <4>2 DEF InRfc850
    <3>3. YearRead(u, now.year) = YearFromRfc850(text.year % 100, now.year)
      BY <3>2 DEF YearRead
    <3>4. YearRead(u, now.year) = text.year
      BY <2>3, <2>5, <3>3, TwoDigitsGiveYear
    <3>5. Read(u).value = BuildInstant(text, text.year)
      BY <2>3, <3>2, <3>4, SpellingRead
    <3>6. QED
      BY <2>3, <3>1, <3>5
  <2>6. QED
    BY <2>4, <2>5
<1>2. QED
  BY <1>1, ReadInvHolds, PTL

\* The 59th second of the minute whose leap second was accepted is read too.
LEMMA SecondBefore ==
    ASSUME ReadInv, NEW text \in DateTexts(sunsetField), text.second = 60,
           sunset.raises = "nothing", IsAccepted(sunset)
    PROVE  /\ sunset.value = OneSecondLater(Read([text EXCEPT !.second = 59]).value)
           /\ sunset.value.second % 60 = 0
<1>1. PICK year : year = YearRead(text, now.year)
  OBVIOUS
<1>2. /\ text \in CapturedTexts /\ now.year \in Int /\ year \in Int
      /\ AdmittedIn(text, mode)
      /\ IsCalendarTime(text, year)
      /\ text.weekday = ExpectedWeekday(text, year)
      /\ sunset.value = BuildInstant(text, year)
  BY <1>1, SunsetHeld
<1>3. /\ sunset.value = OneSecondLater(Taken(text, year))
      /\ sunset.value.second % 60 = 0
  BY <1>2, LeapSecond
<1>4. PICK u : u = [text EXCEPT !.second = 59]
  OBVIOUS
<1>5. /\ u \in CapturedTexts /\ u.second = 59 /\ u.form = text.form
      /\ u.zone = text.zone /\ u.year = text.year /\ u.month = text.month
      /\ u.day = text.day /\ u.hour = text.hour /\ u.minute = text.minute
      /\ u.weekday = text.weekday
  BY <1>2, <1>4 DEF CapturedTexts, TwoDigits
<1>6. /\ AdmittedIn(u, mode)
      /\ year = YearRead(u, now.year)
      /\ IsCalendarTime(u, year)
      /\ u.weekday = ExpectedWeekday(u, year)
  <2>1. AdmittedIn(u, mode)
    BY <1>2, <1>5 DEF Admitted, AdmittedIn
  <2>2. YearRead(u, now.year) = year
    BY <1>1, <1>5 DEF YearRead
  <2>3. IsCalendarTime(u, year)
    BY <1>2, <1>5 DEF IsCalendarTime
  <2>4. QED
    BY <1>2, <1>5, <2>1, <2>2, <2>3 DEF ExpectedWeekday
<1>7. Taken(u, year) = Taken(text, year)
  BY <1>5 DEF Taken
<1>8. BuildInstant(u, year) = Taken(text, year)
  BY <1>2, <1>5, <1>7, BuildInstantIs
<1>9. ~(BuildInstant(u, year).day > LastDay)
  <2>1. Taken(u, year).day \in Int /\ Taken(u, year).day <= LastDay
    BY <1>2, <1>5, <1>6, TakenIs
  <2>2. QED
    BY <1>7, <1>8, <2>1, LastDayIs
<1>10. Read(u).value = BuildInstant(u, year)
  BY ONLY <1>6, <1>9, RightTextIsRead
<1>11. QED
  BY <1>3, <1>4, <1>8, <1>10

\* Only a text at the very end of the calendar overflows it.
LEMMA OverflowIsLast ==
    ASSUME NEW text, text.form = "other" \/ text \in CapturedTexts, now.year \in Int,
           NEW allowObsolete \in BOOLEAN, NEW allowUtc \in BOOLEAN,
           ParseHttpDate(text, now.year, allowObsolete, allowUtc).raises =
               "OverflowError"
    PROVE  text.form # "other" /\ IsLastLeapSecond(text)
<1>1. PICK year : year = YearRead(text, now.year)
  OBVIOUS
<1>2. /\ Admitted(text, allowObsolete, allowUtc)
      /\ Outcome(text, year).raises = "OverflowError"
  <2>1. PICK date : date = ParseHttpDate(text, now.year, allowObsolete, allowUtc)
    OBVIOUS
  <2>2. /\ Admitted(text, allowObsolete, allowUtc)
        /\ date = Outcome(text, YearRead(text, now.year))
    BY <2>1, OutcomeRaises
  <2>3. QED
    BY <1>1, <2>1, <2>2
<1>3. text.form # "other" /\ text \in CapturedTexts
  BY <1>2 DEF Admitted, AdmittedIn
<1>4. year \in Int
  BY <1>1, <1>3, YearReadIs
<1>5. IsCalendarTime(text, year) /\ BuildInstant(text, year).day > LastDay
  BY <1>2, OutcomeIs
<1>6. text.second = 60
  <2>1. SUFFICES ASSUME text.second # 60 PROVE FALSE
    OBVIOUS
  <2>2. BuildInstant(text, year) = Taken(text, year)
    BY <1>3, <1>4, <2>1, BuildInstantIs
  <2>3. Taken(text, year).day \in Int /\ Taken(text, year).day <= LastDay
    BY <1>3, <1>4, <1>5, TakenIs
  <2>4. QED
    BY <1>5, <2>2, <2>3, LastDayIs
<1>7. QED
  BY <1>1, <1>3, <1>4, <1>5, <1>6, LeapSecond DEF IsLastLeapSecond

\* The text of a single field that says a date is among its texts.
LEMMA SinglesText ==
    ASSUME NEW field, IsDateField(field), IsSingle(field)
    PROVE  LET text == DateText(SaysOf(field)) IN
           /\ CanBeSaid(SaysOf(field))
           /\ text.form = "other" \/ text \in CapturedTexts
           /\ text.form # "other" => text \in DateTexts(field)
<1>1. CanBeSaid(field[1].says) /\ Len(field) = 1 /\ field[1].safe
  BY DEF IsDateField, IsSingle
<1>2. PICK says : says = field[1].says
  OBVIOUS
<1>3. CASE says.kind = "date"
  <2>1. DateText(says) = says.text
    BY <1>3 DEF DateText
  <2>2. says.text.form # "other" => says.text \in DateTexts(field)
    BY <1>1, <1>2, <1>3 DEF DateTexts
  <2>3. QED
    BY <1>1, <1>2, <1>3, <2>1, <2>2 DEF SaysOf, CanBeSaid
<1>4. CASE says.kind # "date"
  <2>1. DateText(says).form = "other"
    BY <1>4 DEF DateText
  <2>2. QED
    BY <1>1, <1>2, <2>1 DEF SaysOf
<1>5. QED
  BY <1>3, <1>4

LEMMA SunsetRaises ==
    ASSUME NEW field, IsDateField(field), NEW m, now.year \in Int,
           ParseSunset(field, now, m).raises = "OverflowError"
    PROVE  \E text \in DateTexts(field) : IsLastLeapSecond(text)
<1>1. IsSingle(field)
  <2>1. SUFFICES ASSUME ~IsSingle(field) PROVE FALSE
    OBVIOUS
  <2>2. QED
    BY <2>1, SinglesRead DEF Absent, Invalid, HeaderValue
<1>2. PICK text : text = DateText(SaysOf(field))
  OBVIOUS
<1>3. PICK allowUtc \in BOOLEAN : allowUtc = (m = "compat")
  OBVIOUS
<1>4. PICK date : date = ParseHttpDate(text, now.year, TRUE, allowUtc)
  OBVIOUS
<1>5. ParseSunset(field, now, m) = SunsetOf(date)
  <2>1. ParseSunset(field, now, m) =
            SunsetOf(ParseHttpDate(DateText(SaysOf(field)), now.year, TRUE,
                                   m = "compat"))
    BY <1>1, ParseSunsetIs
  <2>2. QED
    BY <1>2, <1>3, <1>4, <2>1, Zenon
<1>6. date.raises = "OverflowError"
  BY <1>5 DEF SunsetOf, Invalid, HeaderValue
<1>7. /\ text.form = "other" \/ text \in CapturedTexts
      /\ text.form # "other" => text \in DateTexts(field)
  BY <1>1, <1>2, SinglesText
<1>8. text.form # "other" /\ IsLastLeapSecond(text)
  BY <1>4, <1>6, <1>7, OverflowIsLast
<1>9. QED
  BY <1>7, <1>8

LEMMA DeprecationRaises ==
    ASSUME NEW field, IsDateField(field), NEW m \in Modes, now.year \in Int,
           ParseDeprecation(field, now, m).raises = "OverflowError"
    PROVE  \E text \in DateTexts(field) : IsLastLeapSecond(text)
<1>1. IsSingle(field)
  <2>1. SUFFICES ASSUME ~IsSingle(field) PROVE FALSE
    OBVIOUS
  <2>2. QED
    BY <2>1, SinglesRead DEF Absent, Invalid, HeaderValue
<1>2. ~IsStructuredDate(SaysOf(field))
  <2>1. SUFFICES ASSUME IsStructuredDate(SaysOf(field)) PROVE FALSE
    OBVIOUS
  <2>2. ParseDeprecation(field, now, m) =
            HeaderValue("valid", SaysOf(field).at, HasPassed(SaysOf(field).at, now),
                IF SaysOf(field).parameters
                THEN {"ignored_deprecation_parameters"} ELSE {})
    BY <1>1, <2>1, Zenon DEF ParseDeprecation, IsSingle, SaysOf
  <2>3. QED
    BY <2>2 DEF HeaderValue
<1>3. PICK text : text = DateText(SaysOf(field))
  OBVIOUS
<1>4. PICK date : date = ParseHttpDate(text, now.year, FALSE, TRUE)
  OBVIOUS
<1>5. /\ CanBeSaid(SaysOf(field))
      /\ text.form = "other" \/ text \in CapturedTexts
      /\ text.form # "other" => text \in DateTexts(field)
  BY <1>1, <1>3, SinglesText
<1>6. ParseDeprecation(field, now, m) =
          IF m = "strict" THEN Invalid("invalid_deprecation_header")
          ELSE IF SaysOf(field).kind = "boolean"
          THEN HeaderValue("legacy", Missing, TRUE, {"legacy_deprecation_boolean"})
          ELSE DeprecationOf(date, now)
  BY <1>1, <1>2, <1>3, <1>4, <1>5, ParseDeprecationIs
<1>7. date.raises = "OverflowError"
  BY <1>6 DEF DeprecationOf, Invalid, HeaderValue
<1>8. text.form # "other" /\ IsLastLeapSecond(text)
  BY <1>4, <1>5, <1>7, OverflowIsLast
<1>9. QED
  BY <1>5, <1>8

LEMMA RetryRaises ==
    ASSUME NEW retryAfter, retryAfter # Missing, IsRetryAfter(retryAfter),
           now.year \in Int, RetryDelay(retryAfter, now).raises = "OverflowError"
    PROVE  retryAfter.kind = "date" /\ IsLastLeapSecond(retryAfter.text)
<1>1. retryAfter.kind \in {"seconds", "unconvertible", "date"}
  BY DEF IsRetryAfter
<1>2. retryAfter.kind # "seconds"
  <2>1. SUFFICES ASSUME retryAfter.kind = "seconds" PROVE FALSE
    OBVIOUS
  <2>2. RetryDelay(retryAfter, now) = Delay(Capped(retryAfter.seconds))
    BY <2>1 DEF RetryDelay
  <2>3. QED
    BY <2>2 DEF Delay
<1>3. retryAfter.kind # "unconvertible"
  <2>1. SUFFICES ASSUME retryAfter.kind = "unconvertible" PROVE FALSE
    OBVIOUS
  <2>2. RetryDelay(retryAfter, now) = Refused
    BY <2>1 DEF RetryDelay
  <2>3. QED
    BY <2>2 DEF Refused
<1>4. ASSUME retryAfter.kind = "date"
      PROVE  IsLastLeapSecond(retryAfter.text)
  <2>1. RetryDelay(retryAfter, now) = RetryAfterDate(retryAfter.text, now)
    BY <1>4 DEF RetryDelay
  <2>2. PICK date : date = ParseHttpDate(retryAfter.text, now.year, TRUE, TRUE)
    OBVIOUS
  <2>3. date.raises \in {"nothing", "ValueError", "OverflowError"}
    BY <2>2, OutcomeRaises
  <2>4. date.raises = "OverflowError"
    <3>1. RetryAfterDate(retryAfter.text, now) =
              CASE date.raises = "OverflowError" -> date
                [] date.raises = "ValueError" -> Delay(Capped(RetryFallback))
                [] IsDate(date) -> Delay(DelayUntil(InstantOf(now), date.value))
      BY <2>2, Zenon DEF RetryAfterDate
    <3>2. date.raises # "OverflowError" =>
              RetryAfterDate(retryAfter.text, now).raises = "nothing"
      BY <2>3, <3>1 DEF Delay, IsDate
    <3>3. QED
      BY <2>1, <3>2
  <2>5. retryAfter.text.form = "other" \/ retryAfter.text \in CapturedTexts
    BY <1>4 DEF IsRetryAfter, CanBeSaid
  <2>6. QED
    BY <2>2, <2>4, <2>5, OverflowIsLast
<1>5. QED
  BY <1>1, <1>2, <1>3, <1>4

\* A leap second is the second after the 59th and begins a minute; what ends a
\* scan with an OverflowError is a text at the very end of the calendar
\* (_build_datetime, called for Sunset, Deprecation and Retry-After).
THEOREM OnlyTheLastSecondOverflows == AnswerSpec => []LeapSecondsRollOver
<1>1. ReadInv => LeapSecondsRollOver
  <2>1. SUFFICES ASSUME ReadInv PROVE LeapSecondsRollOver
    OBVIOUS
  <2>2. \A text \in DateTexts(sunsetField) :
            text.second = 60 /\ sunset.raises = "nothing" /\ IsAccepted(sunset) =>
                /\ sunset.value =
                       OneSecondLater(Read([text EXCEPT !.second = 59]).value)
                /\ sunset.value.second % 60 = 0
    BY <2>1, SecondBefore
  <2>3. now.year \in Int /\ mode \in Modes
    <3>1. now.year \in 1..LastYear /\ mode \in Modes
      BY <2>1, AnswerReadingAssumption DEF ReadInv, ScanTypeOK
    <3>2. \A year \in 1..LastYear : year \in Int
      BY DEF LastYear
    <3>3. QED
      BY <3>1, <3>2, Zenon
  <2>4. ASSUME error = "OverflowError"
        PROVE  \/ \E text \in DateTexts(sunsetField) \cup DateTexts(deprecationField) :
                      IsLastLeapSecond(text)
               \/ /\ retryField # Missing /\ retryField.kind = "date"
                  /\ IsLastLeapSecond(retryField.text)
    <3>1. \A field \in SunsetFields \cup DeprecationFields : IsDateField(field)
      BY AnswerReadingAssumption
    <3>2. Overflowing
      BY <2>1, <2>4 DEF ReadInv, RaisedBy
    <3>3. CASE /\ retryField \in RetryAfters \ {Missing}
               /\ RetryDelay(retryField, now).raises = "OverflowError"
      <4>1. IsRetryAfter(retryField)
        BY <3>3, AnswerReadingAssumption
      <4>2. QED
        BY <2>3, <3>3, <4>1, RetryRaises
    <3>4. CASE /\ sunsetField \in SunsetFields
               /\ ParseSunset(sunsetField, now, mode).raises = "OverflowError"
      <4>1. \E text \in DateTexts(sunsetField) : IsLastLeapSecond(text)
        BY <2>3, <3>1, <3>4, SunsetRaises
      <4>2. QED
        BY <4>1
    <3>5. CASE /\ deprecationField \in DeprecationFields
               /\ ParseDeprecation(deprecationField, now, mode).raises =
                      "OverflowError"
      <4>1. \E text \in DateTexts(deprecationField) : IsLastLeapSecond(text)
        BY <2>3, <3>1, <3>5, DeprecationRaises
      <4>2. QED
        BY <4>1
    <3>6. QED
      BY <3>2, <3>3, <3>4, <3>5 DEF Overflowing
  <2>5. QED
    BY <2>2, <2>4, Zenon DEF LeapSecondsRollOver
<1>2. QED
  BY <1>1, ReadInvHolds, PTL

=============================================================================
