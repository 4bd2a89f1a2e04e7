----------------------------- MODULE HttpDates -----------------------------
(***************************************************************************)
(* domain/dates.py: parse_http_date, over the calendar of Python's         *)
(* datetime (years 1 to 9999).                                             *)
(*                                                                         *)
(* A date text is a record of what its form captures: `form` is imf,       *)
(* rfc850, asctime or other (no form at all); weekday and month are        *)
(* numbers, or month is Missing if its name is none; the year of rfc850    *)
(* text has two digits; zone is GMT or UTC.  An instant is a day, counted  *)
(* from 1 January of year 1, and a second of that day.                     *)
(***************************************************************************)
EXTENDS Integers, Sequences

CONSTANT Missing

LastYear == 9999
SecondsPerDay == 86400

-----------------------------------------------------------------------------
(***************************************************************************)
(* The calendar of datetime                                                *)
(***************************************************************************)

IsLeapYear(year) == year % 4 = 0 /\ (year % 100 # 0 \/ year % 400 = 0)

DaysInMonth(year, month) ==
    IF month = 2 /\ IsLeapYear(year) THEN 29
    ELSE <<31, 28, 31, 30, 31, 30, 31, 31, 30, 31, 30, 31>>[month]

DaysBeforeYear(year) ==
    LET past == year - 1 IN
    past * 365 + past \div 4 - past \div 100 + past \div 400

DaysBeforeMonth(year, month) ==
    <<0, 31, 59, 90, 120, 151, 181, 212, 243, 273, 304, 334>>[month]
        + (IF month > 2 /\ IsLeapYear(year) THEN 1 ELSE 0)

DayNumber(year, month, day) ==
    DaysBeforeYear(year) + DaysBeforeMonth(year, month) + day

LastDay == DayNumber(LastYear, 12, 31)

\* 1 January of year 1 is a Monday, which is 0.
Weekday(day) == (day + 6) % 7

Before(x, y) == x.day < y.day \/ (x.day = y.day /\ x.second < y.second)

InstantOf(t) ==
    [day |-> DayNumber(t.year, t.month, t.day),
     second |-> t.hour * 3600 + t.minute * 60 + t.second]

OneSecondLater(x) ==
    IF x.second + 1 < SecondsPerDay THEN [x EXCEPT !.second = @ + 1]
    ELSE [day |-> x.day + 1, second |-> 0]

-----------------------------------------------------------------------------
(***************************************************************************)
(* parse_http_date                                                         *)
(***************************************************************************)

\* What the three forms capture.
TwoDigits == 0..99
FourDigits == 0..9999

CapturedTexts ==
    [form : {"imf", "rfc850", "asctime"}, weekday : 0..6, year : FourDigits,
     month : (1..12) \cup {Missing}, day : TwoDigits, hour : TwoDigits,
     minute : TwoDigits, second : TwoDigits, zone : {"GMT", "UTC"}]

\* Mutant of YearFromRfc850: the text is taken for the current century's.
YearOfThisCentury(twoDigits, thisYear) ==
    (thisYear \div 100) * 100 + twoDigits

\* _year_from_rfc850
YearFromRfc850(twoDigits, thisYear) ==
    LET candidate == (thisYear \div 100) * 100 + twoDigits IN
    IF candidate > thisYear + 50 THEN candidate - 100 ELSE candidate

\* The year a text means to a reader in thisYear.
YearRead(text, thisYear) ==
    IF text.form = "rfc850" THEN YearFromRfc850(text.year, thisYear) ELSE text.year

\* The constructor of datetime takes these numbers, second 60 read as 59.
IsCalendarTime(text, year) ==
    /\ text.month # Missing
    /\ text.second <= 60
    /\ year \in 1..LastYear
    /\ text.day \in 1..DaysInMonth(year, text.month)
    /\ text.hour < 24
    /\ text.minute < 60

\* Mutant of BuildInstant: a leap second is read as the second before it.
BuildInstantClamped(text, year) ==
    InstantOf([text EXCEPT !.year = year,
                           !.second = IF @ = 60 THEN 59 ELSE @])

\* _build_datetime: a leap second is the second after the 59th.
BuildInstant(text, year) ==
    LET base == InstantOf([text EXCEPT !.year = year,
                                       !.second = IF @ = 60 THEN 59 ELSE @])
    IN IF text.second = 60 THEN OneSecondLater(base) ELSE base

\* Outcomes that are no date: ValueError, and OverflowError, which leaves the
\* range of datetime outside the try block of _build_datetime.
Refused == [raises |-> "ValueError"]
Overflowed == [raises |-> "OverflowError"]

IsDate(outcome) == outcome.raises = "nothing"

\* Which texts the caller's options let through.
Admitted(text, allowObsolete, allowUtc) ==
    \/ text.form = "imf" /\ (text.zone = "UTC" => allowUtc)
    \/ text.form \in {"rfc850", "asctime"} /\ allowObsolete

\* The weekday a text must name: that of its own day, which a leap second at
\* midnight has left behind.
ExpectedWeekday(text, year) == Weekday(DayNumber(year, text.month, text.day))

ParseHttpDate(text, thisYear, allowObsolete, allowUtc) ==
    LET year == YearRead(text, thisYear)
    IN  CASE ~Admitted(text, allowObsolete, allowUtc) -> Refused
          [] Admitted(text, allowObsolete, allowUtc) ->
             IF ~IsCalendarTime(text, year) THEN Refused
             ELSE IF BuildInstant(text, year).day > LastDay THEN Overflowed
             ELSE IF text.weekday # ExpectedWeekday(text, year) THEN Refused
             ELSE [raises |-> "nothing", value |-> BuildInstant(text, year),
                   obsolete |-> text.form # "imf",
                   utcAlias |-> text.form = "imf" /\ text.zone = "UTC",
                   leapSecond |-> text.second = 60]

=============================================================================
