-------------------------- MODULE LifecycleHeaders --------------------------
(***************************************************************************)
(* domain/headers.py: parse_lifecycle_headers, the pure parsers of the     *)
(* Sunset, Deprecation and Link fields of one answer.                      *)
(*                                                                         *)
(* A field is the sequence of its occurrences.  An occurrence is a record: *)
(* `safe` says that it is short enough and free of control characters;     *)
(* `says` is what the text reads as, a record with a `kind`:               *)
(*   date         an HTTP-date, as `text`, or no date at all (form other)  *)
(*   structured   a Structured Field Date: the instant `at`, a day outside *)
(*                the calendar included, and whether it has parameters     *)
(*   boolean      the word true, in any case                               *)
(* A Link occurrence has a flag `balanced` (quotes and angle brackets      *)
(* close) and the sequence of its `values`.                                *)
(*                                                                         *)
(* Diagnostics are kept as the set of their codes.                         *)
(***************************************************************************)
EXTENDS HttpDates

\* ParsedHeaderValue
HeaderValue(status, value, deprecated, codes) ==
    [raises |-> "nothing", status |-> status, value |-> value,
     deprecated |-> deprecated, codes |-> codes]

Absent == HeaderValue("absent", Missing, FALSE, {})
Invalid(code) == HeaderValue("invalid", Missing, FALSE, {code})

\* _http_date_diagnostics
DateCodes(date) ==
    (IF date.obsolete THEN {"obsolete_http_date"} ELSE {})
    \cup (IF date.utcAlias THEN {"utc_timezone_alias"} ELSE {})
    \cup (IF date.leapSecond THEN {"leap_second_normalized"} ELSE {})

\* The text as parse_http_date sees it: any other kind is none of its forms.
DateText(says) ==
    IF says.kind = "date" THEN says.text ELSE [form |-> "other"]

\* Mutant of ParseSunset: strict mode knows no obsolete date, compat does.
ParseSunsetObsoleteInCompat(field, now, mode) ==
    IF field = <<>> THEN Absent
    ELSE IF Len(field) # 1 THEN Invalid("duplicate_sunset_header")
    ELSE IF ~field[1].safe THEN Invalid("unsafe_sunset_header")
    ELSE LET date == ParseHttpDate(DateText(field[1].says), now.year,
                                   mode = "strict", mode = "compat")
         IN CASE date.raises = "OverflowError" -> date
              [] date.raises = "ValueError" -> Invalid("invalid_sunset_date")
              [] IsDate(date) ->
                 HeaderValue(IF date.utcAlias THEN "legacy" ELSE "valid",
                             date.value, FALSE, DateCodes(date))

\* parse_sunset_header
ParseSunset(field, now, mode) ==
    IF field = <<>> THEN Absent
    ELSE IF Len(field) # 1 THEN Invalid("duplicate_sunset_header")
    ELSE IF ~field[1].safe THEN Invalid("unsafe_sunset_header")
    ELSE LET date == ParseHttpDate(DateText(field[1].says), now.year,
                                   TRUE, mode = "compat")
         IN CASE date.raises = "OverflowError" -> date
              [] date.raises = "ValueError" -> Invalid("invalid_sunset_date")
              [] IsDate(date) ->
                 HeaderValue(IF date.utcAlias THEN "legacy" ELSE "valid",
                             date.value, FALSE, DateCodes(date))

\* _parse_structured_date: the epoch plus the seconds, if datetime can hold it.
IsStructuredDate(says) ==
    says.kind = "structured" /\ says.at.day \in 1..LastDay

HasPassed(instant, now) == ~Before(InstantOf(now), instant)

\* What compat mode still takes for a Deprecation field.
LegacyDeprecation(says, now) ==
    LET date == ParseHttpDate(DateText(says), now.year, FALSE, TRUE) IN
    CASE says.kind = "boolean" ->
             HeaderValue("legacy", Missing, TRUE, {"legacy_deprecation_boolean"})
      [] says.kind # "boolean" /\ date.raises = "OverflowError" -> date
      [] says.kind # "boolean" /\ date.raises = "ValueError" ->
             Invalid("invalid_deprecation_header")
      [] says.kind # "boolean" /\ IsDate(date) ->
             HeaderValue("legacy", date.value, HasPassed(date.value, now),
                         {"legacy_deprecation_http_date"} \cup DateCodes(date))

\* parse_deprecation_header
ParseDeprecation(field, now, mode) ==
    IF field = <<>> THEN Absent
    ELSE IF Len(field) # 1 THEN Invalid("duplicate_deprecation_header")
    ELSE IF ~field[1].safe THEN Invalid("unsafe_deprecation_header")
    ELSE LET says == field[1].says IN
         CASE IsStructuredDate(says) ->
                  HeaderValue("valid", says.at, HasPassed(says.at, now),
                      IF says.parameters
                      THEN {"ignored_deprecation_parameters"} ELSE {})
           [] ~IsStructuredDate(says) /\ mode = "compat" ->
                  LegacyDeprecation(says, now)
           [] ~IsStructuredDate(says) /\ mode = "strict" ->
                  Invalid("invalid_deprecation_header")

-----------------------------------------------------------------------------
(***************************************************************************)
(* Links.  What is parsed went through _redact_link_header (RequestPolicy):*)
(* an occurrence is safe and balanced, and a value wellFormed, as it stands*)
(* then.  A value has the set of its relations; a target that is absolute, *)
(* relative (to the answer's URL), foreign (of another scheme) or invalid  *)
(* (<invalid-url> between the brackets, whose own bracket closes too soon);*)
(* and the url that the target comes to.                                   *)
(***************************************************************************)

IsPolicyLink(link) == link.relations \cap {"deprecation", "sunset"} # {}

\* _parse_one_link: the scheme of a target matters to policy links only.
LinkFails(link) ==
    \/ ~link.wellFormed
    \/ link.target = "invalid"
    \/ IsPolicyLink(link) /\ link.target = "foreign"

\* The values of an occurrence that are read before one of them fails.
ReadLinks(occurrence) ==
    {n \in DOMAIN occurrence.values :
        \A m \in 1..n : ~LinkFails(occurrence.values[m])}

\* Mutant of OccurrenceUrls: a failure drops the whole occurrence.
OccurrenceUrlsAllOrNothing(occurrence) ==
    IF occurrence.safe /\ occurrence.balanced
       /\ ReadLinks(occurrence) = DOMAIN occurrence.values
    THEN {occurrence.values[n].url :
            n \in {n \in ReadLinks(occurrence) :
                      IsPolicyLink(occurrence.values[n])}}
    ELSE {}

OccurrenceUrls(occurrence) ==
    IF occurrence.safe /\ occurrence.balanced
    THEN {occurrence.values[n].url :
            n \in {n \in ReadLinks(occurrence) :
                      IsPolicyLink(occurrence.values[n])}}
    ELSE {}

OccurrenceCodes(occurrence) ==
    IF ~occurrence.safe THEN {"unsafe_link_header"}
    ELSE IF ~occurrence.balanced
            \/ ReadLinks(occurrence) # DOMAIN occurrence.values
    THEN {"invalid_link_header"} ELSE {}

\* parse_documentation_links
ParseLinks(field) ==
    [urls |-> UNION {OccurrenceUrls(field[n]) : n \in DOMAIN field},
     codes |-> UNION {OccurrenceCodes(field[n]) : n \in DOMAIN field}]

-----------------------------------------------------------------------------
(***************************************************************************)
(* The whole answer                                                        *)
(***************************************************************************)

\* ParsedLifecycleHeaders.has_signal
IsAccepted(value) == value.status \in {"valid", "legacy"}

\* parse_lifecycle_headers, and what scan_http_target makes of its result:
\* evidence to record, a reason to withdraw, or nothing to go by.
Verdict(sunset, deprecation) ==
    IF IsAccepted(sunset) \/ IsAccepted(deprecation) THEN "record"
    ELSE IF sunset.status = "absent" /\ deprecation.status = "absent"
    THEN "withdraw" ELSE "discard"

=============================================================================
