--------------------------- MODULE AnswerReading ---------------------------
(***************************************************************************)
(* One scan, from its URL to the evidence it goes by: the policy gate, the *)
(* answer and its redaction, and the lifecycle fields of the answer, read  *)
(* one after the other, with what scan_http_target may raise on the way.   *)
(* HttpFetch and HttpScan have what scans do to shared tables, and take    *)
(* from here that a URL has an origin, that a Retry-After gives a bounded  *)
(* delay, and what fields parse to.                                        *)
(*                                                                         *)
(* Nothing after the request depends on its URL but the base of relative   *)
(* links, which are resolved here by name; it is forgotten then.  The      *)
(* fields of a cached answer are those of an answer that arrived earlier.  *)
(***************************************************************************)
EXTENDS LifecycleHeaders, RequestPolicy

CONSTANTS
    Urls,                   \* the URLs a target may be given
    Nows,                   \* calendar times of a scan
    SunsetFields, DeprecationFields, LinkFields,    \* fields of an answer
    RetryAfters             \* Retry-After fields

Modes == {"strict", "compat"}

\* What a field of dates can be, and a Retry-After.
CanBeSaid(says) ==
    /\ says.kind \in {"date", "structured", "boolean"}
    /\ says.kind = "date" =>
           says.text.form = "other" \/ says.text \in CapturedTexts

IsDateField(field) ==
    /\ Len(field) \in Nat
    /\ \A n \in 1..Len(field) : CanBeSaid(field[n].says)

IsRetryAfter(retryAfter) ==
    /\ retryAfter.kind \in {"seconds", "unconvertible", "date"}
    /\ retryAfter.kind = "date" => CanBeSaid(retryAfter)

\* What a Link field can be before it is redacted.
Targets == DOMAIN RedactedTarget \cup {"malformed"}

IsLink(link) ==
    /\ DOMAIN link = {"relations", "target", "url", "wellFormed"}
    /\ link.target \in Targets

IsLinkField(field) ==
    \A n \in DOMAIN field :
        /\ DOMAIN field[n] = {"safe", "balanced", "values"}
        /\ Len(field[n].values) \in Nat
        /\ DOMAIN field[n].values = 1..Len(field[n].values)
        /\ \A m \in DOMAIN field[n].values : IsLink(field[n].values[m])

\* These scans are not made at the very end of the calendar, where the end of
\* a delay, or of a cached answer's life, has no date.
DeadlinesHaveDates ==
    \A at \in Nows :
        InstantOf(at).day + MaxRetryAfter \div SecondsPerDay < LastDay

ASSUME AnswerReadingAssumption ==
    /\ Missing \notin Int \cup {"invalid_url", "unsupported_scheme"}
    /\ \A url \in Urls : url.port \in Nat \cup {Missing}
    /\ \A at \in Nows : at.year \in 1..LastYear
    /\ DeadlinesHaveDates
    /\ \A field \in SunsetFields \cup DeprecationFields : IsDateField(field)
    /\ \A retryAfter \in RetryAfters \ {Missing} : IsRetryAfter(retryAfter)
    /\ \A field \in LinkFields : IsLinkField(field)

VARIABLES
    stage,          \* where the scan is
    error,          \* the exception that ended it
    now,            \* its observed_at
    mode,           \* its header mode
    request,        \* the URL it asks for
    retryField,     \* the Retry-After of a 429 or 503
    delay,          \* what it tells the scan
    sunsetField, deprecationField,  \* the fields of the answer
    linkField,                      \* its Link field, as it was sent
    sunset, deprecation, links      \* what they parse to

answerVars == <<stage, error, now, mode, request, retryField, delay,
                sunsetField, deprecationField, linkField, sunset, deprecation,
                links>>

AnswerInit ==
    /\ stage = "idle" /\ error = "nothing"
    /\ now \in Nows
    /\ mode \in Modes
    /\ request = Missing
    /\ retryField = Missing /\ delay = Missing
    /\ sunsetField = <<>> /\ deprecationField = <<>> /\ linkField = <<>>
    /\ sunset = Missing /\ deprecation = Missing /\ links = Missing

\* The scan goes on at the next stage unless something raised.
GoOnUnless(raised, next) ==
    /\ error' = raised
    /\ stage' = IF raised = "nothing" THEN next ELSE "raised"

\* What a URL raises: endpoint() before the policy, httpx.URL after it.
UrlRaises(url) ==
    IF ~IsHttpUrl(url) THEN "ValueError"
    ELSE IF Accepted(url) /\ ~url.requestable THEN "InvalidURL"
    ELSE "nothing"

\* The URLs that are asked for.
IsAskable(url) == Accepted(url) /\ UrlRaises(url) = "nothing"

\* endpoint() and fetch: a URL the policy refuses never leaves the program.
Ask(url) ==
    /\ stage = "idle"
    /\ request' = url
    /\ GoOnUnless(UrlRaises(url), IF Accepted(url) THEN "asked" ELSE "blocked")
    /\ UNCHANGED <<now, mode, retryField, delay, sunsetField, deprecationField,
                   linkField, sunset, deprecation, links>>

\* An answer arrives.  Whatever its status, _retained_headers comes first: a
\* malformed target of a link ends the scan, and nothing of the answer is read.
Arrive(field) ==
    /\ stage = "asked"
    /\ request' = Missing
    /\ linkField' = field
    /\ GoOnUnless(IF IsMalformed(field) THEN "ValueError" ELSE "nothing",
                  "retained")
    /\ UNCHANGED <<now, mode, retryField, delay, sunsetField, deprecationField,
                   sunset, deprecation, links>>

\* No answer, or one whose status is a redirect or an error.
Fail ==
    /\ stage \in {"asked", "retained"}
    /\ request' = Missing
    /\ stage' = "failed"
    /\ UNCHANGED <<error, now, mode, retryField, delay, sunsetField,
                   deprecationField, linkField, sunset, deprecation, links>>

\* 429 or 503.
AskedToWait(retryAfter) ==
    /\ stage = "retained"
    /\ retryField' = retryAfter
    /\ delay' = RetryDelay(retryAfter, now)
    /\ GoOnUnless(delay'.raises, "waiting")
    /\ UNCHANGED <<now, mode, request, sunsetField, deprecationField, linkField,
                   sunset, deprecation, links>>

\* put_http_cache refuses an ok answer, for its size or the order of its times.
CacheRefuses ==
    /\ stage = "retained"
    /\ GoOnUnless("ValueError", "retained")
    /\ UNCHANGED <<now, mode, request, retryField, delay, sunsetField,
                   deprecationField, linkField, sunset, deprecation, links>>

\* An ok answer, whose fields parse_lifecycle_headers reads in turn; an
\* OverflowError of one of them ends the scan.
ReadSunset(field) ==
    /\ stage = "retained"
    /\ sunsetField' = field
    /\ sunset' = ParseSunset(field, now, mode)
    /\ GoOnUnless(sunset'.raises, "sunset")
    /\ UNCHANGED <<now, mode, request, retryField, delay, deprecationField,
                   linkField, deprecation, links>>

ReadDeprecation(field) ==
    /\ stage = "sunset"
    /\ deprecationField' = field
    /\ deprecation' = ParseDeprecation(field, now, mode)
    /\ GoOnUnless(deprecation'.raises, "deprecation")
    /\ UNCHANGED <<now, mode, request, retryField, delay, sunsetField, linkField,
                   sunset, links>>

\* The last field, read as it was retained; the scan then knows whether to
\* record or to withdraw.
ReadLinkField ==
    /\ stage = "deprecation"
    /\ links' = ParseLinks(RedactedField(linkField))
    /\ stage' = Verdict(sunset, deprecation)
    /\ UNCHANGED <<error, now, mode, request, retryField, delay, sunsetField,
                   deprecationField, linkField, sunset, deprecation>>

AnswerNext ==
    \/ \E url \in Urls : Ask(url)
    \/ \E field \in LinkFields : Arrive(field)
    \/ Fail
    \/ \E retryAfter \in RetryAfters : AskedToWait(retryAfter)
    \/ CacheRefuses
    \/ \E field \in SunsetFields : ReadSunset(field)
    \/ \E field \in DeprecationFields : ReadDeprecation(field)
    \/ ReadLinkField

AnswerSpec == AnswerInit /\ [][AnswerNext]_answerVars

-----------------------------------------------------------------------------
(***************************************************************************)
(* Properties                                                              *)
(***************************************************************************)

\* The server a URL goes to: the host that is asked, as DNS takes it, and the
\* port, which each scheme has a default for.
SameServer(u, v) ==
    /\ u.scheme = v.scheme
    /\ RequestedHost(u.host) = RequestedHost(v.host)
    /\ \/ u.port = v.port
       \/ {u.port, v.port} = {Missing, IF u.scheme = "https" THEN 443 ELSE 80}

\* A label for which the origin and the request follow different standards.
HasDeviation(host) ==
    \E n \in DOMAIN host.labels : host.labels[n].spelling = "deviation"

\* Two URLs that are asked for are paced together exactly when they go to one
\* server, however host and port are spelled (_ValidatedUrl.origin), unless a
\* host is spelled with letters that IDNA 2003 and 2008 take differently: such
\* a host shares the origin of another server, and its own server has two.
OriginIdentifiesServer ==
    stage = "asked" =>
        \A url \in Urls : IsAskable(url) =>
            \/ Origin(url) = Origin(request) <=> SameServer(url, request)
            \/ HasDeviation(url.host) \/ HasDeviation(request.host)

\* The date text of a field that occurs once and says a date.
DateTexts(field) ==
    {field[n].says.text : n \in {n \in 1..Len(field) :
        /\ Len(field) = 1 /\ field[1].safe
        /\ field[1].says.kind = "date" /\ field[1].says.text.form # "other"}}

\* The other spellings of an IMF date.
InAsctime(text) == [text EXCEPT !.form = "asctime"]
InRfc850(text) == [text EXCEPT !.form = "rfc850", !.year = @ % 100]

\* The years whose two last digits _year_from_rfc850 gives back, seen from a
\* year: within fifty of it, and not in the next century.
TwoDigitYears(thisYear) ==
    {year \in (thisYear - 49)..(thisYear + 50) :
        year \div 100 <= thisYear \div 100}

\* The scan's reading of a Sunset field that says this text.
Read(text) ==
    ParseSunset(<<[safe |-> TRUE, says |-> [kind |-> "date", text |-> text]]>>,
                now, mode)

\* The three spellings of one instant are read as the same instant, whatever
\* the day on which they are read.
SpellingsAgree ==
    \A text \in DateTexts(sunsetField) :
        text.form = "imf" /\ sunset.raises = "nothing" /\ IsAccepted(sunset) =>
            /\ Read(InAsctime(text)).value = sunset.value
            /\ text.year \in TwoDigitYears(now.year) =>
                   Read(InRfc850(text)).value = sunset.value

\* A leap second is read as the second that follows the 59th and begins a
\* minute, be it of the next day, month, year or century; a scan that ends in
\* an OverflowError was given a text at the very end of the calendar, where no
\* such second is left.
IsLastLeapSecond(text) ==
    /\ text.second = 60 /\ text.minute = 59 /\ text.hour = 23
    /\ text.day = 31 /\ text.month = 12 /\ YearRead(text, now.year) = LastYear

LeapSecondsRollOver ==
    /\ \A text \in DateTexts(sunsetField) :
           text.second = 60 /\ sunset.raises = "nothing" /\ IsAccepted(sunset)
               => /\ sunset.value =
                         OneSecondLater(Read([text EXCEPT !.second = 59]).value)
                  /\ sunset.value.second % 60 = 0
    /\ error = "OverflowError" =>
           \/ \E text \in DateTexts(sunsetField) \cup DateTexts(deprecationField) :
                  IsLastLeapSecond(text)
           \/ /\ retryField # Missing /\ retryField.kind = "date"
              /\ IsLastLeapSecond(retryField.text)

\* Compat mode reads whatever strict mode reads, and as the same; what it
\* reads beyond that it marks as legacy, with a diagnostic.
Extends(compat, strict) ==
    /\ strict.raises # "nothing" \/ IsAccepted(strict) => compat = strict
    /\ compat.raises = "nothing" /\ IsAccepted(compat) /\ compat # strict =>
           compat.status = "legacy" /\ compat.codes # {}

CompatExtendsStrict ==
    /\ Extends(ParseSunset(sunsetField, now, "compat"),
               ParseSunset(sunsetField, now, "strict"))
    /\ Extends(ParseDeprecation(deprecationField, now, "compat"),
               ParseDeprecation(deprecationField, now, "strict"))

\* A link, as it was sent, that stops the parser: one that is not well formed,
\* one whose target nothing is left of, or a policy link to another scheme.
\* Credentials stop nothing, they are taken out.
StopsParser(link) ==
    \/ ~link.wellFormed
    \/ link.target = "unreadable"
    \/ link.target = "foreign" /\ IsPolicyLink(link)

\* Of a Link field that was sent, and that did not end the scan, each policy
\* link is recorded unless a diagnostic says that links are missing; a defect
\* costs only what follows it in its own occurrence.
LinksKeptOrReported ==
    links # Missing =>
        \A n \in DOMAIN linkField :
            \A m \in DOMAIN linkField[n].values :
                LET occurrence == linkField[n]
                    link == occurrence.values[m]
                IN  IsPolicyLink(link) /\ link.url \notin links.urls =>
                    /\ links.codes # {}
                    /\ \/ ~occurrence.safe \/ ~occurrence.balanced
                       \/ \E l \in 1..m : StopsParser(occurrence.values[l])

=============================================================================
