--------------------------- MODULE RequestPolicy ---------------------------
(***************************************************************************)
(* adapters/http_client.py: which URLs a client requests, under which      *)
(* origin it paces them, and when it may ask again after a 429 or 503.     *)
(*                                                                         *)
(* A URL is a record of what urlsplit finds in it: `unreadable` says of    *)
(* what it makes nothing, of the port, of all, or of nothing; the port is  *)
(* Missing if none is given; `requestable` says that httpx.URL takes it.   *)
(* Its host is Missing or the sequence of its labels, with a final dot or  *)
(* not, and whether the IDNA codec of Python can encode it.  A label is a  *)
(* word and how it is spelled:                                             *)
(*   plain       as the word                                               *)
(*   variant     upper case, or another notation of an address             *)
(*   deviation   with letters such as the German sharp s, for which IDNA   *)
(*               2003 writes others and IDNA 2008 does not                 *)
(*   ace         as the xn-- name that IDNA 2008 gives the deviation       *)
(***************************************************************************)
EXTENDS HttpDates

CONSTANTS
    ExactHosts,         \* allowed_hosts without a wildcard, normalized
    WildcardSuffixes,   \* the others: what follows the *., normalized
    LoopbackHosts,      \* localhost and the loopback addresses
    AllowLoopback,
    RetryFallback,      \* retry_after_fallback_seconds
    MaxRetryAfter       \* maximum_retry_after_seconds

ASSUME RequestPolicyAssumption ==
    /\ AllowLoopback \in BOOLEAN
    /\ RetryFallback \in Nat
    /\ MaxRetryAfter \in Nat
    /\ ExactHosts \cup WildcardSuffixes # {}

-----------------------------------------------------------------------------
(***************************************************************************)
(* _validate_url                                                           *)
(***************************************************************************)

\* _normalize_hostname: case folding, the compressed form of an address and
\* the codec of IDNA 2003, after which only an xn-- name keeps its letters.
NormalizeHostname(host) ==
    [n \in DOMAIN host.labels |->
        <<host.labels[n].word,
          IF host.labels[n].spelling = "ace" THEN "kept" ELSE "folded">>]

\* The host that httpx.URL asks: it follows IDNA 2008.
RequestedHost(host) ==
    [n \in DOMAIN host.labels |->
        <<host.labels[n].word,
          IF host.labels[n].spelling \in {"ace", "deviation"}
          THEN "kept" ELSE "folded">>]

\* _host_is_allowed: a wildcard stands for one label or more.
HostIsAllowed(name) ==
    \/ name \in ExactHosts
    \/ \E suffix \in WildcardSuffixes :
           /\ Len(name) > Len(suffix)
           /\ SubSeq(name, Len(name) - Len(suffix) + 1, Len(name)) = suffix

\* The code of the first policy the URL violates, or Missing.
Violation(url) ==
    IF url.unreadable # "nothing" THEN "invalid_url"
    ELSE IF url.scheme \notin {"http", "https"} THEN "unsupported_scheme"
    ELSE IF url.userinfo THEN "userinfo_forbidden"
    ELSE IF url.fragment THEN "fragment_forbidden"
    ELSE IF url.host = Missing THEN "missing_host"
    ELSE IF ~url.host.encodable THEN "invalid_host"
    ELSE LET name == NormalizeHostname(url.host) IN
         IF ~HostIsAllowed(name) THEN "host_not_allowed"
         ELSE IF name \in LoopbackHosts /\ ~AllowLoopback
         THEN "loopback_forbidden"
         ELSE IF url.scheme = "http" /\ name \notin LoopbackHosts
         THEN "https_required"
         ELSE Missing

Accepted(url) == Violation(url) = Missing

\* validate_http_url, which a scan's target calls before anything is fetched.
\* Nothing is caught there: what it refuses ends the scan.
IsHttpUrl(url) ==
    /\ url.unreadable # "all"
    /\ url.scheme \in {"http", "https"}
    /\ url.host # Missing
    /\ ~url.userinfo

DefaultPort == [http |-> 80, https |-> 443]

\* Mutant of Origin: the port is taken as it is written.
OriginAsWritten(url) ==
    <<url.scheme, NormalizeHostname(url.host), url.port>>

\* The key under which requests are paced.
Origin(url) ==
    <<url.scheme, NormalizeHostname(url.host),
      IF url.port = Missing THEN DefaultPort[url.scheme] ELSE url.port>>

-----------------------------------------------------------------------------
(***************************************************************************)
(* _retry_at.  Retry-After is Missing or a record with a kind: seconds, a  *)
(* number too long for int() to convert (unconvertible), or text that may  *)
(* be a date.                                                              *)
(***************************************************************************)

Capped(delay) == IF delay < MaxRetryAfter THEN delay ELSE MaxRetryAfter

\* The seconds from x to y, no more than MaxRetryAfter and no less than zero.
DelayUntil(x, y) ==
    IF Before(y, x) THEN 0
    ELSE IF y.day - x.day > MaxRetryAfter \div SecondsPerDay + 1
    THEN MaxRetryAfter
    ELSE Capped((y.day - x.day) * SecondsPerDay + y.second - x.second)

Delay(seconds) == [raises |-> "nothing", delay |-> seconds]

RetryAfterDate(text, now) ==
    LET date == ParseHttpDate(text, now.year, TRUE, TRUE) IN
    CASE date.raises = "OverflowError" -> date
      [] date.raises = "ValueError" -> Delay(Capped(RetryFallback))
      [] IsDate(date) -> Delay(DelayUntil(InstantOf(now), date.value))

\* How long the origin asks to be left alone; int() raises outside any try.
RetryDelay(retryAfter, now) ==
    IF retryAfter = Missing THEN Delay(Capped(RetryFallback))
    ELSE CASE retryAfter.kind = "seconds" -> Delay(Capped(retryAfter.seconds))
           [] retryAfter.kind = "unconvertible" -> Refused
           [] retryAfter.kind = "date" -> RetryAfterDate(retryAfter.text, now)

-----------------------------------------------------------------------------
(***************************************************************************)
(* _retained_headers, which rewrites Link fields before any other part of  *)
(* an answer is looked at.  LifecycleHeaders says what a field is; the     *)
(* target of a link, as it was sent, is one of these:                      *)
(*   absolute, relative                                                    *)
(*   credentials  absolute, with a user or a password                      *)
(*   hostless     with a scheme but no host, such as mailto:a@b            *)
(*   foreign      of a scheme other than http and https that redaction     *)
(*                leaves, as it does before a host                         *)
(*   unreadable   with a host, whose port or name means nothing            *)
(*   malformed    urlsplit raises, as it does on an open bracket; so too   *)
(*                if it is text in angle brackets inside a parameter       *)
(***************************************************************************)

\* What _redact_link_header leaves of a target: no credentials, no scheme
\* without a host, and <invalid-url> for one that is unreadable.
RedactedTarget ==
    [absolute |-> "absolute", credentials |-> "absolute",
     relative |-> "relative", hostless |-> "relative",
     foreign |-> "foreign", unreadable |-> "invalid"]

RedactLink(link) == [link EXCEPT !.target = RedactedTarget[@]]

RedactOccurrence(occurrence) ==
    [occurrence EXCEPT !.values = [m \in DOMAIN @ |-> RedactLink(@[m])]]

RedactedField(field) == [n \in DOMAIN field |-> RedactOccurrence(field[n])]

\* urlsplit raises on one of the targets, outside any try.
IsMalformed(field) ==
    \E n \in DOMAIN field : \E m \in DOMAIN field[n].values :
        field[n].values[m].target = "malformed"

=============================================================================
