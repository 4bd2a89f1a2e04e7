----------------------------- MODULE HttpFetch -----------------------------
(***************************************************************************)
(* adapters/http_client.py: HttpLifecycleClient.fetch, run by any number   *)
(* of scanner processes that share one database for the response cache     *)
(* and for request pacing.                                                 *)
(*                                                                         *)
(* A fetch reads its clock once, then reads the cache, claims the origin,  *)
(* sends, and handles the answer, in steps that interleave with the other  *)
(* scanners'.  The reading is the system clock's or the scan's --at, so it *)
(* may lie before or after every instant in the database.  The CLI creates *)
(* a client for one fetch; a client in Reused is kept and fetches again,   *)
(* with what it remembers in _last_request_at and _blocked_until.          *)
(*                                                                         *)
(* The URL has passed _validate_url.  Headers keep what the outcome        *)
(* depends on: `lifecycle`, the Deprecation and Sunset fields together,    *)
(* and `cacheControl`.  Time-outs, network errors, redirects and error     *)
(* statuses differ only in their wording and are one outcome, FAILED.  An  *)
(* exception while an answer is handled, be it the cache that refuses it   *)
(* or a field that cannot be read (AnswerReading), leaves the tables alone *)
(* just as those do, and is no outcome of its own here.                    *)
(***************************************************************************)
EXTENDS HttpStore

CONSTANTS
    Clients,        \* HttpLifecycleClient instances
    Reused,         \* those that fetch more than once
    OriginOf,       \* Urls -> Origins
    Lifecycles,     \* contents of the lifecycle fields, None if both absent
    Interval,       \* minimum_origin_interval
    DefaultTtl,     \* default_ttl
    MaxTtl,         \* maximum_ttl
    RetryDelays,    \* the delays _retry_at can come to
    Readings        \* bound: the instants a clock may read

\* The Cache-Control directives _expiration looks at; None if there is no field.
CacheControls ==
    [noStore : BOOLEAN, noCache : BOOLEAN, maxAge : Nat \cup {None}] \cup {None}

HeaderFields == [lifecycle : Lifecycles \cup {None}, cacheControl : CacheControls]

Statuses == {"CACHE_HIT", "RATE_LIMITED", "FAILED", "NOT_MODIFIED",
             "RETRY_LATER", "SUCCESS"}

Result == [status : Statuses, headers : Headers \cup {None},
           validated_at : Nat \cup {None}]

ASSUME HttpFetchAssumption ==
    /\ Headers \subseteq HeaderFields
    /\ Reused \subseteq Clients
    /\ OriginOf \in [Urls -> Origins]
    /\ Interval \in Nat
    /\ DefaultTtl \in Nat /\ MaxTtl \in Nat /\ DefaultTtl <= MaxTtl
    /\ RetryDelays \subseteq Nat
    /\ Readings \subseteq Nat
    /\ None \notin Lifecycles
    /\ None \notin Headers
    /\ None \notin Urls
    /\ None \notin Result

VARIABLES
    stage,          \* where each client's fetch is
    url,            \* the URL it fetches
    now,            \* the instant it read from its clock
    cached,         \* the cache entry it read
    result,         \* the FetchResult it returned
    lastRequestAt,  \* _last_request_at of each client
    blockedUntil,   \* _blocked_until of each client
    requests,       \* history: the requests sent
    deadlines       \* history: the retry deadlines persisted

clientVars == <<stage, url, now, cached, result, lastRequestAt, blockedUntil>>

fetchVars == <<httpStoreVars, clientVars, requests, deadlines>>

-----------------------------------------------------------------------------
(***************************************************************************)
(* Pure parts of the client                                                *)
(***************************************************************************)

Smallest(a, b) == IF a < b THEN a ELSE b

\* _expiration: when an answer received at t goes stale, and whether it may be
\* stored at all.
ExpiresAt(h, t) ==
    LET directives == h.cacheControl
        ttl == IF directives = None THEN DefaultTtl
               ELSE IF directives.noStore \/ directives.noCache THEN 0
               ELSE IF directives.maxAge = None THEN DefaultTtl
               ELSE directives.maxAge
    IN  t + Smallest(ttl, MaxTtl)

Cacheable(h) == h.cacheControl = None \/ ~h.cacheControl.noStore

\* Mutant of Fresh: an entry from after the reading is taken for stale.
FreshUpToNow(entry, t) ==
    entry # None /\ entry.expires_at > t /\ entry.validated_at <= t

\* A cached answer that can stand in for a request at t.
Fresh(entry, t) == entry # None /\ entry.expires_at > t

\* _merge_headers: a field of the 304 answer replaces the cached one.
MergeHeaders(old, fresh) ==
    [lifecycle |-> IF fresh.lifecycle = None THEN old.lifecycle
                   ELSE fresh.lifecycle,
     cacheControl |-> IF fresh.cacheControl = None THEN old.cacheControl
                      ELSE fresh.cacheControl]

\* _next_request_at: the instants the client itself remembers of the origin,
\* the latest of which is its next eligible one.
RememberedInstants(c, o) ==
    {last + Interval : last \in {lastRequestAt[c][o]} \ {None}}
        \cup ({blockedUntil[c][o]} \ {None})

\* A merged 304 answer is again a set of retained headers.
ASSUME MergeAssumption ==
    \A old, fresh \in Headers : MergeHeaders(old, fresh) \in Headers

\* The client knows the origin from an earlier fetch of its own.
KnowsOrigin(c, o) == RememberedInstants(c, o) # {}

MemoryAllows(c, o) == \A t \in RememberedInstants(c, o) : now[c] >= t

Outcome(status, h, validated) ==
    [status |-> status, headers |-> h, validated_at |-> validated]

-----------------------------------------------------------------------------
HttpFetchInit ==
    /\ HttpStoreInit
    /\ stage = [c \in Clients |-> "idle"]
    /\ url = [c \in Clients |-> None]
    /\ now = [c \in Clients |-> 0]
    /\ cached = [c \in Clients |-> None]
    /\ result = [c \in Clients |-> None]
    /\ lastRequestAt = [c \in Clients |-> [o \in Origins |-> None]]
    /\ blockedUntil = [c \in Clients |-> [o \in Origins |-> None]]
    /\ requests = {}
    /\ deadlines = {}

\* The clock is read once and every later step uses this reading.
StartFetch(c, u, at) ==
    /\ stage[c] = "idle"
    /\ stage' = [stage EXCEPT ![c] = "looking"]
    /\ url' = [url EXCEPT ![c] = u]
    /\ now' = [now EXCEPT ![c] = at]
    /\ cached' = [cached EXCEPT ![c] = None]
    /\ result' = [result EXCEPT ![c] = None]
    /\ UNCHANGED <<httpStoreVars, lastRequestAt, blockedUntil, requests,
                   deadlines>>

Return(c, r) ==
    /\ stage' = [stage EXCEPT ![c] = "fetched"]
    /\ result' = [result EXCEPT ![c] = r]

LookUpCache(c) ==
    LET entry == httpCache[url[c]] IN
    /\ stage[c] = "looking"
    /\ cached' = [cached EXCEPT ![c] = entry]
    /\ \/ /\ Fresh(entry, now[c])
          /\ Return(c, Outcome("CACHE_HIT", entry.headers, entry.validated_at))
       \/ /\ ~Fresh(entry, now[c])
          /\ stage' = [stage EXCEPT ![c] = "asking"]
          /\ UNCHANGED result
    /\ UNCHANGED <<httpStoreVars, url, now, lastRequestAt, blockedUntil,
                   requests, deadlines>>

\* The request leaves; _last_request_at remembers it.
Send(c) ==
    LET o == OriginOf[url[c]] IN
    /\ stage' = [stage EXCEPT ![c] = "waiting"]
    /\ lastRequestAt' = [lastRequestAt EXCEPT ![c][o] = now[c]]
    /\ requests' = requests \cup {[client |-> c, origin |-> o, at |-> now[c]]}
    /\ UNCHANGED <<url, now, cached, result, blockedUntil, deadlines>>

\* Only a client that remembers nothing of the origin asks the store.
ClaimAndSend(c) ==
    /\ stage[c] = "asking"
    /\ ~KnowsOrigin(c, OriginOf[url[c]])
    /\ ClaimOriginRequest(OriginOf[url[c]], now[c], Interval)
    /\ Send(c)

\* A client that remembers the origin goes by its own memory alone.
SendFromMemory(c) ==
    /\ stage[c] = "asking"
    /\ KnowsOrigin(c, OriginOf[url[c]])
    /\ MemoryAllows(c, OriginOf[url[c]])
    /\ Send(c)
    /\ UNCHANGED httpStoreVars

RateLimited(c) ==
    LET o == OriginOf[url[c]] IN
    /\ stage[c] = "asking"
    /\ IF KnowsOrigin(c, o) THEN ~MemoryAllows(c, o)
       ELSE ~Claimable(o, now[c], Interval)
    /\ LET entry == cached[c] IN
       Return(c, IF entry = None THEN Outcome("RATE_LIMITED", None, None)
                 ELSE Outcome("RATE_LIMITED", entry.headers, entry.validated_at))
    /\ UNCHANGED <<httpStoreVars, url, now, cached, lastRequestAt,
                   blockedUntil, requests, deadlines>>

\* Time-out, network error, redirect, error status, a 304 nobody asked for, or
\* an exception.
FetchFails(c) ==
    /\ stage[c] = "waiting"
    /\ Return(c, Outcome("FAILED", None, None))
    /\ UNCHANGED <<httpStoreVars, url, now, cached, lastRequestAt,
                   blockedUntil, requests, deadlines>>

Store(c, entry) ==
    IF Cacheable(entry.headers) THEN PutHttpCache(url[c], entry)
    ELSE UNCHANGED httpStoreVars

ReceiveSuccess(c, h) ==
    /\ stage[c] = "waiting"
    /\ Store(c, [headers |-> h, fetched_at |-> now[c], validated_at |-> now[c],
                 expires_at |-> ExpiresAt(h, now[c])])
    /\ Return(c, Outcome("SUCCESS", h, now[c]))
    /\ UNCHANGED <<url, now, cached, lastRequestAt, blockedUntil,
                   requests, deadlines>>

\* 304: the cached entry, as it was read before the request, is renewed.
ReceiveNotModified(c, h) ==
    LET merged == MergeHeaders(cached[c].headers, h) IN
    /\ stage[c] = "waiting"
    /\ cached[c] # None
    /\ Store(c, [headers |-> merged, fetched_at |-> cached[c].fetched_at,
                 validated_at |-> now[c], expires_at |-> ExpiresAt(merged, now[c])])
    /\ Return(c, Outcome("NOT_MODIFIED", merged, now[c]))
    /\ UNCHANGED <<url, now, cached, lastRequestAt, blockedUntil,
                   requests, deadlines>>

\* 429 or 503.
ReceiveRetryLater(c, delay) ==
    LET o == OriginOf[url[c]]
        until == now[c] + delay
    IN  /\ stage[c] = "waiting"
        /\ blockedUntil' = [blockedUntil EXCEPT ![c][o] = until]
        /\ DeferOriginRequest(o, until, now[c])
        /\ deadlines' = deadlines \cup {[origin |-> o, until |-> until]}
        /\ Return(c, Outcome("RETRY_LATER", None, now[c]))
        /\ UNCHANGED <<url, now, cached, lastRequestAt, requests>>

\* The caller is done with the result; a one-fetch client is closed.
CloseOrKeep(c) ==
    stage' = [stage EXCEPT ![c] = IF c \in Reused THEN "idle" ELSE "closed"]

\* The scanner process ends, whatever it was doing.
ClientDies(c) ==
    /\ stage[c] \notin {"idle", "closed", "dead"}
    /\ stage' = [stage EXCEPT ![c] = "dead"]
    /\ UNCHANGED <<httpStoreVars, url, now, cached, result,
                   lastRequestAt, blockedUntil, requests, deadlines>>

FetchStep(c) ==
    \/ \E u \in Urls, at \in Readings : StartFetch(c, u, at)
    \/ LookUpCache(c)
    \/ ClaimAndSend(c)
    \/ SendFromMemory(c)
    \/ RateLimited(c)
    \/ FetchFails(c)
    \/ \E h \in Headers : ReceiveSuccess(c, h)
    \/ \E h \in Headers : ReceiveNotModified(c, h)
    \/ \E delay \in RetryDelays : ReceiveRetryLater(c, delay)

\* A caller that only looks at the result.
DropResult(c) ==
    /\ stage[c] = "fetched"
    /\ CloseOrKeep(c)
    /\ UNCHANGED <<httpStoreVars, url, now, cached, result,
                   lastRequestAt, blockedUntil, requests, deadlines>>

FetchNext ==
    \E c \in Clients : FetchStep(c) \/ DropResult(c) \/ ClientDies(c)

FetchSpec == HttpFetchInit /\ [][FetchNext]_fetchVars

-----------------------------------------------------------------------------
(***************************************************************************)
(* Properties                                                              *)
(***************************************************************************)

FetchTypeOK ==
    /\ HttpStoreTypeOK
    /\ stage \in [Clients -> {"idle", "looking", "asking", "waiting",
                              "fetched", "withdrawing", "closed", "dead"}]
    /\ url \in [Clients -> Urls \cup {None}]
    /\ \A c \in Clients :
           stage[c] \in {"looking", "asking", "waiting"} => url[c] # None
    /\ now \in [Clients -> Nat]
    /\ cached \in [Clients -> CacheEntry \cup {None}]
    /\ result \in [Clients -> Result \cup {None}]
    /\ lastRequestAt \in [Clients -> [Origins -> Nat \cup {None}]]
    /\ blockedUntil \in [Clients -> [Origins -> Nat \cup {None}]]
    /\ requests \subseteq [client : Clients, origin : Origins, at : Nat]
    /\ deadlines \subseteq [origin : Origins, until : Nat]

\* The clients that fetch once, as the CLI makes them.
OneFetch == Clients \ Reused

\* One-fetch scanners keep the minimum interval between them, by the instants
\* they claimed (claim_origin_request), whatever their clocks read, in whatever
\* order they get there and whatever clients that are kept do in between.
RequestsSpaced ==
    \A r, s \in requests :
        /\ r.origin = s.origin
        /\ r # s
        /\ {r.client, s.client} \subseteq OneFetch
        =>
            r.at >= s.at + Interval \/ s.at >= r.at + Interval

\* Once any scanner has persisted a Retry-After deadline, no one-fetch scanner
\* starts a request to the origin before it, even one whose clock reading is
\* older or which claims after a later request has cleared the deadline.
DeferralsHonoured ==
    [][\A r \in requests' \ requests, d \in deadlines :
           r.origin = d.origin /\ r.client \in OneFetch
               => r.at >= d.until]_fetchVars

\* Renewing an entry on a 304 never trips put_http_cache's check that an entry
\* is not validated before it was fetched, however old the reading of the
\* clock and whoever stored the entry meanwhile.
RenewalStorable ==
    \A c \in Clients : stage[c] = "waiting" /\ cached[c] # None =>
        cached[c].fetched_at <= now[c]

=============================================================================
