-------------------------- MODULE HttpFetchProofs --------------------------
(***************************************************************************)
(* Theorems about HttpFetch, for any number of scanners, origins and URLs  *)
(* and whatever their clocks read.                                         *)
(***************************************************************************)
EXTENDS HttpFetch, TLAPS

-----------------------------------------------------------------------------
(***************************************************************************)
(* Type correctness                                                        *)
(***************************************************************************)

Stages == {"idle", "looking", "asking", "waiting", "fetched", "withdrawing",
           "closed", "dead"}

\* An answer never goes stale before it was received.
LEMMA ExpiresAtBound ==
    ASSUME NEW h \in Headers, NEW t \in Nat
    PROVE  ExpiresAt(h, t) \in Nat /\ ExpiresAt(h, t) >= t
<1> DEFINE directives == h.cacheControl
           ttl == IF directives = None THEN DefaultTtl
                  ELSE IF directives.noStore \/ directives.noCache THEN 0
                  ELSE IF directives.maxAge = None THEN DefaultTtl
                  ELSE directives.maxAge
<1>1. directives \in CacheControls
  BY HttpFetchAssumption DEF HeaderFields
<1>2. ttl \in Nat
  <2>1. CASE directives = None
    BY <2>1, HttpFetchAssumption
  <2>2. CASE directives # None
    <3>1. directives.maxAge \in Nat \cup {None}
      BY <1>1, <2>2 DEF CacheControls
    <3>2. QED
      BY <2>2, <3>1, HttpFetchAssumption
  <2>3. QED
    BY <2>1, <2>2
<1>3. Smallest(ttl, MaxTtl) \in Nat
  <2> HIDE DEF ttl
  <2> QED BY <1>2, HttpFetchAssumption DEF Smallest
<1>4. ExpiresAt(h, t) = t + Smallest(ttl, MaxTtl)
  BY DEF ExpiresAt
<1> HIDE DEF ttl
<1>5. QED
  BY <1>3, <1>4

\* What each client has between its steps: the fetch it is in the middle of.
ClientTypeOK ==
    /\ stage \in [Clients -> Stages]
    /\ url \in [Clients -> Urls \cup {None}]
    /\ \A c \in Clients :
           stage[c] \in {"looking", "asking", "waiting"} => url[c] # None
    /\ now \in [Clients -> Nat]
    /\ cached \in [Clients -> CacheEntry \cup {None}]
    /\ result \in [Clients -> Result \cup {None}]

MemoryTypeOK ==
    /\ lastRequestAt \in [Clients -> [Origins -> Nat \cup {None}]]
    /\ blockedUntil \in [Clients -> [Origins -> Nat \cup {None}]]

HistoryTypeOK ==
    /\ requests \subseteq [client : Clients, origin : Origins, at : Nat]
    /\ deadlines \subseteq [origin : Origins, until : Nat]

LEMMA FetchTypeParts ==
    ASSUME HttpStoreTypeOK', ClientTypeOK', MemoryTypeOK', HistoryTypeOK'
    PROVE  FetchTypeOK'
BY DEF FetchTypeOK, ClientTypeOK, MemoryTypeOK, HistoryTypeOK, Stages

\* A client in the middle of a fetch has a URL, and so an origin.
LEMMA BusyClient ==
    ASSUME FetchTypeOK, NEW c \in Clients,
           stage[c] \in {"looking", "asking", "waiting"}
    PROVE  /\ url[c] \in Urls
           /\ OriginOf[url[c]] \in Origins
           /\ now[c] \in Nat
           /\ cached[c] \in CacheEntry \cup {None}
BY HttpFetchAssumption DEF FetchTypeOK

LEMMA ReturnType ==
    ASSUME FetchTypeOK, NEW c \in Clients, NEW r \in Result, Return(c, r),
           UNCHANGED <<url, now, cached>>
    PROVE  ClientTypeOK'
<1>1. stage' \in [Clients -> Stages] /\ result' \in [Clients -> Result \cup {None}]
  BY DEF Return, FetchTypeOK, Stages
<1>2. \A d \in Clients :
          stage'[d] \in {"looking", "asking", "waiting"} => url'[d] # None
  BY DEF Return, FetchTypeOK
<1>3. QED
  BY <1>1, <1>2 DEF ClientTypeOK, FetchTypeOK

LEMMA StoreType ==
    ASSUME FetchTypeOK, NEW c \in Clients, url[c] \in Urls,
           NEW e \in CacheEntry, Store(c, e)
    PROVE  HttpStoreTypeOK'
BY DEF Store, PutHttpCache, Trimmed, HttpStoreTypeOK, FetchTypeOK, httpStoreVars

LEMMA ClaimType ==
    ASSUME FetchTypeOK, NEW o \in Origins, NEW at \in Nat,
           ClaimOriginRequest(o, at, Interval)
    PROVE  HttpStoreTypeOK'
BY DEF ClaimOriginRequest, HttpStoreTypeOK, FetchTypeOK, OriginRow

\* A deferred row is never lost, keeps its request time and is blocked at
\* least until the deadline and until the one it already had.
LEMMA DeferResult ==
    ASSUME FetchTypeOK, NEW o \in Origins, NEW until \in Nat, NEW at \in Nat,
           DeferOriginRequest(o, until, at)
    PROVE  /\ HttpStoreTypeOK'
           /\ originState'[o] \in OriginRow
           /\ originState'[o].blocked_until \in Nat
           /\ originState'[o].blocked_until >= until
           /\ originState[o] # None =>
                  /\ originState'[o].last_requested_at =
                         originState[o].last_requested_at
                  /\ originState[o].blocked_until # None =>
                         originState'[o].blocked_until >=
                             originState[o].blocked_until
           /\ \A p \in Origins \ {o} : originState'[p] = originState[p]
<1> DEFINE row == originState[o]
           fresh == row = None \/ row.blocked_until = None
           newRow == [last_requested_at |->
                          IF row = None THEN at ELSE row.last_requested_at,
                      blocked_until |->
                          IF fresh THEN until ELSE Latest(until, row.blocked_until)]
<1>1. originState \in [Origins -> OriginRow \cup {None}]
  BY DEF FetchTypeOK, HttpStoreTypeOK
<1>2. originState' = [originState EXCEPT ![o] = newRow] /\ httpCache' = httpCache
  BY DEF DeferOriginRequest
<1>3. row # None => /\ row.last_requested_at \in Nat
                    /\ row.blocked_until \in Nat \cup {None}
  BY <1>1 DEF OriginRow
<1>4. /\ newRow.last_requested_at \in Nat
      /\ newRow.blocked_until \in Nat
      /\ newRow.blocked_until >= until
      /\ row # None => newRow.last_requested_at = row.last_requested_at
      /\ ~fresh => newRow.blocked_until >= row.blocked_until
  BY <1>3 DEF Latest
<1>5. newRow \in OriginRow
  BY <1>4 DEF OriginRow
<1>6. originState'[o] = newRow /\ originState' \in [Origins -> OriginRow \cup {None}]
  BY <1>1, <1>2, <1>5
<1>7. HttpStoreTypeOK'
  BY <1>2, <1>6 DEF HttpStoreTypeOK, FetchTypeOK
<1>8. \A p \in Origins \ {o} : originState'[p] = originState[p]
  BY <1>1, <1>2
<1>9. QED
  BY <1>4, <1>5, <1>6, <1>7, <1>8

LEMMA FetchTypeInit == HttpFetchInit => FetchTypeOK
BY HttpFetchAssumption DEF HttpFetchInit, HttpStoreInit, HttpStoreTypeOK,
    FetchTypeOK

\* The entry a 200 leaves in the cache, and the one a 304 renews.
LEMMA StoredEntries ==
    ASSUME FetchTypeOK, NEW c \in Clients, NEW h \in Headers, stage[c] = "waiting"
    PROVE  /\ [headers |-> h, fetched_at |-> now[c], validated_at |-> now[c],
               expires_at |-> ExpiresAt(h, now[c])] \in CacheEntry
           /\ cached[c] # None =>
                /\ MergeHeaders(cached[c].headers, h) \in Headers
                /\ [headers |-> MergeHeaders(cached[c].headers, h),
                    fetched_at |-> cached[c].fetched_at,
                    validated_at |-> now[c],
                    expires_at |-> ExpiresAt(MergeHeaders(cached[c].headers, h),
                                             now[c])] \in CacheEntry
<1>1. now[c] \in Nat /\ cached[c] \in CacheEntry \cup {None}
  BY BusyClient
<1>2. ExpiresAt(h, now[c]) \in Nat
  BY <1>1, ExpiresAtBound
<1>3. ASSUME cached[c] # None
      PROVE  /\ MergeHeaders(cached[c].headers, h) \in Headers
             /\ [headers |-> MergeHeaders(cached[c].headers, h),
                 fetched_at |-> cached[c].fetched_at,
                 validated_at |-> now[c],
                 expires_at |-> ExpiresAt(MergeHeaders(cached[c].headers, h),
                                          now[c])] \in CacheEntry
  <2> DEFINE merged == MergeHeaders(cached[c].headers, h)
  <2>1. cached[c].headers \in Headers /\ cached[c].fetched_at \in Nat
    BY <1>1, <1>3 DEF CacheEntry
  <2>2. merged \in Headers
    BY <2>1, MergeAssumption
  <2> HIDE DEF merged
  <2>3. ExpiresAt(merged, now[c]) \in Nat
    BY <1>1, <2>2, ExpiresAtBound
  <2>4. QED
    BY <1>1, <2>1, <2>2, <2>3 DEF CacheEntry, merged
<1>4. QED
  BY <1>1, <1>2, <1>3 DEF CacheEntry

LEMMA FetchTypeStep ==
    ASSUME FetchTypeOK, [FetchNext]_fetchVars
    PROVE  FetchTypeOK'
<1> USE FetchTypeParts
<1>1. ASSUME NEW c \in Clients, NEW u \in Urls, NEW at \in Readings,
             StartFetch(c, u, at)
      PROVE  FetchTypeOK'
  BY <1>1, HttpFetchAssumption
     DEF StartFetch, FetchTypeOK, HttpStoreTypeOK, httpStoreVars
<1>2. ASSUME NEW c \in Clients, LookUpCache(c)
      PROVE  FetchTypeOK'
  <2> DEFINE entry == httpCache[url[c]]
  <2>1. entry \in CacheEntry \cup {None}
    BY <1>2, BusyClient DEF LookUpCache, FetchTypeOK, HttpStoreTypeOK
  <2>2. cached' \in [Clients -> CacheEntry \cup {None}]
    BY <1>2, <2>1 DEF LookUpCache, FetchTypeOK
  <2>3. stage' \in [Clients -> Stages]
    BY <1>2 DEF LookUpCache, Return, FetchTypeOK, Stages
  <2>4. result' \in [Clients -> Result \cup {None}]
    <3>1. CASE UNCHANGED result
      BY <3>1 DEF FetchTypeOK
    <3>2. CASE Fresh(entry, now[c]) /\
               Return(c, Outcome("CACHE_HIT", entry.headers, entry.validated_at))
      <4>1. entry \in CacheEntry
        BY <2>1, <3>2 DEF Fresh
      <4>2. Outcome("CACHE_HIT", entry.headers, entry.validated_at) \in Result
        BY <4>1 DEF Outcome, Result, Statuses, CacheEntry
      <4>3. QED
        BY <3>2, <4>2 DEF Return, FetchTypeOK
    <3>3. QED
      BY <1>2, <3>1, <3>2 DEF LookUpCache
  <2>5. \A d \in Clients :
            stage'[d] \in {"looking", "asking", "waiting"} => url'[d] # None
    BY <1>2 DEF LookUpCache, Return, FetchTypeOK
  <2>6. UNCHANGED <<httpStoreVars, url, now, lastRequestAt, blockedUntil,
                    requests, deadlines>>
    BY <1>2 DEF LookUpCache
  <2>7. QED
    BY <2>2, <2>3, <2>4, <2>5, <2>6
       DEF FetchTypeOK, HttpStoreTypeOK, httpStoreVars, Stages
<1>3. ASSUME NEW c \in Clients, stage[c] = "asking", Send(c), HttpStoreTypeOK'
      PROVE  FetchTypeOK'
  <2>1. OriginOf[url[c]] \in Origins /\ now[c] \in Nat
    BY <1>3, BusyClient
  <2>2. lastRequestAt' \in [Clients -> [Origins -> Nat \cup {None}]]
    BY <1>3, <2>1 DEF Send, FetchTypeOK
  <2>3. requests' \subseteq [client : Clients, origin : Origins, at : Nat]
    BY <1>3, <2>1 DEF Send, FetchTypeOK
  <2>4. ClientTypeOK'
    BY <1>3 DEF Send, FetchTypeOK, ClientTypeOK, Stages
  <2>5. QED
    BY <1>3, <2>2, <2>3, <2>4 DEF Send, MemoryTypeOK, HistoryTypeOK, FetchTypeOK
<1>4. ASSUME NEW c \in Clients, ClaimAndSend(c)
      PROVE  FetchTypeOK'
  <2>1. HttpStoreTypeOK'
    BY <1>4, BusyClient, ClaimType DEF ClaimAndSend
  <2>2. QED
    BY <1>3, <1>4, <2>1 DEF ClaimAndSend
<1>5. ASSUME NEW c \in Clients, SendFromMemory(c)
      PROVE  FetchTypeOK'
  BY <1>3, <1>5 DEF SendFromMemory, FetchTypeOK, HttpStoreTypeOK, httpStoreVars
<1>6. ASSUME NEW c \in Clients, RateLimited(c)
      PROVE  FetchTypeOK'
  <2> DEFINE entry == cached[c]
             r == IF entry = None THEN Outcome("RATE_LIMITED", None, None)
                  ELSE Outcome("RATE_LIMITED", entry.headers, entry.validated_at)
  <2>1. entry \in CacheEntry \cup {None}
    BY <1>6, BusyClient DEF RateLimited
  <2>2. r \in Result
    BY <2>1 DEF Outcome, Result, Statuses, CacheEntry
  <2>3. Return(c, r) /\ UNCHANGED <<httpStoreVars, url, now, cached,
            lastRequestAt, blockedUntil, requests, deadlines>>
    BY <1>6 DEF RateLimited
  <2> HIDE DEF r
  <2>4. ClientTypeOK'
    BY <2>2, <2>3, ReturnType
  <2>5. QED
    BY <2>3, <2>4 DEF HttpStoreTypeOK, httpStoreVars, MemoryTypeOK, HistoryTypeOK,
           FetchTypeOK
<1>7. ASSUME NEW c \in Clients, FetchFails(c)
      PROVE  FetchTypeOK'
  <2>1. Outcome("FAILED", None, None) \in Result
    BY DEF Outcome, Result, Statuses
  <2>2. ClientTypeOK'
    BY <1>7, <2>1, ReturnType DEF FetchFails
  <2>3. QED
    BY <1>7, <2>2
       DEF FetchFails, HttpStoreTypeOK, httpStoreVars, MemoryTypeOK, HistoryTypeOK,
           FetchTypeOK
<1>8. ASSUME NEW c \in Clients, NEW h \in Headers, ReceiveSuccess(c, h)
      PROVE  FetchTypeOK'
  <2>1. stage[c] = "waiting" /\ url[c] \in Urls /\ now[c] \in Nat
    BY <1>8, BusyClient DEF ReceiveSuccess
  <2>2. HttpStoreTypeOK'
    BY <1>8, <2>1, StoredEntries, StoreType DEF ReceiveSuccess
  <2>3. Outcome("SUCCESS", h, now[c]) \in Result
    BY <2>1 DEF Outcome, Result, Statuses
  <2>4. ClientTypeOK'
    BY <1>8, <2>3, ReturnType DEF ReceiveSuccess
  <2>5. QED
    BY <1>8, <2>2, <2>4 DEF ReceiveSuccess, MemoryTypeOK, HistoryTypeOK, FetchTypeOK
<1>9. ASSUME NEW c \in Clients, NEW h \in Headers, ReceiveNotModified(c, h)
      PROVE  FetchTypeOK'
  <2> DEFINE merged == MergeHeaders(cached[c].headers, h)
  <2>1. /\ stage[c] = "waiting" /\ cached[c] # None
        /\ url[c] \in Urls /\ now[c] \in Nat
    BY <1>9, BusyClient DEF ReceiveNotModified
  <2>2. merged \in Headers
    BY <2>1, StoredEntries
  <2>3. HttpStoreTypeOK'
    BY <1>9, <2>1, StoredEntries, StoreType DEF ReceiveNotModified
  <2> HIDE DEF merged
  <2>4. Outcome("NOT_MODIFIED", merged, now[c]) \in Result
    BY <2>1, <2>2 DEF Outcome, Result, Statuses
  <2>5. ClientTypeOK'
    BY <1>9, <2>4, ReturnType DEF ReceiveNotModified, merged
  <2>6. QED
    BY <1>9, <2>3, <2>5 DEF ReceiveNotModified, MemoryTypeOK, HistoryTypeOK,
           FetchTypeOK
<1>10. ASSUME NEW c \in Clients, NEW delay \in RetryDelays,
              ReceiveRetryLater(c, delay)
       PROVE  FetchTypeOK'
  <2> DEFINE o == OriginOf[url[c]]
             until == now[c] + delay
  <2>1. stage[c] = "waiting" /\ o \in Origins /\ now[c] \in Nat
    BY <1>10, BusyClient DEF ReceiveRetryLater
  <2>2. until \in Nat
    BY <2>1, HttpFetchAssumption
  <2>3. /\ blockedUntil' = [blockedUntil EXCEPT ![c][o] = until]
        /\ DeferOriginRequest(o, until, now[c])
        /\ deadlines' = deadlines \cup {[origin |-> o, until |-> until]}
        /\ Return(c, Outcome("RETRY_LATER", None, now[c]))
        /\ UNCHANGED <<url, now, cached, lastRequestAt, requests>>
    BY <1>10 DEF ReceiveRetryLater
  <2> HIDE DEF o, until
  <2>4. HttpStoreTypeOK'
    BY <2>1, <2>2, <2>3, DeferResult
  <2>5. MemoryTypeOK' /\ HistoryTypeOK'
    BY <2>1, <2>2, <2>3 DEF MemoryTypeOK, HistoryTypeOK, FetchTypeOK
  <2>6. Outcome("RETRY_LATER", None, now[c]) \in Result
    BY <2>1 DEF Outcome, Result, Statuses
  <2>7. ClientTypeOK'
    BY <2>3, <2>6, ReturnType
  <2>8. QED
    BY <2>4, <2>5, <2>7
<1>11. ASSUME NEW c \in Clients, DropResult(c) \/ ClientDies(c)
       PROVE  FetchTypeOK'
  BY <1>11 DEF DropResult, CloseOrKeep, ClientDies, FetchTypeOK,
      HttpStoreTypeOK, httpStoreVars
<1>12. CASE UNCHANGED fetchVars
  BY <1>12 DEF fetchVars, clientVars, httpStoreVars, FetchTypeOK, HttpStoreTypeOK
<1>13. QED
  BY <1>1, <1>2, <1>4, <1>5, <1>6, <1>7, <1>8, <1>9, <1>10, <1>11, <1>12
     DEF FetchNext, FetchStep

\* Every variable of the fetch stays in its type, whatever the scanners do.
THEOREM FetchTypeCorrect == FetchSpec => []FetchTypeOK
BY FetchTypeInit, FetchTypeStep, PTL DEF FetchSpec

-----------------------------------------------------------------------------
(***************************************************************************)
(* Pacing                                                                  *)
(***************************************************************************)

\* One-fetch clients remember nothing of an origin before they ask the store.
NothingRemembered ==
    \A c \in OneFetch : stage[c] \in {"idle", "looking", "asking"} =>
        \A o \in Origins : lastRequestAt[c][o] = None /\ blockedUntil[c][o] = None

\* The row of an origin is no older than any request a one-fetch client has
\* sent to it.
RowCoversRequests ==
    \A r \in requests : r.client \in OneFetch =>
        /\ originState[r.origin] # None
        /\ originState[r.origin].last_requested_at >= r.at

\* A deadline ever persisted is still in the row, or a later one is, or a
\* request claimed at or after it has cleared it.
Covered(row, until) ==
    \/ row.last_requested_at >= until
    \/ row.blocked_until # None /\ row.blocked_until >= until

RowCoversDeadlines ==
    \A d \in deadlines :
        originState[d.origin] # None /\ Covered(originState[d.origin], d.until)

PacingInv ==
    /\ FetchTypeOK
    /\ NothingRemembered
    /\ RowCoversRequests
    /\ RowCoversDeadlines
    /\ RequestsSpaced

\* A granted claim comes after all the row stands for.
LEMMA ClaimedLate ==
    ASSUME NEW row \in OriginRow, NEW at \in Nat, at >= NextEligible(row, Interval)
    PROVE  /\ at >= row.last_requested_at + Interval
           /\ \A until \in Nat : Covered(row, until) => at >= until
<1>1. row.last_requested_at \in Nat /\ row.blocked_until \in Nat \cup {None}
  BY DEF OriginRow
<1>2. at >= row.last_requested_at + Interval
  BY <1>1, HttpFetchAssumption, HttpStoreAssumption DEF NextEligible, Latest
<1>3. row.blocked_until # None => at >= row.blocked_until
  BY <1>1, HttpFetchAssumption, HttpStoreAssumption DEF NextEligible, Latest
<1>4. QED
  BY <1>1, <1>2, <1>3, HttpFetchAssumption DEF Covered

\* What a granted claim does to the row.
LEMMA ClaimResult ==
    ASSUME FetchTypeOK, NEW o \in Origins, NEW at \in Nat,
           ClaimOriginRequest(o, at, Interval)
    PROVE  /\ originState'[o] =
                  [last_requested_at |-> at, blocked_until |-> None]
           /\ \A p \in Origins \ {o} : originState'[p] = originState[p]
           /\ originState[o] # None =>
                  /\ originState[o] \in OriginRow
                  /\ at >= NextEligible(originState[o], Interval)
BY DEF ClaimOriginRequest, Claimable, FetchTypeOK, HttpStoreTypeOK

LEMMA PacingInit == HttpFetchInit => PacingInv
BY FetchTypeInit DEF HttpFetchInit, PacingInv, NothingRemembered,
    RowCoversRequests, RowCoversDeadlines, RequestsSpaced, OneFetch

\* The request a claim lets out keeps its distance to all earlier ones of
\* one-fetch clients, and to all persisted deadlines.
LEMMA ClaimSafe ==
    ASSUME PacingInv, NEW c \in Clients, ClaimAndSend(c)
    PROVE  /\ \A r \in requests :
                  r.client \in OneFetch /\ r.origin = OriginOf[url[c]]
                      => now[c] >= r.at + Interval
           /\ \A d \in deadlines :
                  d.origin = OriginOf[url[c]] => now[c] >= d.until
<1> DEFINE o == OriginOf[url[c]]
           row == originState[o]
<1>1. o \in Origins /\ now[c] \in Nat
  BY BusyClient DEF PacingInv, ClaimAndSend
<1>2. row # None => row \in OriginRow /\ now[c] >= NextEligible(row, Interval)
  BY <1>1, ClaimResult DEF PacingInv, ClaimAndSend
<1>3. ASSUME NEW r \in requests, r.client \in OneFetch, r.origin = o
      PROVE  now[c] >= r.at + Interval
  <2>1. row # None /\ row.last_requested_at >= r.at
    BY <1>3 DEF PacingInv, RowCoversRequests
  <2>2. r.at \in Nat /\ row.last_requested_at \in Nat
    BY <1>2, <2>1 DEF PacingInv, FetchTypeOK, OriginRow
  <2>3. now[c] >= row.last_requested_at + Interval
    BY <1>1, <1>2, <2>1, ClaimedLate
  <2> HIDE DEF row, o
  <2>4. QED
    BY <1>1, <2>1, <2>2, <2>3, HttpFetchAssumption
<1>4. ASSUME NEW d \in deadlines, d.origin = o
      PROVE  now[c] >= d.until
  <2>1. row # None /\ Covered(row, d.until) /\ d.until \in Nat
    BY <1>4 DEF PacingInv, RowCoversDeadlines, FetchTypeOK
  <2>2. QED
    BY <1>1, <1>2, <2>1, ClaimedLate
<1>5. QED
  BY <1>3, <1>4

LEMMA ClaimKeepsPacing ==
    ASSUME PacingInv, NEW c \in Clients, ClaimAndSend(c), FetchTypeOK'
    PROVE  PacingInv'
<1> DEFINE o == OriginOf[url[c]]
           new == [client |-> c, origin |-> o, at |-> now[c]]
<1>1. o \in Origins /\ now[c] \in Nat
  BY BusyClient DEF PacingInv, ClaimAndSend
<1>2. requests' = requests \cup {new} /\ deadlines' = deadlines
  BY DEF ClaimAndSend, Send
<1>3. /\ originState'[o] = [last_requested_at |-> now[c], blocked_until |-> None]
      /\ \A p \in Origins \ {o} : originState'[p] = originState[p]
  BY <1>1, ClaimResult DEF PacingInv, ClaimAndSend
<1>4. originState'[o].last_requested_at = now[c] /\ originState'[o] # None
  <2>1. originState'[o] \in OriginRow
    BY <1>1, <1>3 DEF OriginRow
  <2>2. QED
    BY <1>3, <2>1, HttpStoreAssumption
<1>5. /\ \A r \in requests : r.client \in OneFetch /\ r.origin = o
                                    => now[c] >= r.at + Interval
      /\ \A d \in deadlines : d.origin = o => now[c] >= d.until
  BY ClaimSafe
<1>6. /\ \A r \in requests : r.origin \in Origins /\ r.at \in Nat
      /\ \A d \in deadlines : d.origin \in Origins /\ d.until \in Nat
  BY DEF PacingInv, FetchTypeOK
<1>7. NothingRemembered'
  BY DEF ClaimAndSend, Send, PacingInv, NothingRemembered, FetchTypeOK, OneFetch
<1> HIDE DEF o
<1>8. RowCoversRequests'
  <2> SUFFICES ASSUME NEW r \in requests', r.client \in OneFetch
               PROVE  /\ originState'[r.origin] # None
                      /\ originState'[r.origin].last_requested_at >= r.at
    BY DEF RowCoversRequests
  <2>1. CASE r = new
    BY <1>1, <1>4, <2>1
  <2>2. CASE r \in requests /\ r.origin = o
    <3>1. now[c] >= r.at
      BY <1>1, <1>5, <1>6, <2>2, HttpFetchAssumption
    <3>2. QED
      BY <1>4, <2>2, <3>1
  <2>3. CASE r \in requests /\ r.origin # o
    BY <1>3, <1>6, <2>3 DEF PacingInv, RowCoversRequests
  <2>4. QED
    BY <1>2, <2>1, <2>2, <2>3
<1>9. RowCoversDeadlines'
  <2> SUFFICES ASSUME NEW d \in deadlines
               PROVE  /\ originState'[d.origin] # None
                      /\ Covered(originState'[d.origin], d.until)
    BY <1>2 DEF RowCoversDeadlines
  <2>1. CASE d.origin = o
    BY <1>4, <1>5, <2>1 DEF Covered
  <2>2. CASE d.origin # o
    BY <1>3, <1>6, <2>2 DEF PacingInv, RowCoversDeadlines
  <2>3. QED
    BY <2>1, <2>2
<1>10. RequestsSpaced'
  <2> SUFFICES ASSUME NEW r \in requests', NEW s \in requests',
                      r.origin = s.origin, r # s,
                      {r.client, s.client} \subseteq OneFetch
               PROVE  r.at >= s.at + Interval \/ s.at >= r.at + Interval
    BY DEF RequestsSpaced
  <2>1. CASE r \in requests /\ s \in requests
    BY <2>1 DEF PacingInv, RequestsSpaced
  <2>2. CASE r = new /\ s \in requests
    BY <1>5, <2>2
  <2>3. CASE s = new /\ r \in requests
    BY <1>5, <2>3
  <2>4. QED
    BY <1>2, <2>1, <2>2, <2>3
<1>11. QED
  BY <1>7, <1>8, <1>9, <1>10 DEF PacingInv

\* A step that sends nothing and leaves the table alone leaves pacing alone.
LEMMA PacingUntouched ==
    ASSUME PacingInv, FetchTypeOK', NothingRemembered',
           UNCHANGED <<originState, requests, deadlines>>
    PROVE  PacingInv'
BY DEF PacingInv, RowCoversRequests, RowCoversDeadlines, RequestsSpaced, Covered

\* The result of a fetch is recorded, or the client is let go.
LEMMA PacingIdle ==
    ASSUME PacingInv, FetchTypeOK', NEW c \in Clients,
           NEW st \in {"fetched", "closed", "dead", "idle"},
           st = "idle" => c \in Reused,
           stage' = [stage EXCEPT ![c] = st],
           UNCHANGED <<originState, requests, deadlines, lastRequestAt,
                       blockedUntil>>
    PROVE  PacingInv'
<1>1. NothingRemembered'
  BY DEF PacingInv, NothingRemembered, FetchTypeOK, OneFetch
<1>2. QED
  BY <1>1, PacingUntouched

\* Only a client that is kept ever goes by its memory.
LEMMA MemoryIsReused ==
    ASSUME PacingInv, NEW c \in Clients, SendFromMemory(c)
    PROVE  c \in Reused
<1> SUFFICES ASSUME c \in OneFetch PROVE FALSE
  BY DEF OneFetch
<1>1. OriginOf[url[c]] \in Origins
  BY BusyClient DEF SendFromMemory, PacingInv
<1>2. RememberedInstants(c, OriginOf[url[c]]) = {}
  BY <1>1 DEF SendFromMemory, PacingInv, NothingRemembered, RememberedInstants
<1>3. QED
  BY <1>2 DEF SendFromMemory, KnowsOrigin

\* What it sends then is no concern of the one-fetch clients.
LEMMA MemoryKeepsPacing ==
    ASSUME PacingInv, NEW c \in Clients, SendFromMemory(c), FetchTypeOK'
    PROVE  PacingInv'
<1> DEFINE new == [client |-> c, origin |-> OriginOf[url[c]], at |-> now[c]]
<1>1. c \notin OneFetch
  BY MemoryIsReused DEF OneFetch
<1>2. /\ requests' = requests \cup {new}
      /\ UNCHANGED <<originState, deadlines, blockedUntil>>
  BY DEF SendFromMemory, Send, httpStoreVars
<1>3. NothingRemembered'
  BY <1>1 DEF SendFromMemory, Send, PacingInv, NothingRemembered, FetchTypeOK,
      OneFetch
<1>4. \A r \in requests' : r.client \in OneFetch => r \in requests
  BY <1>1, <1>2
<1>5. RowCoversRequests' /\ RowCoversDeadlines'
  BY <1>2, <1>4 DEF PacingInv, RowCoversRequests, RowCoversDeadlines, Covered
<1>6. RequestsSpaced'
  BY <1>4 DEF PacingInv, RequestsSpaced
<1>7. QED
  BY <1>3, <1>5, <1>6 DEF PacingInv

LEMMA PacingStep ==
    ASSUME PacingInv, [FetchNext]_fetchVars
    PROVE  PacingInv'
<1> FetchTypeOK /\ FetchTypeOK'
  BY FetchTypeStep DEF PacingInv
<1>1. ASSUME NEW c \in Clients, NEW u \in Urls, NEW at \in Readings,
             StartFetch(c, u, at)
      PROVE  PacingInv'
  BY <1>1, PacingUntouched
     DEF StartFetch, PacingInv, NothingRemembered, httpStoreVars, FetchTypeOK
<1>2. ASSUME NEW c \in Clients, LookUpCache(c)
      PROVE  PacingInv'
  <2>1. UNCHANGED <<originState, requests, deadlines, lastRequestAt,
                    blockedUntil>>
    BY <1>2 DEF LookUpCache, httpStoreVars
  <2>2. /\ stage[c] = "looking"
        /\ \A d \in Clients \ {c} : stage'[d] = stage[d]
    BY <1>2 DEF LookUpCache, Return, FetchTypeOK
  <2>3. NothingRemembered'
    BY <2>1, <2>2 DEF PacingInv, NothingRemembered, OneFetch
  <2>4. QED
    BY <2>1, <2>3, PacingUntouched
<1>3. ASSUME NEW c \in Clients, ClaimAndSend(c)
      PROVE  PacingInv'
  BY <1>3, ClaimKeepsPacing
<1>4. ASSUME NEW c \in Clients, SendFromMemory(c)
      PROVE  PacingInv'
  BY <1>4, MemoryKeepsPacing
<1>5. ASSUME NEW c \in Clients, RateLimited(c) \/ FetchFails(c)
      PROVE  PacingInv'
  <2>1. /\ stage' = [stage EXCEPT ![c] = "fetched"]
        /\ UNCHANGED <<originState, requests, deadlines, lastRequestAt,
                       blockedUntil>>
    BY <1>5 DEF RateLimited, FetchFails, Return, httpStoreVars
  <2>2. QED
    BY <2>1, PacingIdle
<1>6. ASSUME NEW c \in Clients, NEW h \in Headers,
             ReceiveSuccess(c, h) \/ ReceiveNotModified(c, h)
      PROVE  PacingInv'
  <2>1. UNCHANGED <<originState, requests, deadlines, lastRequestAt,
                    blockedUntil>>
    BY <1>6 DEF ReceiveSuccess, ReceiveNotModified, Store, PutHttpCache,
        httpStoreVars
  <2>2. stage' = [stage EXCEPT ![c] = "fetched"]
    BY <1>6 DEF ReceiveSuccess, ReceiveNotModified, Return
  <2>3. QED
    BY <2>1, <2>2, PacingIdle
<1>7. ASSUME NEW c \in Clients, NEW delay \in RetryDelays,
             ReceiveRetryLater(c, delay)
      PROVE  PacingInv'
  <2> DEFINE o == OriginOf[url[c]]
             until == now[c] + delay
  <2>1. o \in Origins /\ now[c] \in Nat /\ until \in Nat
    BY <1>7, BusyClient, HttpFetchAssumption DEF ReceiveRetryLater
  <2>2. DeferOriginRequest(o, until, now[c])
    BY <1>7 DEF ReceiveRetryLater
  <2>3. /\ requests' = requests
        /\ deadlines' = deadlines \cup {[origin |-> o, until |-> until]}
    BY <1>7 DEF ReceiveRetryLater
  <2>4. NothingRemembered'
    <3> SUFFICES ASSUME NEW d \in OneFetch,
                        stage'[d] \in {"idle", "looking", "asking"},
                        NEW p \in Origins
                 PROVE  lastRequestAt'[d][p] = None /\ blockedUntil'[d][p] = None
      BY DEF NothingRemembered
    <3>1. d # c /\ stage'[d] = stage[d]
      BY <1>7 DEF ReceiveRetryLater, Return, FetchTypeOK, OneFetch
    <3>2. lastRequestAt'[d] = lastRequestAt[d] /\ blockedUntil'[d] = blockedUntil[d]
      BY <1>7, <3>1 DEF ReceiveRetryLater, FetchTypeOK, OneFetch
    <3>3. QED
      BY <3>1, <3>2 DEF PacingInv, NothingRemembered
  <2> HIDE DEF o, until
  <2>5. /\ originState'[o] \in OriginRow
        /\ originState'[o].blocked_until \in Nat
        /\ originState'[o].blocked_until >= until
        /\ originState[o] # None =>
               /\ originState'[o].last_requested_at =
                      originState[o].last_requested_at
               /\ originState[o].blocked_until # None =>
                      originState'[o].blocked_until >= originState[o].blocked_until
        /\ \A p \in Origins \ {o} : originState'[p] = originState[p]
    BY <2>1, <2>2, DeferResult
  <2>6. originState'[o] # None /\ originState'[o].blocked_until # None
    BY <2>5, HttpStoreAssumption
  <2>7. /\ \A r \in requests : r.origin \in Origins
        /\ \A d \in deadlines : d.origin \in Origins /\ d.until \in Nat
        /\ originState[o] # None => originState[o] \in OriginRow
    BY <2>1 DEF FetchTypeOK, HttpStoreTypeOK
  <2>8. RowCoversRequests'
    BY <2>3, <2>5, <2>6, <2>7 DEF PacingInv, RowCoversRequests
  <2>9. RowCoversDeadlines'
    <3> SUFFICES ASSUME NEW d \in deadlines'
                 PROVE  /\ originState'[d.origin] # None
                        /\ Covered(originState'[d.origin], d.until)
      BY DEF RowCoversDeadlines
    <3>1. CASE d = [origin |-> o, until |-> until]
      BY <2>5, <2>6, <3>1 DEF Covered
    <3>2. CASE d \in deadlines /\ d.origin = o
      <4>1. originState[o] # None /\ Covered(originState[o], d.until)
        BY <3>2 DEF PacingInv, RowCoversDeadlines
      <4>2. originState[o].blocked_until \in Nat \cup {None} /\ d.until \in Nat
        BY <2>7, <3>2, <4>1 DEF OriginRow
      <4>3. Covered(originState'[o], d.until)
        BY <2>5, <2>6, <4>1, <4>2 DEF Covered
      <4>4. QED
        BY <2>6, <3>2, <4>3
    <3>3. CASE d \in deadlines /\ d.origin # o
      BY <2>5, <2>7, <3>3 DEF PacingInv, RowCoversDeadlines
    <3>4. QED
      BY <2>3, <3>1, <3>2, <3>3
  <2>10. RequestsSpaced'
    BY <2>3 DEF PacingInv, RequestsSpaced
  <2>11. QED
    BY <2>4, <2>8, <2>9, <2>10 DEF PacingInv
<1>8. ASSUME NEW c \in Clients, DropResult(c) \/ ClientDies(c)
      PROVE  PacingInv'
  <2> DEFINE kept == IF c \in Reused THEN "idle" ELSE "closed"
  <2>1. UNCHANGED <<originState, requests, deadlines, lastRequestAt,
                    blockedUntil>>
    BY <1>8 DEF DropResult, ClientDies, httpStoreVars
  <2>2. CASE stage' = [stage EXCEPT ![c] = kept]
    BY <2>1, <2>2, PacingIdle
  <2>3. CASE stage' = [stage EXCEPT ![c] = "dead"]
    BY <2>1, <2>3, PacingIdle
  <2>4. QED
    BY <1>8, <2>2, <2>3 DEF DropResult, CloseOrKeep, ClientDies
<1>9. CASE UNCHANGED fetchVars
  <2>1. UNCHANGED <<originState, requests, deadlines>>
    BY <1>9 DEF fetchVars, httpStoreVars
  <2>2. NothingRemembered'
    BY <1>9 DEF fetchVars, clientVars, PacingInv, NothingRemembered
  <2>3. QED
    BY <2>1, <2>2, PacingUntouched
<1>10. QED
  BY <1>1, <1>2, <1>3, <1>4, <1>5, <1>6, <1>7, <1>8, <1>9
     DEF FetchNext, FetchStep

\* Only a send adds to the requests.
LEMMA OnlySendRequests ==
    ASSUME [FetchNext]_fetchVars, requests' # requests
    PROVE  \E c \in Clients : Send(c) /\ (ClaimAndSend(c) \/ SendFromMemory(c))
<1>1. PICK c \in Clients : FetchStep(c) \/ DropResult(c) \/ ClientDies(c)
  BY DEF FetchNext, fetchVars
<1>2. FetchStep(c)
  BY <1>1 DEF DropResult, ClientDies
<1>3. /\ ~\E u \in Urls, at \in Readings : StartFetch(c, u, at)
      /\ ~LookUpCache(c) /\ ~RateLimited(c) /\ ~FetchFails(c)
  BY DEF StartFetch, LookUpCache, RateLimited, FetchFails
<1>4. /\ ~\E h \in Headers : ReceiveSuccess(c, h)
      /\ ~\E h \in Headers : ReceiveNotModified(c, h)
      /\ ~\E delay \in RetryDelays : ReceiveRetryLater(c, delay)
  BY DEF ReceiveSuccess, ReceiveNotModified, ReceiveRetryLater
<1>5. ClaimAndSend(c) \/ SendFromMemory(c)
  BY <1>2, <1>3, <1>4 DEF FetchStep
<1>6. QED
  BY <1>5 DEF ClaimAndSend, SendFromMemory

\* However many scanners share the database, and whatever their clocks read,
\* requests of one-fetch clients to an origin keep the minimum interval.
THEOREM OneFetchClientsSpaced == FetchSpec => []RequestsSpaced
<1>1. PacingInv /\ [FetchNext]_fetchVars => PacingInv'
  BY PacingStep
<1>2. PacingInv => RequestsSpaced
  BY DEF PacingInv
<1>3. QED
  BY <1>1, <1>2, PacingInit, PTL DEF FetchSpec

\* Nor does any of their requests start before a Retry-After deadline that has
\* been persisted for its origin.
THEOREM DeadlinesHonoured ==
    FetchSpec => DeferralsHonoured
<1> DEFINE OnTime == \A r \in requests' \ requests, d \in deadlines :
                         r.origin = d.origin /\ r.client \in OneFetch
                             => r.at >= d.until
<1>1. PacingInv /\ [FetchNext]_fetchVars => PacingInv'
  BY PacingStep
<1>2. ASSUME PacingInv, [FetchNext]_fetchVars PROVE [OnTime]_fetchVars
  <2> SUFFICES ASSUME NEW r \in requests' \ requests, NEW d \in deadlines,
                      r.origin = d.origin, r.client \in OneFetch
               PROVE  r.at >= d.until
    OBVIOUS
  <2>1. PICK c \in Clients : Send(c) /\ (ClaimAndSend(c) \/ SendFromMemory(c))
    <3>1. requests' # requests
      OBVIOUS
    <3>2. QED
      BY <1>2, <3>1, OnlySendRequests
  <2>2. r = [client |-> c, origin |-> OriginOf[url[c]], at |-> now[c]]
    BY <2>1 DEF Send
  <2>3. ~SendFromMemory(c)
    BY <1>2, <2>2, MemoryIsReused DEF OneFetch
  <2>4. QED
    BY <1>2, <2>1, <2>2, <2>3, ClaimSafe
<1>3. QED
  BY <1>1, <1>2, PacingInit, PTL DEF FetchSpec, DeferralsHonoured

-----------------------------------------------------------------------------
(***************************************************************************)
(* The response cache                                                      *)
(***************************************************************************)

\* An entry is validated no earlier than fetched, and kept from then on.
Coherent(entry) ==
    /\ entry.fetched_at <= entry.validated_at
    /\ entry.validated_at <= entry.expires_at

TableCoherent == \A u \in Urls : httpCache[u] # None => Coherent(httpCache[u])

\* What a client has read from the cache and did not find fresh enough had
\* expired by its reading of the clock.
ReadExpired ==
    \A c \in Clients : cached[c] # None =>
        /\ Coherent(cached[c])
        /\ stage[c] \in {"asking", "waiting"} => cached[c].expires_at <= now[c]

CacheInv == FetchTypeOK /\ TableCoherent /\ ReadExpired

LEMMA CacheInit == HttpFetchInit => CacheInv
BY FetchTypeInit DEF HttpFetchInit, HttpStoreInit, CacheInv, TableCoherent,
    ReadExpired

LEMMA CacheReads ==
    ASSUME CacheInv, NEW c \in Clients, stage[c] = "waiting", cached[c] # None
    PROVE  cached[c].fetched_at <= now[c]
<1>1. cached[c] \in CacheEntry /\ now[c] \in Nat
  BY BusyClient DEF CacheInv
<1>2. Coherent(cached[c]) /\ cached[c].expires_at <= now[c]
  BY DEF CacheInv, ReadExpired
<1>3. QED
  BY <1>1, <1>2 DEF Coherent, CacheEntry

\* Putting a coherent entry keeps the table coherent; trimming only deletes.
LEMMA StoreCoherent ==
    ASSUME CacheInv, NEW c \in Clients, url[c] \in Urls, NEW e \in CacheEntry,
           Coherent(e), Store(c, e)
    PROVE  TableCoherent'
<1>1. CASE httpCache' = httpCache
  BY <1>1 DEF CacheInv, TableCoherent
<1>2. CASE PutHttpCache(url[c], e)
  <2> DEFINE table == [httpCache EXCEPT ![url[c]] = e]
  <2>1. \A u \in Urls : table[u] # None => Coherent(table[u])
    BY DEF CacheInv, TableCoherent, FetchTypeOK, HttpStoreTypeOK
  <2>2. \A u \in Urls : Trimmed(table)[u] \in {table[u], None}
    BY DEF Trimmed
  <2>3. httpCache' = Trimmed(table)
    BY <1>2 DEF PutHttpCache
  <2> HIDE DEF table
  <2>4. QED
    BY <2>1, <2>2, <2>3 DEF TableCoherent
<1>3. QED
  BY <1>1, <1>2 DEF Store, httpStoreVars

\* A step on which c neither starts a fetch nor reads the cache.
LEMMA ReadKept ==
    ASSUME CacheInv, FetchTypeOK', TableCoherent', NEW c \in Clients,
           UNCHANGED <<now, cached>>,
           NEW st, stage' = [stage EXCEPT ![c] = st],
           stage[c] \in {"asking", "waiting"} \/ st \notin {"asking", "waiting"}
    PROVE  CacheInv'
<1>1. \A d \in Clients : stage'[d] \in {"asking", "waiting"} =>
                            stage[d] \in {"asking", "waiting"}
  BY DEF CacheInv, FetchTypeOK
<1>2. ReadExpired'
  BY <1>1 DEF CacheInv, ReadExpired, Coherent
<1>3. QED
  BY <1>2 DEF CacheInv

LEMMA CacheStep ==
    ASSUME CacheInv, [FetchNext]_fetchVars
    PROVE  CacheInv'
<1> FetchTypeOK /\ FetchTypeOK'
  BY FetchTypeStep DEF CacheInv
<1> DEFINE TableKept == httpCache' = httpCache
<1>0. ASSUME TableKept PROVE TableCoherent'
  BY <1>0 DEF CacheInv, TableCoherent
<1>1. ASSUME NEW c \in Clients, NEW u \in Urls, NEW at \in Readings,
             StartFetch(c, u, at)
      PROVE  CacheInv'
  <2>1. TableCoherent'
    BY <1>0, <1>1 DEF StartFetch, httpStoreVars
  <2>2. ReadExpired'
    BY <1>1 DEF StartFetch, CacheInv, ReadExpired, FetchTypeOK
  <2>3. QED
    BY <2>1, <2>2 DEF CacheInv
<1>2. ASSUME NEW c \in Clients, LookUpCache(c)
      PROVE  CacheInv'
  <2> DEFINE entry == httpCache[url[c]]
  <2>1. TableCoherent'
    BY <1>0, <1>2 DEF LookUpCache, httpStoreVars
  <2>2. entry \in CacheEntry \cup {None} /\ now[c] \in Nat
    BY <1>2, BusyClient DEF LookUpCache, FetchTypeOK, HttpStoreTypeOK
  <2>3. entry # None => Coherent(entry)
    BY <1>2, BusyClient DEF LookUpCache, CacheInv, TableCoherent
  <2>4. stage'[c] \in {"asking", "waiting"} /\ entry # None =>
            entry.expires_at <= now[c]
    BY <1>2, <2>2 DEF LookUpCache, Return, Fresh, CacheEntry, FetchTypeOK
  <2>5. cached'[c] = entry /\ now' = now
    BY <1>2 DEF LookUpCache, FetchTypeOK
  <2>6. \A d \in Clients \ {c} : cached'[d] = cached[d] /\ stage'[d] = stage[d]
    BY <1>2 DEF LookUpCache, Return, FetchTypeOK
  <2> HIDE DEF entry
  <2>7. ReadExpired'
    BY <2>3, <2>4, <2>5, <2>6 DEF ReadExpired, CacheInv, Coherent
  <2>8. QED
    BY <2>1, <2>7 DEF CacheInv
<1>3. ASSUME NEW c \in Clients, ClaimAndSend(c) \/ SendFromMemory(c)
      PROVE  CacheInv'
  <2>1. TableCoherent'
    BY <1>0, <1>3 DEF ClaimAndSend, SendFromMemory, ClaimOriginRequest,
        httpStoreVars
  <2>2. /\ stage[c] \in {"asking", "waiting"}
        /\ stage' = [stage EXCEPT ![c] = "waiting"]
        /\ UNCHANGED <<now, cached>>
    BY <1>3 DEF ClaimAndSend, SendFromMemory, Send
  <2>3. QED
    BY <2>1, <2>2, ReadKept
<1>4. ASSUME NEW c \in Clients, RateLimited(c) \/ FetchFails(c)
      PROVE  CacheInv'
  <2>1. TableCoherent'
    BY <1>0, <1>4 DEF RateLimited, FetchFails, httpStoreVars
  <2>2. stage' = [stage EXCEPT ![c] = "fetched"] /\ UNCHANGED <<now, cached>>
    BY <1>4 DEF RateLimited, FetchFails, Return
  <2>3. QED
    BY <2>1, <2>2, ReadKept
<1>5. ASSUME NEW c \in Clients, NEW h \in Headers, ReceiveSuccess(c, h)
      PROVE  CacheInv'
  <2> DEFINE e == [headers |-> h, fetched_at |-> now[c], validated_at |-> now[c],
                   expires_at |-> ExpiresAt(h, now[c])]
  <2>1. stage[c] = "waiting" /\ url[c] \in Urls /\ now[c] \in Nat
    BY <1>5, BusyClient DEF ReceiveSuccess
  <2>2. e \in CacheEntry /\ Coherent(e)
    <3>1. e \in CacheEntry
      BY <2>1, StoredEntries
    <3>2. ExpiresAt(h, now[c]) >= now[c]
      BY <2>1, ExpiresAtBound
    <3>3. QED
      BY <2>1, <3>1, <3>2 DEF Coherent
  <2>3. Store(c, e)
    BY <1>5 DEF ReceiveSuccess
  <2> HIDE DEF e
  <2>4. TableCoherent'
    BY <2>1, <2>2, <2>3, StoreCoherent
  <2>5. stage' = [stage EXCEPT ![c] = "fetched"] /\ UNCHANGED <<now, cached>>
    BY <1>5 DEF ReceiveSuccess, Return
  <2>6. QED
    BY <2>4, <2>5, ReadKept
<1>6. ASSUME NEW c \in Clients, NEW h \in Headers, ReceiveNotModified(c, h)
      PROVE  CacheInv'
  <2> DEFINE merged == MergeHeaders(cached[c].headers, h)
             e == [headers |-> merged, fetched_at |-> cached[c].fetched_at,
                   validated_at |-> now[c],
                   expires_at |-> ExpiresAt(merged, now[c])]
  <2>1. /\ stage[c] = "waiting" /\ cached[c] # None
        /\ url[c] \in Urls /\ now[c] \in Nat
    BY <1>6, BusyClient DEF ReceiveNotModified
  <2>2. merged \in Headers /\ e \in CacheEntry
    BY <2>1, StoredEntries
  <2>3. Store(c, e)
    BY <1>6 DEF ReceiveNotModified
  <2>4. cached[c].fetched_at <= now[c]
    BY <2>1, CacheReads
  <2> HIDE DEF merged
  <2>5. ExpiresAt(merged, now[c]) >= now[c] /\ ExpiresAt(merged, now[c]) \in Nat
    BY <2>1, <2>2, ExpiresAtBound
  <2>6. Coherent(e)
    BY <2>1, <2>4, <2>5 DEF Coherent
  <2> HIDE DEF e
  <2>7. TableCoherent'
    BY <2>1, <2>2, <2>3, <2>6, StoreCoherent
  <2>8. stage' = [stage EXCEPT ![c] = "fetched"] /\ UNCHANGED <<now, cached>>
    BY <1>6 DEF ReceiveNotModified, Return
  <2>9. QED
    BY <2>7, <2>8, ReadKept
<1>7. ASSUME NEW c \in Clients, NEW delay \in RetryDelays,
             ReceiveRetryLater(c, delay)
      PROVE  CacheInv'
  <2>1. TableCoherent'
    BY <1>0, <1>7 DEF ReceiveRetryLater, DeferOriginRequest
  <2>2. stage' = [stage EXCEPT ![c] = "fetched"] /\ UNCHANGED <<now, cached>>
    BY <1>7 DEF ReceiveRetryLater, Return
  <2>3. QED
    BY <2>1, <2>2, ReadKept
<1>8. ASSUME NEW c \in Clients, DropResult(c) \/ ClientDies(c)
      PROVE  CacheInv'
  <2>1. TableCoherent'
    BY <1>0, <1>8 DEF DropResult, ClientDies, httpStoreVars
  <2>2. PICK st \in {"idle", "closed", "dead"} :
            stage' = [stage EXCEPT ![c] = st] /\ UNCHANGED <<now, cached>>
    BY <1>8 DEF DropResult, CloseOrKeep, ClientDies
  <2>3. QED
    BY <2>1, <2>2, ReadKept
<1>9. CASE UNCHANGED fetchVars
  <2>1. TableCoherent'
    BY <1>0, <1>9 DEF fetchVars, httpStoreVars
  <2>2. ReadExpired'
    BY <1>9 DEF fetchVars, clientVars, CacheInv, ReadExpired, Coherent
  <2>3. QED
    BY <2>1, <2>2 DEF CacheInv
<1>10. QED
  BY <1>1, <1>2, <1>3, <1>4, <1>5, <1>6, <1>7, <1>8, <1>9
     DEF FetchNext, FetchStep

\* A 304 never renews an entry that the table would refuse.
THEOREM RenewalAlwaysStorable == FetchSpec => []RenewalStorable
<1>1. CacheInv => RenewalStorable
  BY CacheReads DEF RenewalStorable
<1>2. CacheInv /\ [FetchNext]_fetchVars => CacheInv'
  BY CacheStep
<1>3. QED
  BY <1>1, <1>2, CacheInit, PTL DEF FetchSpec

=============================================================================
