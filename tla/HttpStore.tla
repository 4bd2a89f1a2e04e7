----------------------------- MODULE HttpStore -----------------------------
(***************************************************************************)
(* The HTTP tables of SQLiteRepository, as SQLiteRequestPacingStore and    *)
(* SQLiteHttpCache use them: origin_request_state and http_cache.  Each    *)
(* operator is one BEGIN IMMEDIATE transaction.                            *)
(*                                                                         *)
(* Cache keys are numbered in their own order, which breaks ties when the  *)
(* cache is trimmed.  A cached entry always carries a success status.      *)
(***************************************************************************)
EXTENDS Integers, FiniteSets

CONSTANTS
    Origins,            \* scheme://host:port
    Urls,               \* cache keys, in cache_key order
    Headers,            \* the retained response headers of a response
    Oversized,          \* those beyond max_cache_entry_bytes, encoded
    MaxCacheEntries,    \* max_cache_entries
    None                \* no row, no value

OriginRow == [last_requested_at : Nat, blocked_until : Nat \cup {None}]

CacheEntry == [headers : Headers, fetched_at : Nat, validated_at : Nat,
               expires_at : Nat]

ASSUME HttpStoreAssumption ==
    /\ None \notin Nat
    /\ None \notin OriginRow
    /\ None \notin CacheEntry
    /\ Urls \subseteq Nat
    /\ IsFiniteSet(Urls)
    /\ Oversized \subseteq Headers
    /\ MaxCacheEntries \in Nat \ {0}

VARIABLES
    originState,    \* origin_request_state: Origins -> row or None
    httpCache       \* http_cache: Urls -> entry or None

httpStoreVars == <<originState, httpCache>>

HttpStoreTypeOK ==
    /\ originState \in [Origins -> OriginRow \cup {None}]
    /\ httpCache \in [Urls -> CacheEntry \cup {None}]

HttpStoreInit ==
    /\ originState = [o \in Origins |-> None]
    /\ httpCache = [u \in Urls |-> None]

-----------------------------------------------------------------------------
(***************************************************************************)
(* Request pacing                                                          *)
(***************************************************************************)

Latest(a, b) == IF a < b THEN b ELSE a

\* Mutant of NextEligible: a deadline replaces the interval.
NextEligibleDeadlineOnly(row, interval) ==
    IF row.blocked_until = None THEN row.last_requested_at + interval
    ELSE row.blocked_until

\* The earliest instant at which the row lets the next request start.
NextEligible(row, interval) ==
    LET spaced == row.last_requested_at + interval IN
    IF row.blocked_until = None THEN spaced
    ELSE Latest(spaced, row.blocked_until)

Claimable(o, at, interval) ==
    originState[o] # None => at >= NextEligible(originState[o], interval)

\* Mutant of ClaimOriginRequest: the start of the interval is recorded.
ClaimOriginRequestBackdated(o, at, interval) ==
    /\ Claimable(o, at, interval)
    /\ originState' = [originState EXCEPT ![o] =
           [last_requested_at |-> at - interval, blocked_until |-> None]]
    /\ UNCHANGED httpCache

\* claim_origin_request, granted: a deadline that has passed is cleared.
ClaimOriginRequest(o, at, interval) ==
    /\ Claimable(o, at, interval)
    /\ originState' = [originState EXCEPT ![o] =
           [last_requested_at |-> at, blocked_until |-> None]]
    /\ UNCHANGED httpCache

\* Mutant of DeferOriginRequest: the last deadline to arrive wins.
DeferOriginRequestLast(o, until, clockNow) ==
    /\ originState' = [originState EXCEPT ![o] =
           [last_requested_at |->
                IF originState[o] = None THEN clockNow
                ELSE originState[o].last_requested_at,
            blocked_until |-> until]]
    /\ UNCHANGED httpCache

\* defer_origin_request: a deadline is only ever moved later.  A row made here
\* takes its request time from the repository's clock.
DeferOriginRequest(o, until, clockNow) ==
    LET row == originState[o]
        fresh == row = None \/ row.blocked_until = None
    IN  /\ originState' = [originState EXCEPT ![o] =
               [last_requested_at |->
                    IF row = None THEN clockNow ELSE row.last_requested_at,
                blocked_until |->
                    IF fresh THEN until ELSE Latest(until, row.blocked_until)]]
        /\ UNCHANGED httpCache

-----------------------------------------------------------------------------
(***************************************************************************)
(* The response cache                                                      *)
(***************************************************************************)

\* ORDER BY fetched_at DESC, cache_key DESC: u comes before v in the table.
Ahead(table, u, v) ==
    \/ table[u].fetched_at > table[v].fetched_at
    \/ table[u].fetched_at = table[v].fetched_at /\ u > v

\* _trim_http_cache: the entries beyond the bound are deleted.
Trimmed(table) ==
    LET stored == {u \in Urls : table[u] # None}
        rank(u) == Cardinality({v \in stored : Ahead(table, v, u)})
    IN  [u \in Urls |->
            IF u \in stored /\ rank(u) < MaxCacheEntries THEN table[u] ELSE None]

\* put_http_cache refuses an entry validated before it was fetched, and one
\* whose headers are too large.
Storable(entry) ==
    /\ entry.validated_at >= entry.fetched_at
    /\ entry.headers \notin Oversized

\* put_http_cache: whatever the table held under u is overwritten.
PutHttpCache(u, entry) ==
    /\ Storable(entry)
    /\ httpCache' = Trimmed([httpCache EXCEPT ![u] = entry])
    /\ UNCHANGED originState

=============================================================================
