------------------------------ MODULE HttpScan ------------------------------
(***************************************************************************)
(* services/http_scan.py: scan_http_target, run by scanners that share one *)
(* database.  A scan fetches, then writes the evidence in a transaction of *)
(* its own; a withdrawal reads the signal first and writes a copy of it.   *)
(*                                                                         *)
(* A signal key is made from the redacted URL, so URLs that differ in      *)
(* query values share one: KeyOf.  DeprecatedFrom is the instant the       *)
(* lifecycle fields give, for the `deprecated` flag is computed against    *)
(* the scan's observed_at, which is also the reading of the fetch.         *)
(***************************************************************************)
EXTENDS HttpFetch, Sequences

CONSTANTS
    SignalKeys,         \* values of lifecycle_signals.signal_key
    KeyOf,              \* Urls -> SignalKeys
    Invalid,            \* the lifecycle fields that parse to no signal
    DeprecatedFrom      \* lifecycle fields -> Nat

\* What is stored of a signal besides `active` and `observed_at`.
Payloads == (Lifecycles \ Invalid) \X BOOLEAN

VARIABLES
    signals, changes,           \* the signal tables of the database
    consumers, dependencies,    \* its other evidence, which no scan touches
    existing,       \* the signal each scan has read in order to withdraw it
    answers,        \* history: what the origins answered, 304 answers merged
    evidenceAt,     \* history: the time of the answer behind each signal
    serial          \* history: scans have run one after the other by the clock

INSTANCE EvidenceStore WITH ConsumerIds <- {}, Endpoints <- {}

evidenceVars == <<signals, changes, consumers, dependencies>>

scanVars == <<fetchVars, evidenceVars, existing, answers, evidenceAt, serial>>

ASSUME HttpScanAssumption ==
    /\ KeyOf \in [Urls -> SignalKeys]
    /\ Invalid \subseteq Lifecycles
    /\ DeprecatedFrom \in [Lifecycles -> Nat]
    /\ None \notin Signal
    /\ None \notin SignalRow

-----------------------------------------------------------------------------
\* parse_lifecycle_headers and the LifecycleSignal built from its result.
Parsed(lifecycle, t) == <<lifecycle, DeprecatedFrom[lifecycle] <= t>>

\* Mutant of Ok: a rate-limited fetch that returns a cached answer counts.
OkWhenLimited(r) ==
    \/ r.status \in {"SUCCESS", "CACHE_HIT", "NOT_MODIFIED"}
    \/ r.status = "RATE_LIMITED" /\ r.headers # None

\* FetchResult.ok
Ok(r) == r.status \in {"SUCCESS", "CACHE_HIT", "NOT_MODIFIED"}

HasSignal(h) == h.lifecycle \in Lifecycles \ Invalid

\* The scan is back from a fetch whose result is ok.
HasEvidence(c) == stage[c] = "fetched" /\ Ok(result[c])

Key(c) == KeyOf[url[c]]

Withdrawn(s, t) == [s EXCEPT !.active = FALSE, !.observed_at = t]

\* Whether upsert_signal will take an observation made at t.
Accepts(k, t) == signals[k] = None \/ t >= signals[k].last_seen

\* When the answer a scan goes by was given, but no later than the scan says.
EvidenceTime(c) == Smallest(result[c].validated_at, now[c])

\* The signal s goes to the store, on the strength of the fetch's answer.
Persist(c, s) ==
    /\ UpsertSignal(Key(c), s)
    /\ evidenceAt' = IF Accepts(Key(c), now[c])
           THEN [evidenceAt EXCEPT ![Key(c)] = EvidenceTime(c)]
           ELSE evidenceAt

LeavesFetchAlone ==
    UNCHANGED <<httpStoreVars, url, now, cached, result, lastRequestAt,
                blockedUntil, requests, deadlines, answers>>

-----------------------------------------------------------------------------
ScanInit ==
    /\ HttpFetchInit
    /\ StoreInit
    /\ existing = [c \in Clients |-> None]
    /\ answers = {}
    /\ evidenceAt = [k \in SignalKeys |-> None]
    /\ serial = TRUE

\* A step of the fetch; an answer of the origin goes down in the history.
Fetch(c) ==
    /\ FetchStep(c)
    /\ answers' =
           IF stage[c] = "waiting" /\ Ok(result'[c])
           THEN answers \cup {[url |-> url[c], at |-> now[c],
                               headers |-> result'[c].headers]}
           ELSE answers
    /\ UNCHANGED <<evidenceVars, existing, evidenceAt>>

\* No evidence: the fetch failed, or its lifecycle fields are unusable.
Discard(c) ==
    /\ stage[c] = "fetched"
    /\ Ok(result[c]) => result[c].headers.lifecycle \in Invalid
    /\ CloseOrKeep(c)
    /\ LeavesFetchAlone
    /\ UNCHANGED <<evidenceVars, existing, evidenceAt>>

RecordSignal(c) ==
    /\ HasEvidence(c)
    /\ HasSignal(result[c].headers)
    /\ Persist(c, [payload |-> Parsed(result[c].headers.lifecycle, now[c]),
                   active |-> TRUE, observed_at |-> now[c]])
    /\ CloseOrKeep(c)
    /\ LeavesFetchAlone
    /\ UNCHANGED existing

\* Mutant of FindSignalToWithdraw: only an answer of the origin withdraws.
FindSignalUnlessCached(c) ==
    LET row == signals[Key(c)] IN
    /\ HasEvidence(c)
    /\ result[c].headers.lifecycle = None
    /\ IF row # None /\ row.signal.active /\ result[c].status # "CACHE_HIT"
       THEN /\ existing' = [existing EXCEPT ![c] = row.signal]
            /\ stage' = [stage EXCEPT ![c] = "withdrawing"]
       ELSE /\ CloseOrKeep(c)
            /\ UNCHANGED existing
    /\ LeavesFetchAlone
    /\ UNCHANGED <<evidenceVars, evidenceAt>>

\* Both lifecycle fields are absent: get_signal.
FindSignalToWithdraw(c) ==
    LET row == signals[Key(c)] IN
    /\ HasEvidence(c)
    /\ result[c].headers.lifecycle = None
    /\ IF row # None /\ row.signal.active
       THEN /\ existing' = [existing EXCEPT ![c] = row.signal]
            /\ stage' = [stage EXCEPT ![c] = "withdrawing"]
       ELSE /\ CloseOrKeep(c)
            /\ UNCHANGED existing
    /\ LeavesFetchAlone
    /\ UNCHANGED <<evidenceVars, evidenceAt>>

WithdrawSignal(c) ==
    /\ stage[c] = "withdrawing"
    /\ Persist(c, Withdrawn(existing[c], now[c]))
    /\ CloseOrKeep(c)
    /\ LeavesFetchAlone
    /\ UNCHANGED existing

ScannerDies(c) ==
    /\ ClientDies(c)
    /\ UNCHANGED <<evidenceVars, existing, answers, evidenceAt>>

ScanStep(c) ==
    \/ Fetch(c)
    \/ Discard(c)
    \/ RecordSignal(c)
    \/ FindSignalToWithdraw(c)
    \/ WithdrawSignal(c)
    \/ ScannerDies(c)

\* A scan begins at a reading of a clock that has not run backwards.
OnTheClock(c) == stage[c] = "idle" => \A d \in Clients : now'[c] >= now[d]

\* No other scan is under way.
Alone(c) == \A d \in Clients \ {c} : stage[d] \in {"idle", "closed", "dead"}

ScanMove(c) ==
    /\ ScanStep(c)
    /\ serial' = (serial /\ OnTheClock(c) /\ Alone(c))

ScanSpec == ScanInit /\ [][\E c \in Clients : ScanMove(c)]_scanVars

\* Scans that read the system clock.
ClockedScanSpec ==
    ScanInit /\ [][\E c \in Clients : ScanMove(c) /\ OnTheClock(c)]_scanVars

-----------------------------------------------------------------------------
(***************************************************************************)
(* Properties                                                              *)
(***************************************************************************)

\* Answer a counts at t: it was given at t, or is kept and has not expired.  (A
\* scan with a back-dated --at may find an answer given later than its t.)
CurrentAt(a, t) ==
    a.at = t \/ (Cacheable(a.headers) /\ t < ExpiresAt(a.headers, a.at))

\* The row r says of its key what answer a said.
SaysSo(a, r) ==
    IF r.signal.active
    THEN /\ HasSignal(a.headers)
         /\ r.signal.payload = Parsed(a.headers.lifecycle, r.last_seen)
    ELSE a.headers.lifecycle = None

\* A signal is written only on an answer of its own endpoint that was still
\* current at the scan's observed_at, whatever the cache, the rate limit and
\* the other scanners did meanwhile (scan_http_target, FetchResult.ok).
OnlyCurrentAnswersRecorded ==
    [][\A k \in SignalKeys :
           signals'[k] # signals[k] =>
               \E a \in answers : /\ KeyOf[a.url] = k
                                  /\ CurrentAt(a, signals'[k].last_seen)
                                  /\ SaysSo(a, signals'[k])]_scanVars

\* The latest answer to u.
LastAnswer(u) ==
    CHOOSE a \in answers :
        a.url = u /\ \A b \in answers : b.url = u => b.at <= a.at

\* As long as scans run one at a time they heal: whenever a scan ends with an ok result,
\* its signal says what the origin last answered, even if the scan that got
\* that answer died before it could write it (cache put, then upsert_signal).
ScanEndsUpToDate ==
    [][\A c \in Clients :
           LET answer == LastAnswer(url[c])
               row == signals'[Key(c)]
           IN  /\ serial'
               /\ stage[c] \in {"fetched", "withdrawing"}
               /\ stage'[c] \in {"idle", "closed"}
               /\ Ok(result[c])
               => IF answer.headers.lifecycle = None
                  THEN row = None \/ ~row.signal.active
                  ELSE HasSignal(answer.headers) =>
                           row # None /\ SaysSo(answer, row)]_scanVars

\* CHANGELOG: "Stale or withdrawn source observations can no longer overwrite
\* newer lifecycle state."  A scan of a later second never changes what a
\* signal says on the strength of an answer older than the one it stands on.
NewerAnswerStands ==
    [][\A k \in SignalKeys :
           /\ evidenceAt[k] # None
           /\ evidenceAt'[k] < evidenceAt[k]
           /\ signals'[k].last_seen > signals[k].last_seen
           => Material(signals'[k].signal) = Material(signals[k].signal)]_scanVars

=============================================================================
