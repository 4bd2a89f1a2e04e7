----------------------------- MODULE ScanProofs -----------------------------
(***************************************************************************)
(* Theorems about HttpScan, for any number of scanners, URLs and signal    *)
(* keys: on what answers of the origins the signals stand.                 *)
(***************************************************************************)
EXTENDS HttpScan, HttpFetchProofs

-----------------------------------------------------------------------------
(***************************************************************************)
(* What a step of a scan does                                              *)
(***************************************************************************)

\* The other scanners stay where they are.
OthersStay(c) ==
    \A d \in Clients \ {c} :
        /\ stage'[d] = stage[d] /\ url'[d] = url[d] /\ now'[d] = now[d]
        /\ result'[d] = result[d] /\ existing'[d] = existing[d]

Moves(c, from, to) == stage[c] = from /\ stage'[c] = to

SameFetch(c) == url'[c] = url[c] /\ now'[c] = now[c]

\* The entry an answer of the origin with the fields h makes at t.
EntryOf(e, h, t) ==
    /\ e \in CacheEntry
    /\ e.headers = h /\ e.validated_at = t /\ e.expires_at = ExpiresAt(h, t)

\* The outcomes of a step of the fetch.
Begins(c) ==
    /\ Moves(c, "idle", "looking")
    /\ url'[c] \in Urls /\ now'[c] \in Nat
    /\ UNCHANGED <<httpCache, requests, answers>>

Hits(c) ==
    /\ Moves(c, "looking", "fetched") /\ SameFetch(c)
    /\ Fresh(httpCache[url[c]], now[c])
    /\ result'[c].headers = httpCache[url[c]].headers
    /\ UNCHANGED <<httpCache, requests, answers>>

Misses(c) ==
    /\ Moves(c, "looking", "asking") /\ SameFetch(c)
    /\ ~Fresh(httpCache[url[c]], now[c])
    /\ UNCHANGED <<httpCache, requests, answers>>

Sends(c) ==
    /\ Moves(c, "asking", "waiting") /\ SameFetch(c)
    /\ ClaimAndSend(c) \/ SendFromMemory(c)
    /\ requests' = requests \cup
           {[client |-> c, origin |-> OriginOf[url[c]], at |-> now[c]]}
    /\ UNCHANGED <<httpCache, answers>>

Fails(c) ==
    /\ stage[c] \in {"asking", "waiting"} /\ stage'[c] = "fetched"
    /\ SameFetch(c) /\ ~Ok(result'[c])
    /\ UNCHANGED <<httpCache, requests, answers>>

\* The origin answers with the fields h, which the cache may then hold.
Answers(c, h) ==
    /\ Moves(c, "waiting", "fetched") /\ SameFetch(c)
    /\ Ok(result'[c]) /\ result'[c].headers = h
    /\ \E e : EntryOf(e, h, now[c]) /\ Store(c, e)
    /\ answers' = answers \cup
           {[url |-> url[c], at |-> now[c], headers |-> h]}
    /\ UNCHANGED requests

Outcomes(c) ==
    \/ Begins(c) \/ Hits(c) \/ Misses(c) \/ Sends(c) \/ Fails(c)
    \/ \E h \in Headers : Answers(c, h)

LEMMA FetchOthers ==
    ASSUME FetchTypeOK, existing \in [Clients -> Signal \cup {None}],
           NEW c \in Clients, Fetch(c)
    PROVE  OthersStay(c)
<1>1. existing' = existing
  BY DEF Fetch
<1>2. /\ stage \in [Clients -> Stages] /\ url \in [Clients -> Urls \cup {None}]
      /\ now \in [Clients -> Nat] /\ result \in [Clients -> Result \cup {None}]
  BY DEF FetchTypeOK, Stages
<1>3. \A d \in Clients \ {c} :
          /\ stage'[d] = stage[d] /\ url'[d] = url[d] /\ now'[d] = now[d]
          /\ result'[d] = result[d]
  <2>1. CASE \E u \in Urls, at \in Readings : StartFetch(c, u, at)
    BY <1>2, <2>1 DEF StartFetch
  <2>2. CASE LookUpCache(c)
    BY <1>2, <2>2 DEF LookUpCache, Return
  <2>3. CASE ClaimAndSend(c) \/ SendFromMemory(c)
    BY <1>2, <2>3 DEF ClaimAndSend, SendFromMemory, Send
  <2>4. CASE RateLimited(c) \/ FetchFails(c)
    BY <1>2, <2>4 DEF RateLimited, FetchFails, Return
  <2>5. CASE \E h \in Headers : ReceiveSuccess(c, h)
    BY <1>2, <2>5 DEF ReceiveSuccess, Return
  <2>6. CASE \E h \in Headers : ReceiveNotModified(c, h)
    BY <1>2, <2>6 DEF ReceiveNotModified, Return
  <2>7. CASE \E delay \in RetryDelays : ReceiveRetryLater(c, delay)
    BY <1>2, <2>7 DEF ReceiveRetryLater, Return
  <2>8. QED
    BY <2>1, <2>2, <2>3, <2>4, <2>5, <2>6, <2>7 DEF Fetch, FetchStep
<1>4. QED
  BY <1>1, <1>3 DEF OthersStay

LEMMA FetchOutcomes ==
    ASSUME FetchTypeOK, NEW c \in Clients, Fetch(c)
    PROVE  Outcomes(c)
<1>1. /\ stage \in [Clients -> Stages] /\ url \in [Clients -> Urls \cup {None}]
      /\ now \in [Clients -> Nat] /\ result \in [Clients -> Result \cup {None}]
  BY DEF FetchTypeOK, Stages
<1>2. stage[c] # "waiting" \/ ~Ok(result'[c]) => answers' = answers
  BY DEF Fetch
<1>3. ASSUME NEW u \in Urls, NEW at \in Readings, StartFetch(c, u, at)
      PROVE  Begins(c)
  BY <1>1, <1>2, <1>3, HttpFetchAssumption
     DEF StartFetch, Begins, Moves, httpStoreVars
<1>4. ASSUME LookUpCache(c)
      PROVE  Hits(c) \/ Misses(c)
  <2>1. /\ stage[c] = "looking" /\ SameFetch(c)
        /\ UNCHANGED <<httpCache, requests, answers>>
    BY <1>2, <1>4 DEF LookUpCache, SameFetch, httpStoreVars
  <2>2. CASE /\ Fresh(httpCache[url[c]], now[c])
             /\ Return(c, Outcome("CACHE_HIT", httpCache[url[c]].headers,
                                  httpCache[url[c]].validated_at))
    <3>1. stage'[c] = "fetched" /\ result'[c].headers = httpCache[url[c]].headers
      BY <1>1, <2>2 DEF Return, Outcome
    <3>2. QED
      BY <2>1, <2>2, <3>1 DEF Hits, Moves
  <2>3. CASE /\ ~Fresh(httpCache[url[c]], now[c])
             /\ stage' = [stage EXCEPT ![c] = "asking"]
    BY <1>1, <2>1, <2>3 DEF Misses, Moves
  <2>4. QED
    BY <1>4, <2>2, <2>3 DEF LookUpCache
<1>5. ASSUME ClaimAndSend(c) \/ SendFromMemory(c)
      PROVE  Sends(c)
  <2>1. stage[c] = "asking" /\ Send(c) /\ httpCache' = httpCache
    BY <1>5 DEF ClaimAndSend, SendFromMemory, ClaimOriginRequest, httpStoreVars
  <2>2. QED
    BY <1>1, <1>2, <1>5, <2>1 DEF Send, Sends, Moves, SameFetch
<1>6. ASSUME RateLimited(c) \/ FetchFails(c)
      PROVE  Fails(c)
  <2>1. /\ stage[c] \in {"asking", "waiting"} /\ stage'[c] = "fetched"
        /\ SameFetch(c) /\ UNCHANGED <<httpCache, requests>>
    BY <1>1, <1>6 DEF RateLimited, FetchFails, Return, SameFetch, httpStoreVars
  <2>2. result'[c].status \in {"RATE_LIMITED", "FAILED"}
    BY <1>1, <1>6 DEF RateLimited, FetchFails, Return, Outcome
  <2>3. QED
    BY <1>2, <2>1, <2>2 DEF Fails, Ok
<1>7. ASSUME NEW h \in Headers, ReceiveSuccess(c, h)
      PROVE  Answers(c, h)
  <2> DEFINE e == [headers |-> h, fetched_at |-> now[c], validated_at |-> now[c],
                   expires_at |-> ExpiresAt(h, now[c])]
  <2>1. stage[c] = "waiting" /\ Store(c, e)
    BY <1>7 DEF ReceiveSuccess
  <2>2. EntryOf(e, h, now[c])
    BY <2>1, StoredEntries DEF EntryOf
  <2>3. result'[c] = Outcome("SUCCESS", h, now[c]) /\ stage'[c] = "fetched"
    BY <1>1, <1>7 DEF ReceiveSuccess, Return
  <2>4. Ok(result'[c]) /\ result'[c].headers = h
    BY <2>3 DEF Outcome, Ok
  <2>5. SameFetch(c) /\ UNCHANGED requests
    BY <1>7 DEF ReceiveSuccess, SameFetch
  <2>6. answers' = answers \cup {[url |-> url[c], at |-> now[c], headers |-> h]}
    BY <2>1, <2>4 DEF Fetch
  <2> HIDE DEF e
  <2>7. QED
    BY <2>1, <2>2, <2>3, <2>4, <2>5, <2>6 DEF Answers, Moves
<1>8. ASSUME NEW h \in Headers, ReceiveNotModified(c, h)
      PROVE  \E k \in Headers : Answers(c, k)
  <2> DEFINE merged == MergeHeaders(cached[c].headers, h)
             e == [headers |-> merged, fetched_at |-> cached[c].fetched_at,
                   validated_at |-> now[c],
                   expires_at |-> ExpiresAt(merged, now[c])]
  <2>1. stage[c] = "waiting" /\ cached[c] # None /\ Store(c, e)
    BY <1>8 DEF ReceiveNotModified
  <2>2. EntryOf(e, merged, now[c]) /\ merged \in Headers
    BY <2>1, StoredEntries DEF EntryOf
  <2>3. result'[c] = Outcome("NOT_MODIFIED", merged, now[c])
        /\ stage'[c] = "fetched"
    BY <1>1, <1>8 DEF ReceiveNotModified, Return
  <2> HIDE DEF merged
  <2>4. Ok(result'[c]) /\ result'[c].headers = merged
    BY <2>3 DEF Outcome, Ok
  <2>5. SameFetch(c) /\ UNCHANGED requests
    BY <1>8 DEF ReceiveNotModified, SameFetch
  <2>6. answers' = answers \cup
                       {[url |-> url[c], at |-> now[c], headers |-> merged]}
    BY <2>1, <2>4 DEF Fetch
  <2> HIDE DEF e
  <2>7. Answers(c, merged)
    BY <2>1, <2>2, <2>3, <2>4, <2>5, <2>6 DEF Answers, Moves
  <2>8. QED
    BY <2>2, <2>7
<1>9. ASSUME NEW delay \in RetryDelays, ReceiveRetryLater(c, delay)
      PROVE  Fails(c)
  <2>1. /\ stage[c] \in {"asking", "waiting"} /\ stage'[c] = "fetched"
        /\ SameFetch(c) /\ UNCHANGED <<httpCache, requests>>
    BY <1>1, <1>9 DEF ReceiveRetryLater, DeferOriginRequest, Return, SameFetch
  <2>2. result'[c].status = "RETRY_LATER"
    BY <1>1, <1>9 DEF ReceiveRetryLater, Return, Outcome
  <2>3. QED
    BY <1>2, <2>1, <2>2 DEF Fails, Ok
<1>10. QED
  BY <1>3, <1>4, <1>5, <1>6, <1>7, <1>8, <1>9
     DEF Fetch, FetchStep, Outcomes

-----------------------------------------------------------------------------
(***************************************************************************)
(* Type correctness                                                        *)
(***************************************************************************)

AnswerType == [url : Urls, at : Nat, headers : Headers]

ScanTypeOK ==
    /\ FetchTypeOK
    /\ signals \in [SignalKeys -> SignalRow \cup {None}]
    /\ existing \in [Clients -> Signal \cup {None}]
    /\ answers \subseteq AnswerType
    /\ \A c \in Clients : stage[c] = "withdrawing" => existing[c] \in Signal
    /\ \A c \in Clients : stage[c] \in {"fetched", "withdrawing"} =>
           url[c] \in Urls

\* The scan goes on to the withdrawal or ends: nothing else moves.
StageMoves(c) ==
    /\ stage[c] \in {"fetched", "withdrawing"}
    /\ \E st \in {"withdrawing", "idle", "closed"} :
           /\ stage' = [stage EXCEPT ![c] = st]
           /\ st = "idle" => c \in Reused
    /\ UNCHANGED <<httpStoreVars, url, now, cached, result, lastRequestAt,
                   blockedUntil, requests, deadlines>>

\* Seen from the fetch, a step of a scan is a step of its own or such a move.
LEMMA ScanStepOfFetch ==
    ASSUME NEW c \in Clients, ScanStep(c)
    PROVE  FetchNext \/ StageMoves(c)
<1>1. CASE Fetch(c) \/ ScannerDies(c)
  BY <1>1 DEF Fetch, ScannerDies, FetchNext
<1>2. CASE /\ stage[c] \in {"fetched", "withdrawing"}
           /\ CloseOrKeep(c) /\ LeavesFetchAlone
  BY <1>2 DEF CloseOrKeep, LeavesFetchAlone, StageMoves
<1>3. CASE FindSignalToWithdraw(c) /\ stage' = [stage EXCEPT ![c] = "withdrawing"]
  BY <1>3 DEF FindSignalToWithdraw, HasEvidence, LeavesFetchAlone, StageMoves
<1>4. Discard(c) \/ RecordSignal(c) \/ WithdrawSignal(c) =>
          /\ stage[c] \in {"fetched", "withdrawing"}
          /\ CloseOrKeep(c) /\ LeavesFetchAlone
  BY DEF Discard, RecordSignal, HasEvidence, WithdrawSignal
<1>5. FindSignalToWithdraw(c) =>
          \/ stage[c] = "fetched" /\ CloseOrKeep(c) /\ LeavesFetchAlone
          \/ stage' = [stage EXCEPT ![c] = "withdrawing"]
  BY DEF FindSignalToWithdraw, HasEvidence
<1>6. QED
  BY <1>1, <1>2, <1>3, <1>4, <1>5 DEF ScanStep

LEMMA StageMoveKeepsTypes ==
    ASSUME FetchTypeOK, NEW c \in Clients, StageMoves(c)
    PROVE  FetchTypeOK'
BY DEF StageMoves, FetchTypeOK, HttpStoreTypeOK, httpStoreVars

LEMMA FetchTypesKept ==
    ASSUME FetchTypeOK, NEW c \in Clients, ScanStep(c)
    PROVE  FetchTypeOK'
BY ScanStepOfFetch, StageMoveKeepsTypes, FetchTypeStep

\* What upsert_signal leaves in the table.
LEMMA UpsertResult ==
    ASSUME signals \in [SignalKeys -> SignalRow \cup {None}],
           NEW k \in SignalKeys, NEW s \in Signal, UpsertSignal(k, s)
    PROVE  /\ signals' \in [SignalKeys -> SignalRow \cup {None}]
           /\ \A j \in SignalKeys \ {k} : signals'[j] = signals[j]
           /\ ~Accepts(k, s.observed_at) => signals' = signals
           /\ Accepts(k, s.observed_at) =>
                  /\ signals'[k] \in SignalRow
                  /\ signals'[k].signal = s
                  /\ signals'[k].last_seen = s.observed_at
<1>1. s.observed_at \in Nat
  BY DEF Signal
<1>2. signals[k] # None => /\ signals[k].first_seen \in Nat
                           /\ signals[k].last_seen \in Nat
  BY DEF SignalRow
<1>3. CASE DiscoverSignal(k, s)
  <2> DEFINE row == [signal |-> s, first_seen |-> s.observed_at,
                     last_seen |-> s.observed_at]
  <2>1. signals[k] = None /\ signals' = [signals EXCEPT ![k] = row]
    BY <1>3 DEF DiscoverSignal
  <2>2. row \in SignalRow /\ row.signal = s /\ row.last_seen = s.observed_at
    BY <1>1 DEF SignalRow
  <2> HIDE DEF row
  <2>3. QED
    BY <2>1, <2>2 DEF Accepts
<1>4. CASE IgnoreStaleSignal(k, s)
  BY <1>1, <1>2, <1>4 DEF IgnoreStaleSignal, Accepts
<1>5. CASE RefreshSignal(k, s)
  <2> DEFINE row == [signal |-> s, first_seen |-> signals[k].first_seen,
                     last_seen |-> s.observed_at]
  <2>1. /\ signals[k] # None /\ s.observed_at >= signals[k].last_seen
        /\ signals' = [signals EXCEPT ![k] = row]
    BY <1>5 DEF RefreshSignal
  <2>2. row \in SignalRow /\ row.signal = s /\ row.last_seen = s.observed_at
    BY <1>1, <1>2, <2>1 DEF SignalRow
  <2> HIDE DEF row
  <2>3. QED
    BY <2>1, <2>2 DEF Accepts
<1>6. QED
  BY <1>3, <1>4, <1>5 DEF UpsertSignal

\* What a scan writes when it has found a signal, and when it withdraws one.
Recorded(c) ==
    [payload |-> Parsed(result[c].headers.lifecycle, now[c]),
     active |-> TRUE, observed_at |-> now[c]]

LEMMA WrittenSignals ==
    ASSUME ScanTypeOK, NEW c \in Clients
    PROVE  /\ RecordSignal(c) => Key(c) \in SignalKeys /\ Recorded(c) \in Signal
           /\ WithdrawSignal(c) =>
                  /\ Key(c) \in SignalKeys
                  /\ Withdrawn(existing[c], now[c]) \in Signal
                  /\ Withdrawn(existing[c], now[c]).active = FALSE
                  /\ Withdrawn(existing[c], now[c]).observed_at = now[c]
<1>1. now[c] \in Nat
  BY DEF ScanTypeOK, FetchTypeOK
<1>2. stage[c] \in {"fetched", "withdrawing"} => Key(c) \in SignalKeys
  BY HttpScanAssumption DEF ScanTypeOK, Key
<1>3. ASSUME RecordSignal(c) PROVE Recorded(c) \in Signal
  <2>1. result[c].headers.lifecycle \in Lifecycles \ Invalid
    BY <1>3 DEF RecordSignal, HasSignal
  <2>2. \A b \in BOOLEAN :
            <<result[c].headers.lifecycle, b>> \in Payloads
    BY <2>1 DEF Payloads
  <2>3. (DeprecatedFrom[result[c].headers.lifecycle] <= now[c]) \in BOOLEAN
    OBVIOUS
  <2>4. Parsed(result[c].headers.lifecycle, now[c]) \in Payloads
    BY ONLY <2>2, <2>3, Zenon DEF Parsed
  <2>5. QED
    BY <1>1, <2>4 DEF Recorded, Signal
<1>4. ASSUME WithdrawSignal(c)
      PROVE  /\ Withdrawn(existing[c], now[c]) \in Signal
             /\ Withdrawn(existing[c], now[c]).active = FALSE
             /\ Withdrawn(existing[c], now[c]).observed_at = now[c]
  <2>1. existing[c] \in Signal
    BY <1>4 DEF WithdrawSignal, ScanTypeOK
  <2>2. QED
    BY <1>1, <2>1 DEF Withdrawn, Signal
<1>5. QED
  BY <1>2, <1>3, <1>4 DEF RecordSignal, HasEvidence, WithdrawSignal

LEMMA ScanTypeInit == ScanInit => ScanTypeOK
BY FetchTypeInit DEF ScanInit, StoreInit, HttpFetchInit, ScanTypeOK

LEMMA ScanTypeStep ==
    ASSUME ScanTypeOK, [\E c \in Clients : ScanMove(c)]_scanVars
    PROVE  ScanTypeOK'
<1>1. CASE UNCHANGED scanVars
  <2>1. FetchTypeOK'
    BY <1>1 DEF scanVars, fetchVars, clientVars, httpStoreVars, ScanTypeOK,
        FetchTypeOK, HttpStoreTypeOK
  <2>2. QED
    BY <1>1, <2>1 DEF scanVars, evidenceVars, fetchVars, clientVars, ScanTypeOK
<1>2. ASSUME NEW c \in Clients, ScanStep(c)
      PROVE  ScanTypeOK'
  <2>1. FetchTypeOK /\ FetchTypeOK'
    BY <1>2, FetchTypesKept DEF ScanTypeOK
  <2>2. CASE Fetch(c)
    <3>1. OthersStay(c) /\ Outcomes(c)
      BY <2>1, <2>2, FetchOthers, FetchOutcomes DEF ScanTypeOK
    <3>2. UNCHANGED <<signals, existing>>
      BY <2>2 DEF Fetch, evidenceVars
    <3>3. stage[c] # "withdrawing" /\ stage'[c] # "withdrawing"
      BY <3>1 DEF Outcomes, Begins, Hits, Misses, Sends, Fails, Answers, Moves
    <3>4. stage'[c] = "fetched" => url'[c] \in Urls
      <4>1. stage'[c] = "fetched" =>
                stage[c] \in {"looking", "asking", "waiting"} /\ SameFetch(c)
        BY <3>1 DEF Outcomes, Begins, Hits, Misses, Sends, Fails, Answers, Moves
      <4>2. QED
        BY <2>1, <4>1, BusyClient DEF SameFetch
    <3>5. answers' \subseteq AnswerType
      <4>1. CASE answers' = answers
        BY <4>1 DEF ScanTypeOK
      <4>2. CASE \E h \in Headers : Answers(c, h)
        <5>1. PICK h \in Headers : Answers(c, h)
          BY <4>2
        <5>2. url[c] \in Urls /\ now[c] \in Nat
          BY <2>1, <5>1, BusyClient DEF Answers, Moves
        <5>3. QED
          BY <5>1, <5>2 DEF Answers, AnswerType, ScanTypeOK
      <4>3. QED
        BY <3>1, <4>1, <4>2 DEF Outcomes, Begins, Hits, Misses, Sends, Fails
    <3>6. QED
      BY <2>1, <3>1, <3>2, <3>3, <3>4, <3>5 DEF ScanTypeOK, OthersStay
  <2>3. CASE RecordSignal(c) \/ WithdrawSignal(c)
    <3>1. /\ signals' \in [SignalKeys -> SignalRow \cup {None}]
          /\ UNCHANGED <<existing, answers, url>>
      BY <2>3, <1>2, WrittenSignals, UpsertResult
         DEF RecordSignal, WithdrawSignal, Persist, Recorded, LeavesFetchAlone,
             ScanTypeOK
    <3>2. PICK st \in {"idle", "closed"} : stage' = [stage EXCEPT ![c] = st]
      BY <2>3 DEF RecordSignal, WithdrawSignal, CloseOrKeep
    <3>3. QED
      BY <2>1, <3>1, <3>2 DEF ScanTypeOK, FetchTypeOK
  <2>4. CASE FindSignalToWithdraw(c)
    <3>1. UNCHANGED <<signals, answers, url>>
      BY <2>4 DEF FindSignalToWithdraw, LeavesFetchAlone, evidenceVars
    <3>2. CASE existing' = existing /\ CloseOrKeep(c)
      BY <2>1, <3>1, <3>2 DEF ScanTypeOK, FetchTypeOK, CloseOrKeep
    <3>3. CASE /\ signals[Key(c)] # None
               /\ existing' = [existing EXCEPT ![c] = signals[Key(c)].signal]
               /\ stage' = [stage EXCEPT ![c] = "withdrawing"]
      <4>1. stage[c] = "fetched" /\ url[c] \in Urls /\ Key(c) \in SignalKeys
        BY <2>4, HttpScanAssumption
           DEF FindSignalToWithdraw, HasEvidence, ScanTypeOK, Key
      <4>2. signals[Key(c)].signal \in Signal
        BY <3>3, <4>1 DEF ScanTypeOK, SignalRow
      <4>3. QED
        BY <2>1, <3>1, <3>3, <4>1, <4>2 DEF ScanTypeOK, FetchTypeOK
    <3>4. QED
      BY <2>4, <3>2, <3>3 DEF FindSignalToWithdraw
  <2>5. CASE Discard(c) \/ ScannerDies(c)
    <3>1. UNCHANGED <<signals, answers, url, existing>>
      BY <2>5 DEF Discard, ScannerDies, ClientDies, LeavesFetchAlone, evidenceVars
    <3>2. PICK st \in {"idle", "closed", "dead"} :
              stage' = [stage EXCEPT ![c] = st]
      BY <2>5 DEF Discard, ScannerDies, ClientDies, CloseOrKeep
    <3>3. QED
      BY <2>1, <3>1, <3>2 DEF ScanTypeOK, FetchTypeOK
  <2>6. QED
    BY <1>2, <2>2, <2>3, <2>4, <2>5 DEF ScanStep
<1>3. QED
  BY <1>1, <1>2 DEF ScanMove

-----------------------------------------------------------------------------
(***************************************************************************)
(* A scan keeps what the fetch in it keeps                                 *)
(***************************************************************************)

LEMMA ScanKeepsPacing ==
    ASSUME PacingInv, [\E c \in Clients : ScanMove(c)]_scanVars
    PROVE  PacingInv'
<1>1. CASE UNCHANGED fetchVars
  BY <1>1, PacingStep
<1>2. ASSUME NEW c \in Clients, StageMoves(c)
      PROVE  PacingInv'
  <2>1. FetchTypeOK'
    BY <1>2, StageMoveKeepsTypes DEF PacingInv
  <2>2. UNCHANGED <<originState, requests, deadlines, lastRequestAt,
                    blockedUntil>>
    BY <1>2 DEF StageMoves, httpStoreVars
  <2>3. \A d \in OneFetch : stage'[d] \in {"idle", "looking", "asking"} =>
                                stage[d] \in {"idle", "looking", "asking"}
    BY <1>2 DEF StageMoves, OneFetch, PacingInv, FetchTypeOK
  <2>4. NothingRemembered'
    BY <2>2, <2>3 DEF PacingInv, NothingRemembered
  <2>5. QED
    BY <2>1, <2>2, <2>4, PacingUntouched
<1>3. QED
  BY <1>1, <1>2, PacingStep, ScanStepOfFetch DEF ScanMove, scanVars

LEMMA ScanKeepsCache ==
    ASSUME CacheInv, [\E c \in Clients : ScanMove(c)]_scanVars
    PROVE  CacheInv'
<1>1. CASE UNCHANGED fetchVars
  BY <1>1, CacheStep
<1>2. ASSUME NEW c \in Clients, StageMoves(c)
      PROVE  CacheInv'
  <2>1. FetchTypeOK'
    BY <1>2, StageMoveKeepsTypes DEF CacheInv
  <2>2. UNCHANGED <<httpCache, now, cached>>
    BY <1>2 DEF StageMoves, httpStoreVars
  <2>3. TableCoherent'
    BY <2>2 DEF CacheInv, TableCoherent
  <2>4. PICK st \in {"withdrawing", "idle", "closed"} :
            stage' = [stage EXCEPT ![c] = st]
    BY <1>2 DEF StageMoves
  <2>5. QED
    BY <2>1, <2>2, <2>3, <2>4, ReadKept
<1>3. QED
  BY <1>1, <1>2, CacheStep, ScanStepOfFetch DEF ScanMove, scanVars

\* Scanners that withdraw signals between their fetches still pace their
\* requests and never trip over a renewed entry of the cache.
THEOREM ScannersFetchSafely == ScanSpec => [](RequestsSpaced /\ RenewalStorable)
<1>1. ScanInit => PacingInv /\ CacheInv
  BY PacingInit, CacheInit DEF ScanInit
<1>2. PacingInv /\ [\E c \in Clients : ScanMove(c)]_scanVars => PacingInv'
  BY ScanKeepsPacing
<1>3. CacheInv /\ [\E c \in Clients : ScanMove(c)]_scanVars => CacheInv'
  BY ScanKeepsCache
<1>4. PacingInv /\ CacheInv => RequestsSpaced /\ RenewalStorable
  BY CacheReads DEF PacingInv, RenewalStorable
<1>5. QED
  BY <1>1, <1>2, <1>3, <1>4, PTL DEF ScanSpec

-----------------------------------------------------------------------------
(***************************************************************************)
(* Every signal stands on a current answer                                 *)
(***************************************************************************)

\* The entry e holds what answer a said of u.
Holds(e, u, a) ==
    /\ a.url = u /\ a.headers = e.headers /\ a.at = e.validated_at
    /\ Cacheable(a.headers) /\ e.expires_at = ExpiresAt(a.headers, a.at)

\* All the cache holds, an origin has said.
EntriesTold ==
    \A u \in Urls : httpCache[u] # None => \E a \in answers : Holds(httpCache[u], u, a)

\* Scan c has an ok result and is to act on it.
Acts(c) == stage[c] \in {"fetched", "withdrawing"} /\ Ok(result[c])

\* The result a scan acts on is what its endpoint has said, and still current.
ResultsTold ==
    \A c \in Clients : Acts(c) =>
        \E a \in answers : /\ a.url = url[c] /\ a.headers = result[c].headers
                           /\ CurrentAt(a, now[c])

\* A scan withdraws on an ok result without lifecycle fields.
WithdrawalsFounded ==
    \A c \in Clients : stage[c] = "withdrawing" =>
        Ok(result[c]) /\ result[c].headers.lifecycle = None

ToldInv == ScanTypeOK /\ EntriesTold /\ ResultsTold /\ WithdrawalsFounded

LEMMA ToldInit == ScanInit => ToldInv
BY ScanTypeInit DEF ScanInit, HttpFetchInit, HttpStoreInit, ToldInv, EntriesTold,
    ResultsTold, WithdrawalsFounded, Acts

\* Of the entries, the one stored is new, and trimming only deletes.
LEMMA StoreResult ==
    ASSUME ScanTypeOK, NEW c \in Clients, url[c] \in Urls,
           NEW e \in CacheEntry, Store(c, e)
    PROVE  /\ \A u \in Urls \ {url[c]} : httpCache'[u] \in {httpCache[u], None}
           /\ Cacheable(e.headers) => httpCache'[url[c]] \in {e, None}
           /\ ~Cacheable(e.headers) => httpCache' = httpCache
<1>1. CASE Cacheable(e.headers)
  <2> DEFINE table == [httpCache EXCEPT ![url[c]] = e]
  <2>1. \A u \in Urls : Trimmed(table)[u] \in {table[u], None}
    BY DEF Trimmed
  <2>2. table[url[c]] = e /\ \A u \in Urls \ {url[c]} : table[u] = httpCache[u]
    BY DEF ScanTypeOK, FetchTypeOK, HttpStoreTypeOK
  <2>3. httpCache' = Trimmed(table)
    BY <1>1 DEF Store, PutHttpCache
  <2> HIDE DEF table
  <2>4. QED
    BY <1>1, <2>1, <2>2, <2>3
<1>2. CASE ~Cacheable(e.headers)
  BY <1>2 DEF Store, httpStoreVars
<1>3. QED
  BY <1>1, <1>2

LEMMA AnswersKeepEntriesTold ==
    ASSUME ToldInv, NEW c \in Clients, NEW h \in Headers, Answers(c, h)
    PROVE  EntriesTold'
<1> DEFINE new == [url |-> url[c], at |-> now[c], headers |-> h]
<1>1. url[c] \in Urls
  BY BusyClient DEF Answers, Moves, ToldInv, ScanTypeOK
<1>2. PICK e : EntryOf(e, h, now[c]) /\ Store(c, e)
  BY DEF Answers
<1>3. answers' = answers \cup {new}
  BY DEF Answers
<1>4. /\ \A u \in Urls \ {url[c]} : httpCache'[u] \in {httpCache[u], None}
      /\ Cacheable(h) => httpCache'[url[c]] \in {e, None}
      /\ ~Cacheable(h) => httpCache' = httpCache
  BY <1>1, <1>2, StoreResult DEF EntryOf, ToldInv
<1>5. Cacheable(h) => Holds(e, url[c], new)
  BY <1>2 DEF EntryOf, Holds
<1> HIDE DEF new
<1>6. QED
  BY <1>3, <1>4, <1>5 DEF ToldInv, EntriesTold

\* A fresh entry counts at the reading of the clock it is fresh at.
LEMMA FreshIsCurrent ==
    ASSUME NEW e \in CacheEntry, NEW u, NEW a, NEW t \in Nat,
           Fresh(e, t), Holds(e, u, a)
    PROVE  CurrentAt(a, t)
<1>1. e.expires_at \in Nat /\ e.expires_at > t
  BY DEF CacheEntry, Fresh
<1>2. QED
  BY <1>1 DEF Holds, CurrentAt

LEMMA FetchKeepsResultsTold ==
    ASSUME ToldInv, NEW c \in Clients, OthersStay(c), Outcomes(c)
    PROVE  ResultsTold'
<1>1. answers \subseteq answers'
  BY DEF Outcomes, Begins, Hits, Misses, Sends, Fails, Answers
<1>2. ASSUME NEW d \in Clients \ {c}, Acts(d)'
      PROVE  \E a \in answers' : /\ a.url = url'[d] /\ a.headers = result'[d].headers
                                 /\ CurrentAt(a, now'[d])
  <2>1. Acts(d)
    BY <1>2 DEF Acts, OthersStay
  <2>2. PICK a \in answers : /\ a.url = url[d] /\ a.headers = result[d].headers
                             /\ CurrentAt(a, now[d])
    BY <1>2, <2>1 DEF ToldInv, ResultsTold
  <2>3. QED
    BY <1>1, <1>2, <2>2 DEF OthersStay
<1>3. ASSUME Acts(c)'
      PROVE  \E a \in answers' : /\ a.url = url'[c] /\ a.headers = result'[c].headers
                                 /\ CurrentAt(a, now'[c])
  <2>1. CASE Hits(c)
    <3>1. /\ url[c] \in Urls /\ now[c] \in Nat
          /\ httpCache[url[c]] \in CacheEntry
      BY <2>1, BusyClient
         DEF Hits, Moves, Fresh, ToldInv, ScanTypeOK, FetchTypeOK, HttpStoreTypeOK
    <3>2. httpCache[url[c]] # None /\ Fresh(httpCache[url[c]], now[c])
      BY <2>1 DEF Hits, Fresh
    <3>3. PICK a \in answers : Holds(httpCache[url[c]], url[c], a)
      BY <3>1, <3>2 DEF ToldInv, EntriesTold
    <3>4. CurrentAt(a, now[c])
      BY <3>1, <3>2, <3>3, FreshIsCurrent
    <3>5. a.url = url[c] /\ a.headers = result'[c].headers
      BY <2>1, <3>3 DEF Hits, Holds
    <3>6. QED
      BY <1>1, <2>1, <3>4, <3>5 DEF Hits, SameFetch
  <2>2. CASE \E h \in Headers : Answers(c, h)
    <3>1. PICK h \in Headers : Answers(c, h)
      BY <2>2
    <3>2. PICK a : a = [url |-> url[c], at |-> now[c], headers |-> h]
      OBVIOUS
    <3>3. a \in answers' /\ url'[c] = url[c] /\ now'[c] = now[c]
      BY <3>1, <3>2 DEF Answers, SameFetch
    <3>4. a.url = url[c] /\ a.headers = result'[c].headers /\ a.at = now[c]
      BY <3>1, <3>2 DEF Answers
    <3>5. QED
      BY <3>3, <3>4 DEF CurrentAt
  <2>3. ~Begins(c) /\ ~Misses(c) /\ ~Sends(c) /\ ~Fails(c)
    BY <1>3 DEF Acts, Begins, Misses, Sends, Fails, Moves
  <2>4. QED
    BY <2>1, <2>2, <2>3 DEF Outcomes
<1>4. QED
  BY <1>2, <1>3 DEF ResultsTold

\* A step after the fetch: c goes to the stage st.
Ends(c, st) ==
    /\ stage' = [stage EXCEPT ![c] = st]
    /\ st = "withdrawing" =>
           stage[c] = "fetched" /\ Ok(result[c])
               /\ result[c].headers.lifecycle = None
    /\ UNCHANGED <<httpStoreVars, url, now, result, requests, answers>>

EndStages == {"withdrawing", "idle", "closed", "dead"}

LEMMA ScanOutcomes ==
    ASSUME ScanTypeOK, NEW c \in Clients, ScanStep(c)
    PROVE  \/ Outcomes(c) /\ OthersStay(c) /\ Fetch(c)
           \/ \E st \in EndStages : Ends(c, st)
<1>1. CASE Fetch(c)
  BY <1>1, FetchOutcomes, FetchOthers DEF ScanTypeOK
<1>2. CASE Discard(c) \/ RecordSignal(c) \/ WithdrawSignal(c)
  BY <1>2 DEF Discard, RecordSignal, WithdrawSignal, CloseOrKeep, LeavesFetchAlone,
      Ends, EndStages
<1>3. CASE ScannerDies(c)
  BY <1>3 DEF ScannerDies, ClientDies, Ends, EndStages
<1>4. CASE FindSignalToWithdraw(c)
  BY <1>4 DEF FindSignalToWithdraw, HasEvidence, CloseOrKeep, LeavesFetchAlone,
      Ends, EndStages
<1>5. QED
  BY <1>1, <1>2, <1>3, <1>4 DEF ScanStep

\* Only the scans that write touch the signals.
LEMMA OnlyScansWrite ==
    ASSUME NEW c \in Clients, ScanStep(c), signals' # signals
    PROVE  RecordSignal(c) \/ WithdrawSignal(c)
BY DEF ScanStep, Fetch, Discard, FindSignalToWithdraw, ScannerDies, evidenceVars

LEMMA ToldStep ==
    ASSUME ToldInv, [\E c \in Clients : ScanMove(c)]_scanVars
    PROVE  ToldInv'
<1>1. ScanTypeOK'
  BY ScanTypeStep DEF ToldInv
<1>2. CASE UNCHANGED scanVars
  <2>1. EntriesTold'
    BY <1>2 DEF scanVars, fetchVars, httpStoreVars, ToldInv, EntriesTold, Holds
  <2>2. ResultsTold' /\ WithdrawalsFounded'
    BY <1>2 DEF scanVars, fetchVars, clientVars, ToldInv, ResultsTold,
        WithdrawalsFounded, Acts
  <2>3. QED
    BY <1>1, <2>1, <2>2 DEF ToldInv
<1>3. ASSUME NEW c \in Clients, ScanStep(c)
      PROVE  ToldInv'
  <2>1. CASE Outcomes(c) /\ OthersStay(c)
    <3>1. EntriesTold'
      <4>1. CASE httpCache' = httpCache /\ answers' = answers
        BY <4>1 DEF ToldInv, EntriesTold, Holds
      <4>2. CASE \E h \in Headers : Answers(c, h)
        BY <4>2, AnswersKeepEntriesTold
      <4>3. QED
        BY <2>1, <4>1, <4>2 DEF Outcomes, Begins, Hits, Misses, Sends, Fails
    <3>2. ResultsTold'
      BY <2>1, FetchKeepsResultsTold
    <3>3. stage'[c] # "withdrawing"
      BY <2>1 DEF Outcomes, Begins, Hits, Misses, Sends, Fails, Answers, Moves
    <3>4. WithdrawalsFounded'
      BY <2>1, <3>3 DEF OthersStay, ToldInv, WithdrawalsFounded
    <3>5. QED
      BY <1>1, <3>1, <3>2, <3>4 DEF ToldInv
  <2>2. ASSUME NEW st \in EndStages, Ends(c, st)
        PROVE  ToldInv'
    <3>1. /\ UNCHANGED <<httpCache, url, now, result, answers>>
          /\ \A d \in Clients : stage'[d] = IF d = c THEN st ELSE stage[d]
      BY <2>2 DEF Ends, httpStoreVars, ToldInv, ScanTypeOK, FetchTypeOK
    <3>2. EntriesTold'
      BY <3>1 DEF ToldInv, EntriesTold, Holds
    <3>3. \A d \in Clients : Acts(d)' => Acts(d)
      BY <2>2, <3>1 DEF Acts, Ends, EndStages
    <3>4. ResultsTold'
      BY <3>1, <3>3 DEF ToldInv, ResultsTold
    <3>5. WithdrawalsFounded'
      BY <2>2, <3>1 DEF ToldInv, WithdrawalsFounded, Ends
    <3>6. QED
      BY <1>1, <3>2, <3>4, <3>5 DEF ToldInv
  <2>3. QED
    BY <1>3, <2>1, <2>2, ScanOutcomes DEF ToldInv
<1>4. QED
  BY <1>2, <1>3 DEF ScanMove

\* The row that a scan writes.
LEMMA WrittenRow ==
    ASSUME ScanTypeOK, NEW c \in Clients, ScanStep(c),
           NEW k \in SignalKeys, signals'[k] # signals[k]
    PROVE  /\ k = Key(c) /\ stage[c] \in {"fetched", "withdrawing"}
           /\ signals'[k].last_seen = now[c]
           /\ \/ /\ RecordSignal(c)
                 /\ signals'[k].signal = Recorded(c)
              \/ /\ WithdrawSignal(c)
                 /\ signals'[k].signal.active = FALSE
<1>1. RecordSignal(c) \/ WithdrawSignal(c)
  BY OnlyScansWrite
<1>2. CASE RecordSignal(c)
  <2>1. Key(c) \in SignalKeys /\ Recorded(c) \in Signal
    BY <1>2, WrittenSignals
  <2>2. UpsertSignal(Key(c), Recorded(c)) /\ stage[c] = "fetched"
    BY <1>2 DEF RecordSignal, Persist, Recorded, HasEvidence
  <2>3. Recorded(c).observed_at = now[c]
    BY DEF Recorded
  <2>4. QED
    BY <1>2, <2>1, <2>2, <2>3, UpsertResult DEF ScanTypeOK
<1>3. CASE WithdrawSignal(c)
  <2> DEFINE s == Withdrawn(existing[c], now[c])
  <2>1. Key(c) \in SignalKeys /\ s \in Signal /\ s.active = FALSE
        /\ s.observed_at = now[c]
    BY <1>3, WrittenSignals
  <2>2. UpsertSignal(Key(c), s) /\ stage[c] = "withdrawing"
    BY <1>3 DEF WithdrawSignal, Persist
  <2> HIDE DEF s
  <2>3. QED
    BY <1>3, <2>1, <2>2, UpsertResult DEF ScanTypeOK
<1>4. QED
  BY <1>1, <1>2, <1>3

LEMMA WrittenOnAnswer ==
    ASSUME ToldInv, NEW c \in Clients, ScanStep(c),
           NEW k \in SignalKeys, signals'[k] # signals[k]
    PROVE  \E a \in answers : /\ KeyOf[a.url] = k
                              /\ CurrentAt(a, signals'[k].last_seen)
                              /\ SaysSo(a, signals'[k])
<1>1. /\ k = Key(c) /\ stage[c] \in {"fetched", "withdrawing"}
      /\ signals'[k].last_seen = now[c]
      /\ \/ RecordSignal(c) /\ signals'[k].signal = Recorded(c)
         \/ WithdrawSignal(c) /\ signals'[k].signal.active = FALSE
  BY WrittenRow DEF ToldInv
<1>2. Acts(c)
  BY <1>1 DEF RecordSignal, HasEvidence, WithdrawSignal, ToldInv,
      WithdrawalsFounded, Acts
<1>3. PICK a \in answers : /\ a.url = url[c] /\ a.headers = result[c].headers
                           /\ CurrentAt(a, now[c])
  BY <1>2 DEF ToldInv, ResultsTold
<1>4. SaysSo(a, signals'[k])
  <2>1. CASE RecordSignal(c) /\ signals'[k].signal = Recorded(c)
    BY <1>1, <1>3, <2>1 DEF RecordSignal, Recorded, SaysSo
  <2>2. CASE WithdrawSignal(c) /\ signals'[k].signal.active = FALSE
    BY <1>3, <2>2 DEF WithdrawSignal, ToldInv, WithdrawalsFounded, SaysSo
  <2>3. QED
    BY <1>1, <2>1, <2>2
<1>5. QED
  BY <1>1, <1>3, <1>4 DEF Key

\* Whatever the cache, the rate limit and the other scanners do, a signal is
\* written only on an answer of its own endpoint that is current at the time
\* the scan states: a failed fetch and an expired entry never write.
THEOREM SignalsStandOnAnswers == ScanSpec => OnlyCurrentAnswersRecorded
<1> DEFINE OnAnswer ==
               \A k \in SignalKeys :
                   signals'[k] # signals[k] =>
                       \E a \in answers : /\ KeyOf[a.url] = k
                                          /\ CurrentAt(a, signals'[k].last_seen)
                                          /\ SaysSo(a, signals'[k])
<1>1. ToldInv /\ [\E c \in Clients : ScanMove(c)]_scanVars => ToldInv'
  BY ToldStep
<1>2. ToldInv /\ [\E c \in Clients : ScanMove(c)]_scanVars => [OnAnswer]_scanVars
  BY WrittenOnAnswer DEF ScanMove
<1>3. QED
  BY <1>1, <1>2, ToldInit, PTL DEF ScanSpec, OnlyCurrentAnswersRecorded

-----------------------------------------------------------------------------
(***************************************************************************)
(* Scans one at a time                                                     *)
(***************************************************************************)

\* Every answer, and every answer still to come, was asked for at its time.
AnswersAsked ==
    \A a \in answers : \E r \in requests :
        r.origin = OriginOf[a.url] /\ r.at = a.at

WaitsAsked ==
    \A c \in Clients : stage[c] = "waiting" =>
        \E r \in requests : r.origin = OriginOf[url[c]] /\ r.at = now[c]

Active(c) == stage[c] \notin {"idle", "closed", "dead"}

\* The scan under way is the only one, and its reading is the latest.
OneAtATime ==
    \A c \in Clients : Active(c) =>
        \A d \in Clients : now[d] <= now[c] /\ (Active(d) => d = c)

\* Some scan has read t or later.
Past(t) == \E d \in Clients : t <= now[d]

AllPast ==
    /\ \A a \in answers : Past(a.at)
    /\ \A k \in SignalKeys : signals[k] # None => Past(signals[k].last_seen)

\* An endpoint has given one answer at a time.
Distinct == \A a, b \in answers : a.url = b.url /\ a.at = b.at => a = b

\* An entry outlives no later answer of its endpoint.
EntriesLatest ==
    \A u \in Urls : httpCache[u] # None =>
        \A a \in answers : a.url = u /\ a.at > httpCache[u].validated_at =>
            httpCache[u].expires_at <= a.at

\* The scan that asks has found nothing fresh, and nobody has put it there since.
AsksWhenStale ==
    \A c \in Clients : stage[c] \in {"asking", "waiting"} =>
        ~Fresh(httpCache[url[c]], now[c])

\* Its request is the first of its instant.
WaitsAlone ==
    \A c \in Clients : stage[c] = "waiting" =>
        \A a \in answers : a.url = url[c] => a.at < now[c]

\* The result a scan acts on is the last answer of its endpoint.
ResultLatest ==
    \A c \in Clients : Acts(c) =>
        \E a \in answers : /\ a.url = url[c] /\ a.headers = result[c].headers
                           /\ \A b \in answers : b.url = url[c] => b.at <= a.at

HealInv ==
    /\ OneAtATime /\ AllPast /\ Distinct /\ EntriesLatest
    /\ AsksWhenStale /\ WaitsAlone /\ ResultLatest

SerialInv ==
    /\ ToldInv /\ PacingInv
    /\ AnswersAsked /\ WaitsAsked
    /\ serial => HealInv

LEMMA SerialInit == ScanInit => SerialInv
<1> SUFFICES ASSUME ScanInit PROVE SerialInv
  OBVIOUS
<1>1. ToldInv /\ PacingInv
  BY ToldInit, PacingInit DEF ScanInit
<1>2. /\ answers = {} /\ \A c \in Clients : stage[c] = "idle"
      /\ \A u \in Urls : httpCache[u] = None
      /\ \A k \in SignalKeys : signals[k] = None
  BY DEF ScanInit, HttpFetchInit, HttpStoreInit, StoreInit
<1>3. AnswersAsked /\ WaitsAsked
  BY <1>2 DEF AnswersAsked, WaitsAsked
<1>4. HealInv
  BY <1>2 DEF HealInv, OneAtATime, Active, AllPast, Distinct, EntriesLatest,
      AsksWhenStale, WaitsAlone, ResultLatest, Acts
<1>5. QED
  BY <1>1, <1>3, <1>4 DEF SerialInv

LEMMA AskedStep ==
    ASSUME ScanTypeOK, AnswersAsked, WaitsAsked, NEW c \in Clients, ScanStep(c)
    PROVE  AnswersAsked' /\ WaitsAsked'
<1>1. CASE Outcomes(c) /\ OthersStay(c)
  <2>1. requests \subseteq requests'
    BY <1>1 DEF Outcomes, Begins, Hits, Misses, Sends, Fails, Answers
  <2>2. AnswersAsked'
    <3>1. CASE answers' = answers
      BY <2>1, <3>1 DEF AnswersAsked
    <3>2. CASE \E h \in Headers : Answers(c, h)
      <4>1. PICK h \in Headers : Answers(c, h)
        BY <3>2
      <4>2. PICK new : new = [url |-> url[c], at |-> now[c], headers |-> h]
        OBVIOUS
      <4>3. answers' = answers \cup {new} /\ stage[c] = "waiting"
        BY <4>1, <4>2 DEF Answers, Moves
      <4>4. \E r \in requests : r.origin = OriginOf[new.url] /\ r.at = new.at
        BY <4>2, <4>3 DEF WaitsAsked
      <4>5. QED
        BY <2>1, <4>3, <4>4 DEF AnswersAsked
    <3>3. QED
      BY <1>1, <3>1, <3>2 DEF Outcomes, Begins, Hits, Misses, Sends, Fails
  <2>3. WaitsAsked'
    <3>1. stage'[c] = "waiting" =>
              \E r \in requests' : r.origin = OriginOf[url'[c]] /\ r.at = now'[c]
      <4>1. stage'[c] = "waiting" => Sends(c)
        BY <1>1 DEF Outcomes, Begins, Hits, Misses, Fails, Answers, Moves
      <4>2. PICK r : r = [client |-> c, origin |-> OriginOf[url[c]], at |-> now[c]]
        OBVIOUS
      <4>3. r.origin = OriginOf[url[c]] /\ r.at = now[c]
        BY <4>2
      <4>4. Sends(c) => r \in requests' /\ url'[c] = url[c] /\ now'[c] = now[c]
        BY <4>2 DEF Sends, SameFetch
      <4>5. QED
        BY <4>1, <4>3, <4>4
    <3>2. QED
      BY <1>1, <2>1, <3>1 DEF WaitsAsked, OthersStay
  <2>4. QED
    BY <2>2, <2>3
<1>2. ASSUME NEW st \in EndStages, Ends(c, st)
      PROVE  AnswersAsked' /\ WaitsAsked'
  <2>1. UNCHANGED <<url, now, requests, answers>>
    BY <1>2 DEF Ends
  <2>2. \A d \in Clients : stage'[d] = "waiting" => stage[d] = "waiting"
    BY <1>2 DEF Ends, EndStages, ScanTypeOK, FetchTypeOK
  <2>3. QED
    BY <2>1, <2>2 DEF AnswersAsked, WaitsAsked
<1>3. QED
  BY <1>1, <1>2, ScanOutcomes

\* The request of a one-fetch client is the first of its instant.
LEMMA SendsAlone ==
    ASSUME SerialInv, Reused = {}, Interval > 0, NEW c \in Clients, Sends(c),
           NEW a \in answers, a.url = url[c]
    PROVE  a.at < now[c]
<1>1. ClaimAndSend(c)
  BY MemoryIsReused DEF Sends, SerialInv
<1>2. PICK r \in requests : r.origin = OriginOf[a.url] /\ r.at = a.at
  BY DEF SerialInv, AnswersAsked
<1>3. r.client \in OneFetch /\ r.at \in Nat
  BY DEF SerialInv, PacingInv, FetchTypeOK, OneFetch
<1>4. now[c] >= r.at + Interval
  BY <1>1, <1>2, <1>3, ClaimSafe DEF SerialInv
<1>5. now[c] \in Nat
  BY DEF SerialInv, PacingInv, FetchTypeOK
<1>6. QED
  BY <1>2, <1>3, <1>4, <1>5, HttpFetchAssumption

\* A step of the scan c while scans run one at a time.
SerialStep(c) ==
    /\ ScanStep(c)
    /\ OnTheClock(c)
    /\ Alone(c)

\* Clocks only go forward, and no other scan is active before or after.
LEMMA SerialClocks ==
    ASSUME ScanTypeOK, ScanTypeOK', OneAtATime, NEW c \in Clients, SerialStep(c)
    PROVE  /\ \A d \in Clients : now[d] <= now'[d]
           /\ \A d \in Clients \ {c} : ~Active(d) /\ ~Active(d)'
           /\ OneAtATime'
<1>1. now \in [Clients -> Nat] /\ now' \in [Clients -> Nat]
  BY DEF ScanTypeOK, FetchTypeOK
<1>2. \A d \in Clients \ {c} : now'[d] = now[d] /\ stage'[d] = stage[d]
  <2>1. ASSUME NEW st \in EndStages, Ends(c, st)
        PROVE  \A d \in Clients \ {c} : now'[d] = now[d] /\ stage'[d] = stage[d]
    BY <2>1 DEF Ends, ScanTypeOK, FetchTypeOK
  <2>2. QED
    BY <2>1, ScanOutcomes DEF SerialStep, OthersStay
<1>3. \A d \in Clients \ {c} : ~Active(d) /\ ~Active(d)'
  BY <1>2 DEF SerialStep, Alone, Active
<1>4. \/ now'[c] = now[c] /\ (Active(c)' => Active(c))
      \/ Begins(c)
  <2>1. ASSUME NEW st \in EndStages, Ends(c, st)
        PROVE  now'[c] = now[c] /\ (Active(c)' => Active(c))
    BY <2>1 DEF Ends, EndStages, Active, ScanTypeOK, FetchTypeOK
  <2>2. Outcomes(c) => Begins(c) \/ (now'[c] = now[c] /\ Active(c))
    BY DEF Outcomes, Hits, Misses, Sends, Fails, Answers, Moves, SameFetch, Active
  <2>3. QED
    BY <2>1, <2>2, ScanOutcomes DEF SerialStep
<1>5. Begins(c) => \A d \in Clients : now[d] <= now'[c]
  BY <1>1 DEF Begins, Moves, SerialStep, OnTheClock
<1>6. \A d \in Clients : now[d] <= now'[d]
  BY <1>1, <1>2, <1>4, <1>5
<1>7. ASSUME Active(c)' PROVE \A d \in Clients : now'[d] <= now'[c]
  <2>1. CASE now'[c] = now[c] /\ Active(c)
    BY <1>1, <1>2, <2>1 DEF OneAtATime
  <2>2. CASE Begins(c)
    BY <1>1, <1>2, <1>5, <2>2
  <2>3. QED
    BY <1>4, <1>7, <2>1, <2>2
<1>8. OneAtATime'
  BY <1>3, <1>7 DEF OneAtATime
<1>9. QED
  BY <1>3, <1>6, <1>8

\* The same after a step.
PastNext(t) == \E d \in Clients : t <= now'[d]

LEMMA PastGrows ==
    ASSUME ScanTypeOK, ScanTypeOK', \A d \in Clients : now[d] <= now'[d],
           NEW t \in Nat, Past(t)
    PROVE  PastNext(t)
<1>1. \A d \in Clients : now[d] \in Nat /\ now'[d] \in Nat
  BY DEF ScanTypeOK, FetchTypeOK
<1>2. QED
  BY <1>1 DEF Past, PastNext

\* Nothing in the database or in the history lies after the scan under way.
LEMMA ActiveIsLast ==
    ASSUME ScanTypeOK, OneAtATime, AllPast, NEW c \in Clients, Active(c)
    PROVE  /\ \A a \in answers : a.at <= now[c]
           /\ \A k \in SignalKeys : signals[k] # None =>
                  signals[k].last_seen <= now[c]
<1>1. \A d \in Clients : now[d] \in Nat /\ now[d] <= now[c]
  BY DEF ScanTypeOK, FetchTypeOK, OneAtATime
<1>2. \A t \in Nat : Past(t) => t <= now[c]
  BY <1>1 DEF Past
<1>3. /\ \A a \in answers : a.at \in Nat
      /\ \A k \in SignalKeys : signals[k] # None => signals[k].last_seen \in Nat
  BY DEF ScanTypeOK, AnswerType, SignalRow
<1>4. QED
  BY <1>2, <1>3 DEF AllPast

LEMMA AllPastStep ==
    ASSUME ScanTypeOK, ScanTypeOK', OneAtATime, AllPast, NEW c \in Clients,
           SerialStep(c)
    PROVE  AllPast'
<1>1. \A d \in Clients : now[d] <= now'[d]
  BY SerialClocks
<1>2. /\ \A a \in answers : a.at \in Nat
      /\ \A k \in SignalKeys : signals[k] # None => signals[k].last_seen \in Nat
      /\ now[c] \in Nat /\ now'[c] \in Nat
  BY DEF ScanTypeOK, FetchTypeOK, AnswerType, SignalRow
<1>3. PastNext(now[c])
  BY <1>1 DEF PastNext
<1>4. ASSUME NEW a \in answers' PROVE PastNext(a.at)
  <2>1. CASE a \in answers
    BY <1>1, <1>2, <2>1, PastGrows DEF AllPast
  <2>2. CASE a \notin answers
    <3>1. PICK h \in Headers : Answers(c, h)
      BY <2>2, ScanOutcomes
         DEF SerialStep, Outcomes, Begins, Hits, Misses, Sends, Fails, Ends
    <3>2. a = [url |-> url[c], at |-> now[c], headers |-> h]
      BY <2>2, <3>1 DEF Answers
    <3>3. a.at = now[c]
      BY <3>2
    <3>4. QED
      BY <1>3, <3>3
  <2>3. QED
    BY <2>1, <2>2
<1>5. ASSUME NEW k \in SignalKeys, signals'[k] # None
      PROVE  PastNext(signals'[k].last_seen)
  <2>1. CASE signals'[k] = signals[k]
    <3>1. signals[k] # None /\ Past(signals[k].last_seen)
      BY <1>5, <2>1 DEF AllPast
    <3>2. signals[k].last_seen \in Nat
      BY <1>2, <3>1
    <3>3. QED
      BY <1>1, <2>1, <3>1, <3>2, PastGrows
  <2>2. CASE signals'[k] # signals[k]
    BY <1>3, <2>2, WrittenRow DEF SerialStep
  <2>3. QED
    BY <2>1, <2>2
<1>6. QED
  BY <1>4, <1>5 DEF AllPast, Past, PastNext

\* An answer is new to the history, the last of its endpoint, and leaves every
\* entry the cache still has in the right.
LEMMA AnswersHeal ==
    ASSUME SerialInv, HealInv, NEW c \in Clients, NEW h \in Headers, Answers(c, h)
    PROVE  Distinct' /\ EntriesLatest'
<1>1. PICK new : new = [url |-> url[c], at |-> now[c], headers |-> h]
  OBVIOUS
<1>2. /\ new.url = url[c] /\ new.at = now[c] /\ new.headers = h
      /\ answers' = answers \cup {new} /\ stage[c] = "waiting"
  BY <1>1 DEF Answers, Moves
<1>3. ScanTypeOK /\ url[c] \in Urls /\ now[c] \in Nat
  BY <1>2, BusyClient DEF SerialInv, ToldInv, ScanTypeOK
<1>4. \A a \in answers : a.at \in Nat /\ (a.url = url[c] => a.at < now[c])
  BY <1>2, <1>3 DEF HealInv, WaitsAlone, ScanTypeOK, AnswerType
<1>5. Distinct'
  <2> SUFFICES ASSUME NEW a \in answers', NEW b \in answers',
                      a.url = b.url, a.at = b.at
               PROVE  a = b
    BY DEF Distinct
  <2>1. CASE a \in answers /\ b \in answers
    BY <2>1 DEF HealInv, Distinct
  <2>2. CASE a = new \/ b = new
    BY <1>2, <1>3, <1>4, <2>2
  <2>3. QED
    BY <1>2, <2>1, <2>2
<1>6. PICK e : EntryOf(e, h, now[c]) /\ Store(c, e)
  BY DEF Answers
<1>7. /\ \A u \in Urls \ {url[c]} : httpCache'[u] \in {httpCache[u], None}
      /\ Cacheable(h) => httpCache'[url[c]] \in {e, None}
      /\ ~Cacheable(h) => httpCache' = httpCache
  BY <1>3, <1>6, StoreResult DEF EntryOf
<1>8. ASSUME NEW u \in Urls, httpCache'[u] # None, NEW a \in answers',
             a.url = u, a.at > httpCache'[u].validated_at
      PROVE  httpCache'[u].expires_at <= a.at
  <2>1. CASE u # url[c]
    <3>1. httpCache'[u] = httpCache[u] /\ a \in answers
      BY <1>2, <1>7, <1>8, <2>1
    <3>2. QED
      BY <1>8, <3>1 DEF HealInv, EntriesLatest
  <2>2. CASE u = url[c] /\ Cacheable(h)
    <3>1. httpCache'[u].validated_at = now[c]
      BY <1>6, <1>7, <1>8, <2>2 DEF EntryOf
    <3>2. QED
      BY <1>2, <1>3, <1>4, <1>8, <2>2, <3>1
  <2>3. CASE u = url[c] /\ ~Cacheable(h)
    <3>1. httpCache'[u] = httpCache[u] /\ httpCache[u] \in CacheEntry
      BY <1>3, <1>7, <1>8, <2>3 DEF ScanTypeOK, FetchTypeOK, HttpStoreTypeOK
    <3>2. CASE a \in answers
      BY <1>8, <3>1, <3>2 DEF HealInv, EntriesLatest
    <3>3. CASE a = new
      <4>1. ~Fresh(httpCache[u], now[c])
        BY <1>2, <2>3 DEF HealInv, AsksWhenStale
      <4>2. httpCache[u].expires_at <= now[c]
        BY <1>3, <1>8, <3>1, <4>1 DEF Fresh, CacheEntry
      <4>3. QED
        BY <1>2, <3>1, <3>3, <4>2
    <3>4. QED
      BY <1>2, <3>2, <3>3
  <2>4. QED
    BY <2>1, <2>2, <2>3
<1>9. EntriesLatest'
  BY <1>8 DEF EntriesLatest
<1>10. QED
  BY <1>5, <1>9

\* What the cache offers as fresh is the last answer of the endpoint.
LEMMA HitsLast ==
    ASSUME SerialInv, HealInv, NEW c \in Clients, Hits(c)
    PROVE  \E a \in answers : /\ a.url = url[c] /\ a.headers = result'[c].headers
                              /\ \A b \in answers : b.url = url[c] => b.at <= a.at
<1>1. /\ ScanTypeOK /\ stage[c] = "looking" /\ Active(c)
      /\ Fresh(httpCache[url[c]], now[c])
  BY DEF Hits, Moves, Active, SerialInv, ToldInv
<1>2. /\ url[c] \in Urls /\ now[c] \in Nat
      /\ httpCache[url[c]] \in CacheEntry
      /\ httpCache[url[c]].expires_at > now[c]
  BY <1>1, BusyClient DEF Fresh, ScanTypeOK, FetchTypeOK, HttpStoreTypeOK
<1>3. PICK a \in answers : Holds(httpCache[url[c]], url[c], a)
  BY <1>1, <1>2 DEF Fresh, SerialInv, ToldInv, EntriesTold
<1>4. a.url = url[c] /\ a.headers = result'[c].headers
      /\ a.at = httpCache[url[c]].validated_at
  BY <1>3 DEF Hits, Holds
<1>5. ASSUME NEW b \in answers, b.url = url[c] PROVE b.at <= a.at
  <2>1. b.at <= now[c] /\ b.at \in Nat /\ a.at \in Nat
    BY <1>1, ActiveIsLast DEF HealInv, ScanTypeOK, AnswerType
  <2>2. b.at > a.at => httpCache[url[c]].expires_at <= b.at
    BY <1>1, <1>2, <1>4, <1>5 DEF HealInv, EntriesLatest, Fresh
  <2>3. httpCache[url[c]].expires_at \in Nat
    BY <1>2 DEF CacheEntry
  <2>4. QED
    BY <1>2, <2>1, <2>2, <2>3
<1>6. QED
  BY <1>4, <1>5

LEMMA FetchHeals ==
    ASSUME SerialInv, HealInv, Reused = {}, Interval > 0, NEW c \in Clients,
           SerialStep(c), ScanTypeOK', Outcomes(c), OthersStay(c)
    PROVE  HealInv'
<1>1. ScanTypeOK /\ OneAtATime /\ AllPast
  BY DEF SerialInv, ToldInv, HealInv
<1>2. /\ OneAtATime' /\ AllPast'
      /\ \A d \in Clients \ {c} : ~Active(d) /\ ~Active(d)'
  BY <1>1, SerialClocks, AllPastStep
<1>3. Distinct' /\ EntriesLatest'
  <2>1. CASE httpCache' = httpCache /\ answers' = answers
    BY <2>1 DEF HealInv, Distinct, EntriesLatest
  <2>2. CASE \E h \in Headers : Answers(c, h)
    BY <2>2, AnswersHeal
  <2>3. QED
    BY <2>1, <2>2 DEF Outcomes, Begins, Hits, Misses, Sends, Fails
<1>4. AsksWhenStale'
  <2>1. stage'[c] \in {"asking", "waiting"} => Misses(c) \/ Sends(c)
    BY DEF Outcomes, Begins, Hits, Fails, Answers, Moves
  <2>2. Misses(c) => ~Fresh(httpCache'[url'[c]], now'[c])
    BY DEF Misses, SameFetch, Fresh
  <2>3. Sends(c) => ~Fresh(httpCache'[url'[c]], now'[c])
    BY DEF Sends, Moves, SameFetch, Fresh, HealInv, AsksWhenStale
  <2>4. QED
    BY <1>2, <2>1, <2>2, <2>3 DEF AsksWhenStale, Active, Fresh
<1>5. WaitsAlone'
  <2>1. stage'[c] = "waiting" => Sends(c)
    BY DEF Outcomes, Begins, Hits, Misses, Fails, Answers, Moves
  <2>2. Sends(c) => \A a \in answers' : a.url = url'[c] => a.at < now'[c]
    BY SendsAlone DEF Sends, SameFetch
  <2>3. QED
    BY <1>2, <2>1, <2>2 DEF WaitsAlone, Active
<1>6. ResultLatest'
  <2>1. ASSUME Acts(c)'
        PROVE  \E a \in answers' :
                   /\ a.url = url'[c] /\ a.headers = result'[c].headers
                   /\ \A b \in answers' : b.url = url'[c] => b.at <= a.at
    <3>1. CASE Hits(c)
      BY <3>1, HitsLast DEF Hits, SameFetch
    <3>2. CASE \E h \in Headers : Answers(c, h)
      <4>1. PICK h \in Headers : Answers(c, h)
        BY <3>2
      <4>2. PICK new : new = [url |-> url[c], at |-> now[c], headers |-> h]
        OBVIOUS
      <4>3. /\ new.url = url'[c] /\ new.at = now[c]
            /\ new.headers = result'[c].headers
            /\ answers' = answers \cup {new} /\ Active(c) /\ now[c] \in Nat
        BY <1>1, <4>1, <4>2
           DEF Answers, Moves, SameFetch, Active, ScanTypeOK, FetchTypeOK
      <4>4. \A b \in answers : b.at <= now[c]
        BY <1>1, <4>3, ActiveIsLast
      <4>5. QED
        BY <4>3, <4>4
    <3>3. ~Begins(c) /\ ~Misses(c) /\ ~Sends(c) /\ ~Fails(c)
      BY <2>1 DEF Acts, Begins, Misses, Sends, Fails, Moves
    <3>4. QED
      BY <3>1, <3>2, <3>3 DEF Outcomes
  <2>2. QED
    BY <1>2, <2>1 DEF ResultLatest, Acts, Active
<1>7. QED
  BY <1>2, <1>3, <1>4, <1>5, <1>6 DEF HealInv

LEMMA EndHeals ==
    ASSUME SerialInv, HealInv, NEW c \in Clients, SerialStep(c), ScanTypeOK',
           NEW st \in EndStages, Ends(c, st)
    PROVE  HealInv'
<1>1. ScanTypeOK /\ OneAtATime /\ AllPast
  BY DEF SerialInv, ToldInv, HealInv
<1>2. OneAtATime' /\ AllPast'
  BY <1>1, SerialClocks, AllPastStep
<1>3. UNCHANGED <<httpCache, url, now, result, answers>>
  BY DEF Ends, httpStoreVars
<1>4. \A d \in Clients :
          /\ stage'[d] \in {"asking", "waiting"} => stage'[d] = stage[d]
          /\ Acts(d)' => Acts(d)
  BY <1>1 DEF Ends, EndStages, Acts, ScanTypeOK, FetchTypeOK
<1>5. Distinct' /\ EntriesLatest'
  BY <1>3 DEF HealInv, Distinct, EntriesLatest
<1>6. AsksWhenStale' /\ WaitsAlone'
  BY <1>3, <1>4 DEF HealInv, AsksWhenStale, WaitsAlone, Fresh
<1>7. ResultLatest'
  BY <1>3, <1>4 DEF HealInv, ResultLatest
<1>8. QED
  BY <1>2, <1>5, <1>6, <1>7 DEF HealInv

LEMMA SerialInvStep ==
    ASSUME SerialInv, Reused = {}, Interval > 0,
           [\E c \in Clients : ScanMove(c)]_scanVars
    PROVE  SerialInv'
<1>1. ToldInv' /\ PacingInv' /\ ScanTypeOK /\ ScanTypeOK'
  BY ToldStep, ScanKeepsPacing DEF SerialInv, ToldInv
<1>2. CASE UNCHANGED scanVars
  <2>1. UNCHANGED <<stage, url, now, result, httpCache, requests, answers,
                    signals, serial>>
    BY <1>2 DEF scanVars, fetchVars, clientVars, httpStoreVars, evidenceVars
  <2>2. AnswersAsked' /\ WaitsAsked'
    BY <2>1 DEF SerialInv, AnswersAsked, WaitsAsked
  <2>3. HealInv => OneAtATime' /\ AllPast' /\ Distinct' /\ EntriesLatest'
    BY <2>1 DEF HealInv, OneAtATime, Active, AllPast, Past, Distinct, EntriesLatest
  <2>4. HealInv => AsksWhenStale' /\ WaitsAlone' /\ ResultLatest'
    BY <2>1 DEF HealInv, AsksWhenStale, Fresh, WaitsAlone, ResultLatest, Acts
  <2>5. QED
    BY <1>1, <2>1, <2>2, <2>3, <2>4 DEF SerialInv, HealInv
<1>3. ASSUME NEW c \in Clients, ScanMove(c)
      PROVE  SerialInv'
  <2>1. ScanStep(c) /\ (serial' => serial /\ SerialStep(c))
    BY <1>3 DEF ScanMove, SerialStep
  <2>2. AnswersAsked' /\ WaitsAsked'
    BY <1>1, <2>1, AskedStep DEF SerialInv
  <2>3. ASSUME serial' PROVE HealInv'
    <3>1. SerialStep(c) /\ HealInv
      BY <2>1, <2>3 DEF SerialInv
    <3>2. CASE Outcomes(c) /\ OthersStay(c)
      BY <1>1, <3>1, <3>2, FetchHeals
    <3>3. CASE \E st \in EndStages : Ends(c, st)
      BY <1>1, <3>1, <3>3, EndHeals
    <3>4. QED
      BY <1>1, <2>1, <3>2, <3>3, ScanOutcomes
  <2>4. QED
    BY <1>1, <2>2, <2>3 DEF SerialInv
<1>4. QED
  BY <1>2, <1>3

LEMMA ResultIsLastAnswer ==
    ASSUME SerialInv, HealInv, NEW c \in Clients, Acts(c)
    PROVE  LastAnswer(url[c]).headers = result[c].headers
<1> DEFINE Last(a) == a.url = url[c] /\ \A b \in answers : b.url = url[c] => b.at <= a.at
<1>1. PICK a \in answers : Last(a) /\ a.headers = result[c].headers
  BY DEF HealInv, ResultLatest
<1>2. LastAnswer(url[c]) = CHOOSE x \in answers : Last(x)
  BY DEF LastAnswer
<1>3. PICK x : x = CHOOSE y \in answers : Last(y)
  OBVIOUS
<1>4. x \in answers /\ Last(x)
  BY <1>1, <1>3
<1>5. x.at = a.at /\ x.url = a.url
  <2>1. a.at \in Nat /\ x.at \in Nat
    BY <1>4 DEF SerialInv, ToldInv, ScanTypeOK, AnswerType
  <2>2. QED
    BY <1>1, <1>4, <2>1
<1>6. x = a
  BY <1>4, <1>5 DEF HealInv, Distinct
<1>7. QED
  BY <1>1, <1>2, <1>3, <1>6

\* The row says what answer a said, as far as that can be said.
UpToDate(a, row) ==
    IF a.headers.lifecycle = None THEN row = None \/ ~row.signal.active
    ELSE HasSignal(a.headers) => row # None /\ SaysSo(a, row)

LEMMA EndsUpToDate ==
    ASSUME SerialInv, HealInv, NEW c \in Clients, ScanStep(c),
           Acts(c), stage'[c] \in {"idle", "closed"},
           NEW a, a.headers = result[c].headers
    PROVE  UpToDate(a, signals'[Key(c)])
<1>1. /\ ScanTypeOK /\ WithdrawalsFounded
      /\ Active(c) /\ url[c] \in Urls /\ Key(c) \in SignalKeys
  BY HttpScanAssumption
     DEF SerialInv, ToldInv, ScanTypeOK, Acts, Active, Key
<1>2. Accepts(Key(c), now[c])
  <2>1. signals[Key(c)] # None => signals[Key(c)].last_seen <= now[c]
    BY <1>1, ActiveIsLast DEF HealInv
  <2>2. now[c] \in Nat /\ (signals[Key(c)] # None =>
                               signals[Key(c)].last_seen \in Nat)
    BY <1>1 DEF ScanTypeOK, FetchTypeOK, SignalRow
  <2>3. QED
    BY <2>1, <2>2 DEF Accepts
<1>3. CASE Discard(c)
  <2>1. a.headers.lifecycle \in Invalid
    BY <1>3 DEF Acts, Discard
  <2>2. a.headers.lifecycle # None
    BY <2>1, HttpScanAssumption, HttpFetchAssumption
  <2>3. QED
    BY <2>1, <2>2 DEF UpToDate, HasSignal
<1>4. CASE RecordSignal(c)
  <2>1. Recorded(c) \in Signal /\ Recorded(c).observed_at = now[c]
        /\ UpsertSignal(Key(c), Recorded(c))
    BY <1>1, <1>4, WrittenSignals DEF RecordSignal, Persist, Recorded
  <2>2. /\ signals'[Key(c)] \in SignalRow
        /\ signals'[Key(c)].signal = Recorded(c)
        /\ signals'[Key(c)].last_seen = now[c]
    BY <1>1, <1>2, <2>1, UpsertResult DEF ScanTypeOK
  <2>3. signals'[Key(c)] # None
    BY <2>2, HttpScanAssumption
  <2>4. HasSignal(a.headers) /\ SaysSo(a, signals'[Key(c)])
    BY <1>4, <2>2 DEF RecordSignal, SaysSo, Recorded
  <2>5. a.headers.lifecycle # None
    BY <2>4, HttpFetchAssumption DEF HasSignal
  <2>6. QED
    BY <2>3, <2>4, <2>5 DEF UpToDate
<1>5. CASE FindSignalToWithdraw(c)
  <2>1. stage'[c] # "withdrawing"
    OBVIOUS
  <2>2. stage' # [stage EXCEPT ![c] = "withdrawing"]
    BY <1>1, <2>1 DEF ScanTypeOK, FetchTypeOK
  <2>3. signals[Key(c)] = None \/ ~signals[Key(c)].signal.active
    BY <1>5, <2>2 DEF FindSignalToWithdraw
  <2>4. signals' = signals /\ a.headers.lifecycle = None
    BY <1>5 DEF FindSignalToWithdraw, evidenceVars
  <2>5. QED
    BY <2>3, <2>4 DEF UpToDate
<1>6. CASE WithdrawSignal(c)
  <2> DEFINE s == Withdrawn(existing[c], now[c])
  <2>1. /\ s \in Signal /\ s.active = FALSE /\ s.observed_at = now[c]
        /\ UpsertSignal(Key(c), s)
    BY <1>1, <1>6, WrittenSignals DEF WithdrawSignal, Persist
  <2> HIDE DEF s
  <2>2. signals'[Key(c)].signal = s
    BY <1>1, <1>2, <2>1, UpsertResult DEF ScanTypeOK
  <2>3. a.headers.lifecycle = None
    BY <1>1, <1>6 DEF WithdrawSignal, WithdrawalsFounded
  <2>4. QED
    BY <2>1, <2>2, <2>3 DEF UpToDate
<1>7. CASE Fetch(c)
  <2>1. stage[c] \notin {"fetched", "withdrawing"}
    BY <1>1, <1>7, FetchOutcomes
       DEF ScanTypeOK, Outcomes, Begins, Hits, Misses, Sends, Fails, Answers, Moves
  <2>2. QED
    BY <2>1 DEF Acts
<1>8. CASE ScannerDies(c)
  BY <1>1, <1>8 DEF ScannerDies, ClientDies, ScanTypeOK, FetchTypeOK
<1>9. QED
  BY <1>3, <1>4, <1>5, <1>6, <1>7, <1>8 DEF ScanStep

\* As long as the scans of the command line (a client for each, and at least a
\* second between requests) run one at a time by a clock that does not run
\* backwards, each that ends with an ok result leaves its signal saying what
\* the endpoint last answered, also what it answered to a scan that died
\* before it could write it.
THEOREM SerialScansHeal ==
    ASSUME Reused = {}, Interval > 0
    PROVE  ScanSpec => ScanEndsUpToDate
<1> DEFINE Heals ==
       \A c \in Clients :
           LET answer == LastAnswer(url[c])
               row == signals'[Key(c)]
           IN  /\ serial'
               /\ stage[c] \in {"fetched", "withdrawing"}
               /\ stage'[c] \in {"idle", "closed"}
               /\ Ok(result[c])
               => IF answer.headers.lifecycle = None
                  THEN row = None \/ ~row.signal.active
                  ELSE HasSignal(answer.headers) =>
                           row # None /\ SaysSo(answer, row)
<1>1. SerialInv /\ [\E c \in Clients : ScanMove(c)]_scanVars => SerialInv'
  BY SerialInvStep
<1>2. SerialInv /\ [\E c \in Clients : ScanMove(c)]_scanVars => [Heals]_scanVars
  <2> SUFFICES ASSUME SerialInv, NEW m \in Clients, ScanMove(m),
                      NEW c \in Clients, serial',
                      stage[c] \in {"fetched", "withdrawing"},
                      stage'[c] \in {"idle", "closed"}, Ok(result[c])
               PROVE  UpToDate(LastAnswer(url[c]), signals'[Key(c)])
    BY DEF UpToDate
  <2>1. ScanStep(m) /\ serial /\ HealInv /\ Acts(c) /\ ScanTypeOK
    BY DEF ScanMove, SerialInv, ToldInv, Acts
  <2>2. c = m
    <3>1. ASSUME c # m, NEW st \in EndStages, Ends(m, st) PROVE stage'[c] = stage[c]
      BY <2>1, <3>1 DEF Ends, ScanTypeOK, FetchTypeOK
    <3>2. QED
      BY <2>1, <3>1, ScanOutcomes DEF OthersStay
  <2>3. LastAnswer(url[c]).headers = result[c].headers
    BY <2>1, ResultIsLastAnswer
  <2>4. QED
    BY <2>1, <2>2, <2>3, EndsUpToDate
<1>3. QED
  BY <1>1, <1>2, SerialInit, PTL DEF ScanSpec, ScanEndsUpToDate

=============================================================================
