# Sunset Sentinel API: a TLA+ model

Sunset Sentinel collects deprecation and sunset notices about HTTP APIs from
OpenAPI documents, manual feeds and response headers, keeps them with a map of
the local consumers in one SQLite file, and renders reports from it. It is a
small program with a difficult core: several processes (`import`, `watch`,
`scan-http`, the HTTP API, reports) share that file, every repository call is a
transaction of its own, and observations arrive with clocks that need not agree.
This directory models that core, checks it with TLC, and proves the properties
that matter most with TLAPS. Paths below are relative to
`src/sunset_sentinel_api/`.

## 1. Inventory

| Component | State it keeps | Operations | What makes it correct |
|---|---|---|---|
| Evidence repository, `adapters/sqlite_repository.py` | `lifecycle_signals`, `changes`, `consumers`, `consumer_dependencies` | `upsert_signal`, `upsert_consumer`, `upsert_dependency`, `reconcile_consumer_snapshot`, lists; each a `BEGIN IMMEDIATE` transaction | older evidence never replaces newer; the change log tells exactly what happened to the signals; no edge without its consumer |
| Ingestion, `services/monitor.py` | none of its own: the locals of `ingest_batch` | `ingest_batch`, `import_file_sources` | a finished import is the stored view of the scopes it is authoritative for; overlapping and dying imports do no harm that lasts; the summary counts the import's own changes |
| HTTP tables, `adapters/sqlite_repository.py`, `adapters/sqlite_http_cache.py` | `origin_request_state`, `http_cache` | `claim_origin_request`, `defer_origin_request`, `put_http_cache`, `get_http_cache`, trim | one process at a time gets an origin's slot; a retry deadline only moves later; the cache keeps its bound |
| HTTP client, `adapters/http_client.py` | what it remembers of each origin | `fetch`; the URL policy, origins, `Retry-After`, redaction of `Link` fields | requests spaced across processes; one origin per server; deadlines honoured; cached answers used while fresh, renewed on 304 |
| HTTP scan, `services/http_scan.py` | none of its own | `scan_http_target` | evidence is written, or withdrawn, only on an answer that is current |
| Domain rules, `domain/scoring.py`, `domain/lifecycle.py` | pure | scores, bands, state | state and urgency agree; time never lowers the risk; impact only lifts the priority |
| Assessment, `services/assessment.py` | none: three `SELECT`s without a transaction | `assess_repository`, `assess_lifecycle` | conservative dates; no report names a consumer that is not an affected one |
| Watcher, `cli.py` `_run_watch`, `services/scheduler.py` | five output files; APScheduler's job | firing, `refresh`, atomic writes, shutdown | outputs never go back, are never half written, and catch up with the sources; shutdown returns |
| File sources, `adapters/file_sources.py` | none: the batches read so far | load OpenAPI, feed, consumer map; merge | whatever the files hold when each is read, the merged batch can be imported, or the refusal has a reason in a file |
| Headers, dates, `domain/headers.py`, `domain/dates.py` | pure | `parse_http_date`, `parse_lifecycle_headers` | all spellings of an instant read alike; compat mode only adds to strict mode; a lost link is reported |
| Release tooling, `scripts/package_release.py`, `scripts/release_check.py` | the output directory, staging and backup directories | build, exchange, check | a whole release is always on disk; notes of a user are not taken; a check passes one release |
| HTTP API, `api.py`; CLI, `cli.py` | none | routes and commands that call the above | they run the processes above, each on a connection of its own |
| Exporters, dashboard, git provenance, configuration, fixture server, other scripts | none | formatting, reading metadata, tooling | not modelled |

How they interact. `import`, `demo`, a watch refresh and `POST
/api/import/sample` all run `import_file_sources` on a connection of their own;
`report`, the export routes and the watcher run `assess_repository` beside them;
`scan-http` writes the same signal table and shares the HTTP tables with other
scanners. Nothing holds a lock across two repository calls. The in-process
`RLock` of `SQLiteRepository` makes one call atomic, which is what a transaction
does for several processes, so both are one atomic step here.

The behaviours that are hard to test are listed, line by line, under `hazards`
in `PROJECT.json`. They are mostly of six kinds: two imports interleaving row
by row; an import, scan, refresh or packager dying between two of its steps;
observations reaching the database out of time order; a value read, used after
other processes have committed (the list of signals to withdraw, the cache entry
being revalidated, the clock reading of a fetch, whether an output directory may
be taken); boundaries (equal seconds, a full cache, the instant of a date, leap
seconds, the end of the calendar); and one defective item among good ones (a link
of an answer, a file of an import), down to an exception that ends a scan and
takes with it what else the answer said.

## 2. Modules

    EvidenceStore        the evidence tables, one operator per transaction
      Ingest             imports as processes over EvidenceStore
        ChangeFeed       what the change log promises (abstract; Ingest refines it)
        IngestProofs     theorems: imports, their change log, imports in series
        MCIngest         instances for TLC
        Assessment       reports that read while imports commit (with Scoring)
          AssessmentProofs theorems
          MCAssessment
      HttpScan           scans: HttpFetch over EvidenceStore
        ScanProofs       theorems
        MCHttpScan
    HttpStore            the pacing and cache tables, one operator per transaction
      HttpFetch          HttpLifecycleClient.fetch as a process
        HttpFetchProofs  theorems
        MCHttpFetch
    Scoring              the pure rules of the domain
    Watch                the watch program: scheduler, refresh, files, crashes
      WatchProofs        theorems
    FileSources          loading the source files and merging their batches
      FileSourcesProofs  theorems
      MCFileSources
    HttpDates            HTTP dates: spellings, calendar, leap seconds
      LifecycleHeaders   the Sunset, Deprecation and Link fields
      RequestPolicy      which URLs are requested, origins, Retry-After
        AnswerReading    one scan from its URL to its verdict (both of the above)
          AnswerReadingProofs theorems
          MCAnswerReading
    MCReading            MCFileSources beside MCAnswerReading, for one run
    ReleaseOutput        packaging a release, checking its assets
      ReleaseOutputProofs  theorems
      MCReleaseOutput

**EvidenceStore.** A variable per table, a row or `None` per key; `changes` is a
sequence in `change_id` order. `UpsertSignal` has the three branches of
`upsert_signal`: discovery, a stale observation that is ignored, and a refresh,
which replaces the row always and logs only a material difference.
`ReconcileConsumerSnapshot` removes stale edges, then stale consumers, whose
deletion cascades to every edge they have. A stored document is a member of
`Payloads`; of a signal, `active` and `observed_at` are kept apart because the
transactions look at them.

**Ingest.** `ingest_batch` line by line: `Begin` (clock, then files),
`CountChangesBefore`, `PutConsumer`, `PutDependency` or `RejectDependency` (the
foreign key), `PutSignal`, `ListActiveSignals`, `WithdrawSignal` (of the copies
that were listed), `ReconcileConsumers`, `Summarise`; `Die` may come between any
two. Rows of one phase are written in the order of their keys in the code; key
names are abstract, so every order is explored. `WellFormed` is what the loaders
and `merge_source_batches` guarantee of a batch. `SerialSpec` is the same program
used by one operator: an import begins when the last one has returned or died,
with a clock that does not run backwards.

**ChangeFeed** says what a reader of `/api/changes` may rely on: a signal changes
only together with one entry that says from what to what. `Ingest` implements it
under the mapping `View`, `FeedEntry` (the material part of the rows and entries).

**HttpStore, HttpFetch.** One fetch is `StartFetch` (the only clock reading),
`LookUpCache`, `ClaimAndSend` / `SendFromMemory` / `RateLimited`, and an answer:
`ReceiveSuccess`, `ReceiveNotModified`, `ReceiveRetryLater`, `FetchFails`. The CLI
makes a client per fetch; `Reused` are clients kept for further fetches, as the
class allows. Headers keep the lifecycle fields and the cache directives;
`Oversized` are those that exceed `max_cache_entry_bytes`, which `put_http_cache`
refuses with an exception after the answer has arrived. Any exception of a fetch is
`FetchFails` here: what it leaves in the tables is the same.
`requests` and `deadlines` are history variables.

**HttpScan** composes a fetch with the signal table through `INSTANCE
EvidenceStore`. A withdrawal reads the signal in one step and writes a copy in the
next. `answers`, `evidenceAt` and `serial` are history variables; `serial` says
that so far each scan began when no other was under way, at a reading no earlier
than theirs.

**Scoring, Assessment.** Scoring translates the two rule files as operators, in
whole days. In Assessment a report is three reads (`ReadSignals`,
`ReadConsumers`, `ReadDependencies`) between which any step of an import may fall,
and the record of one group of signals, with the dates, conflict, state, scores
and affected consumers the code gives it.

**Watch.** Sources carry an edit number which evidence, renderings and files
inherit. A refresh is `LoadSources` / `RejectSources`, `Import`, `Assess`, and, per
file, `WriteTemporary` and `ReplaceFile`. `Fire` is APScheduler's timer with
`max_instances=1`; `RunFails` an exception (disk full, database locked) with its
clean-up; `Crash` a kill; `Interrupt` and `Stop` are Ctrl-C and
`shutdown(wait=True)`. How the tables change inside `Import` is module Ingest's
business; a run cut short there leaves the old evidence or the new, which is all
the output files can tell.

**FileSources.** `load_file_sources` reads the files one after the other
(`LoadSource`; what a file holds is chosen when it is read, as files are edited
while others are read), then `merge_source_batches` goes round its loop
(`MergeSource`), then looks for edges without a consumer (`EndMerge`). A defective
file or a clash ends the call in `refused` (`FileSourceError`). `Readable`,
`OpenApiValid`, `FeedValid` and `MapValid` are the checks of the loaders,
`OpenApiBatch`, `FeedBatch` and `MapBatch` what they return. A signal key is the
sequence of the parts its colons separate, so `SignalKey` can tell whether two
identities coincide in it.

**HttpDates, LifecycleHeaders, RequestPolicy, AnswerReading.** The pure functions
are operators: `ParseHttpDate` with the year window of RFC 850 dates and leap
seconds on a proleptic calendar that ends with the year 9999, as `datetime` does;
`ParseSunset`, `ParseDeprecation`, `ParseLinks`; `Violation`, `Origin`,
`RetryDelay`; and `RedactedField`, what `_redact_link_header` leaves of a Link field
before anything parses it. An exception a function lets through is an outcome
(`raises`), since which ones a caller catches is the point. A host is a sequence of
labels, each a word and its spelling: the client paces by `NormalizeHostname`, which
follows IDNA 2003, while the host that is asked is `RequestedHost`, what `httpx.URL`
makes of it by IDNA 2008 (external), and the two differ.

AnswerReading is the scan that calls them, in their order: `Ask` (`endpoint()`, the
policy and `httpx.URL`), `Arrive` (an answer of any status, whose headers
`_retained_headers` redacts first) or `Fail`; then `AskedToWait` for a 429 or 503,
`CacheRefuses` when `put_http_cache` raises, or `ReadSunset`, `ReadDeprecation` and
`ReadLinkField`, whose `Verdict` is what HttpScan branches on. An exception ends the
scan in `raised`, with its class in `error`.

**ReleaseOutput.** A run of `package_release.py` from `Validate` over
`MakeStaging`, `CopyAsset`, `WriteChecksums`, `WriteMarker` to `_publish_staging`:
`CheckOwnership`, `MoveAside`, `ReplaceOutput` or `ReplaceFails`, `Restore`,
`RemoveBackup`. `RunFails` is an exception anywhere, with the `except` clauses that
follow it; `RunDies` a kill. `ListAssets`, `ReadManifest`, `CompareDigest`,
`PassAssets` are `_assets_and_checksums` of `release_check.py`, beside it, and
`PutNotes` is a person. A file is its name and the run that made it.

Operators whose comment begins "Mutant of" are not part of the model. Each is a
definition with a plausible bug (a dropped guard, an off-by-one, a swapped order),
and putting it in place of the original makes a property fail, so that every
property is known to depend on the code; `mutants` in `PROJECT.json` pairs them.

## 3. Runs

Run `tlc -config <cfg> <module>` in this directory. All bounds are constants of
the cfg.

| Run (cfg) | What it shows |
|---|---|
| Ingests | Three overlapping imports, each of a feed or of a consumer map, two documents, two instants: `HistoryReplays` (each log entry departs from where the last one arrived), `HistoryExplainsRows`, `HistoryInOrder`, `NewestEvidenceStands`, `NoOrphanEdges`, `RejectedOnlyByNewerSnapshot` (an import fails on the foreign key only because of a map at least as recent), `EvidenceNeverRegresses`, the refinement `ImplementsChangeFeed`, and `TypeOK`. |
| IngestSerial | Feeds and maps in one import, imported one after the other, some dying: `SnapshotTakesEffect` (what is stored is the batch, exactly, in its scopes), `SummaryCountsOwnChanges`, `EdgesNoNewerThanConsumer`. |
| Pacing | Two scanners that fetch once beside one whose client is kept and fetches again and again: `RequestsSpaced`, `DeferralsHonoured`, `RenewalStorable` (what a 304 renews is never refused for the order of its times), `FetchTypeOK`. |
| Scans | Three scanners of two URLs that share a signal key and a cache of one place, with answers that are kept, expire, are renewed, are garbled or are too large to keep; they interleave and die: `OnlyCurrentAnswersRecorded`. Of those that come one after the other, `ScanEndsUpToDate`: a scan that ends leaves the signal as the origin last answered, whoever died before. |
| AssessTime | Reports around every date while a feed is imported: `StateMatchesUrgency`, `TimeNeverLowersRisk`, `MoreEvidenceIsConservative`. |
| AssessImpact | Reports on an endpoint or a whole service while two maps are imported: `ImpactOnlyLifts`, `AffectedConsumersAreUsers`. |
| Watching | Edits, errors, crashes, interrupts and restarts: `FilesNeverOlder`, `FilesDescend`, `StraysOnlyFromCrashes`, `StoppedIsQuiet`, `OutputsCatchUp`, `InterruptReturns`. Its module is `Watch` itself. |
| Reading | Every call with any of five files that change while they are read: `MergedIsWellFormed` (what Ingest assumes of a batch), `VerdictMatchesFiles` (a call is refused only for a defect or something declared twice, and else returns everything), `RowsSharedOnlyByNestedTargets`. Every scan of one URL with one answer, in both modes, at four moments: `OriginIdentifiesServer` (hosts whose spelling IDNA 2003 and 2008 agree on share an origin exactly when they are one server), `SpellingsAgree`, `LeapSecondsRollOver`, `CompatExtendsStrict`, `LinksKeptOrReported` (of the links as the origin sent them). |
| Releasing | Two runs of the packager that overlap, fail and die beside a check and a person: `ReleasesStayWhole`, `NotesAreKept`, `CheckPassesOneRelease`. |
| SummaryOverlap, OlderConsumerMap, StaleCache | Violated, see section 6. |

### Bounds

- *Imports*: the hazards are between two imports; the third is the one that made
  the rows the other two disagree about. One signal key suffices where keys do not
  interact (rows of different keys share only the log, which SummaryOverlap and
  AssessTime exercise with two). Two instants give older, equal and newer. In
  Ingests `Batches` holds every batch of one feed and every batch of one map over
  the keys, in IngestSerial batches of both.
- *Scanners*: two compete and a third inherits what they left. The readings of
  Pacing, in any order, are equal, the interval of two seconds apart, or the
  retry delay of four: a claim two seconds on is in time for the interval and too
  early for a deadline. In Scans
  `MaxCacheEntries = 1` with two URLs makes eviction and revalidation meet at once;
  `put` trims to the bound by rank, so a larger bound adds no case. The kept client
  of Pacing is the one that sends without asking the store: whatever it does, the
  one-fetch scanners keep their distance.
- *Reports*: the instants lie before, between and after the dates 30, 40 and 100,
  at the boundary itself (40, 100, and 33 and 93, seven days ahead), and the
  notices are undated, dated, contradictory by themselves and contradictory
  together.
- *Watcher*: two workers, since one suffices only if runs really do not overlap,
  which is to be shown; three files have a first, a middle and a last. `MaxEdits`
  and `MaxFaults` bound counters that only grow; two faults allow a failure or a crash and
  another during the recovery, and three edits a change before, between and after.

- *Files*: an OpenAPI document, two feeds and two maps: two of a kind can clash,
  and the third kind is read between. The targets are one, one whose id goes on
  after a colon, and an unrelated one; `MaxKeyLength` lies between the keys. Every
  defect a file can have comes in one file.
- *Answers*: dates at the ends of a minute, day, month, year, century and of the
  calendar, in every spelling, right and wrong; scans in 1999, 2026, 2070 and 9990, so
  that the two-digit window lies on both sides of a century and reaches the last
  year. Links have targets of every kind that redaction tells apart, alone, behind a
  sound link and before one. A host is spelled plainly, in another case, with letters
  of which the two IDNA standards think differently, and as the `xn--` name of these;
  with each scheme and port. `MaxRetryAfter` is a
  little more than a day, since `DelayUntil` decides by days and then by seconds.
- *Releases*: two runs, as the exchange has two moves; two assets, so that a
  directory can hold assets of two runs; a release that was there before.

Deadlock is checked in the watch run, whose process can always be started again.
The others end: imports, scans, calls and packagers are finite in number.

### Fairness

Only `Watch` assumes any. A run in a worker thread keeps going (`WF` of each
worker's `RunStep`); the timer of a running scheduler keeps firing (`WF` of `Fire`:
APScheduler's interval trigger, and a job that raises stays scheduled); `Stop`
happens once the workers are joined. Nobody is obliged to edit sources, to start or
interrupt the watcher, and a failing run is not fairness's business: `RunFails` is
bounded by `MaxFaults`, as errors that never end would of course keep the outputs
from catching up. `OutputsCatchUp` therefore assumes a watcher that stays up with
readable sources. The watcher's clock is taken not to run backwards, as
observations older than the stored ones are ignored by design.

## 4. What is proved

By TLAPS, for every value of the constants that satisfies the named assumptions
(`NoneAssumption`, `IngestAssumption`, `AssessmentAssumption`,
`HttpStoreAssumption`, `HttpFetchAssumption`, `HttpScanAssumption`,
`RequestPolicyAssumption`, `AnswerReadingAssumption`, `MergeAssumption`,
`FileSourcesAssumption`, `WatchAssumption`, `ReleaseOutputAssumption`; TLC
evaluates them in the runs). They say what the constants are: that `None` and
`Missing` are nothing else, that bounds are numbers, that a stored document gives
a deprecation or a sunset, that a field is a sequence and a date what the regular
expressions capture, that a link's target is of one of the kinds RequestPolicy
lists, and that scans are not made within a `Retry-After` of the end of the calendar
(`DeadlinesHaveDates`).

- `IngestProofs`, of any number of overlapping imports: `TypeCorrect` (`TypeOK`),
  `NewestEvidence` (`NewestEvidenceStands`), `EdgesHaveConsumers` (`NoOrphanEdges`),
  `RejectionsExplained` (`RejectedOnlyByNewerSnapshot`), `NeverRegresses`
  (`EvidenceNeverRegresses`), `IngestImplementsChangeFeed`
  (`ImplementsChangeFeed`), `HistoryCanBeReplayed` (`HistoryReplays`),
  `HistoryExplainsTable` (`HistoryExplainsRows`), `HistoryIsInOrder`
  (`HistoryInOrder`); and of `SerialSpec`: `SummariesAreOwn`
  (`SummaryCountsOwnChanges`), `SerialEdges` (`EdgesNoNewerThanConsumer`),
  `SnapshotsTakeEffect` (`SnapshotTakesEffect`).
- `AssessmentProofs`: `StatesMatchUrgency` (`StateMatchesUrgency`), `TimeOnlyAddsRisk`
  (`TimeNeverLowersRisk`), `DatesStayConservative` (`MoreEvidenceIsConservative`),
  `ImpactNeverLowers` (`ImpactOnlyLifts`), `ReportsNameUsers`
  (`AffectedConsumersAreUsers`).
- `HttpFetchProofs`: `FetchTypeCorrect`, `OneFetchClientsSpaced`
  (`RequestsSpaced`), `DeadlinesHonoured` (`DeferralsHonoured`) and
  `RenewalAlwaysStorable` (`RenewalStorable`). The first two are about one-fetch
  clients, whatever kept clients do beside them.
- `ScanProofs`: `ScannersFetchSafely` (`RequestsSpaced` and `RenewalStorable` again,
  of scanners), `SignalsStandOnAnswers` (`OnlyCurrentAnswersRecorded`),
  `SerialScansHeal` (`ScanEndsUpToDate`). The last supposes `Reused = {}` and
  `Interval > 0`: `scan-http` makes a client per scan, and refuses an interval under
  a second (`cli.py:253`).
- `FileSourcesProofs`: `MergedCanBeImported` (`MergedIsWellFormed`),
  `VerdictsFollowFromFiles` (`VerdictMatchesFiles`), `OnlyNestedTargetsShareRows`
  (`RowsSharedOnlyByNestedTargets`).
- `AnswerReadingProofs`: `PacedByServer` (`OriginIdentifiesServer`),
  `NoLinkLostSilently` (`LinksKeptOrReported`), `CompatOnlyAdds`
  (`CompatExtendsStrict`), `SpellingsAreOneInstant` (`SpellingsAgree`),
  `OnlyTheLastSecondOverflows` (`LeapSecondsRollOver`).
- `WatchProofs`: `FilesStayInOrder` (`FilesDescend`), `OnlyCrashesLeaveFiles`
  (`StraysOnlyFromCrashes`), `NothingRunsAfterShutdown` (`StoppedIsQuiet`),
  `FilesOnlyGetNewer` (`FilesNeverOlder`), and `WatchTypes`, the types of Watch.
- `ReleaseOutputProofs`: `ReleasesSurvive` (`ReleasesStayWhole`), `NotesSurvive`
  (`NotesAreKept`), `CheckPassesTheWholeRelease` (`CheckPassesOneRelease`).

*The argument for imports.* None of the invariants is inductive alone.
`NewestEvidenceStands` speaks of the newest import only, and which one that is changes
when another begins. `SignalInv` therefore says for every import that what it wrote is
still there or has been overwritten by one at least as recent (`WrittenSignalsKept`),
that it wrote only what is in its batch (`SignalsInBatch`), and that each row has an
author whose clock it bears (`SignalsHaveAuthors`). For consumers, a row may also
vanish, so `ConsumerInv` says that a missing row is accounted for by a snapshot at
least as recent that lacks the consumer. Given the invariant, `NewestEvidence` is:
nothing at least as recent exists. `RejectionsExplained` reads the same clause at the
moment the foreign key fails.

*The argument for pacing.* `PacingInv` relates the history to the row of the origin:
every deadline of an origin, and every request a one-fetch client sent to it, is
dominated by its row, which exists once there is one, through `NextEligible`. A
granted claim is therefore late enough for all of them, even when it clears the
deadline: the new `last_requested_at` lies beyond it. A one-fetch client never knows
its origin before it asks (`MemoryIsReused`), so all its requests are claims; a
request a kept client sends from memory touches neither the row nor the requests the
invariant speaks of (`MemoryKeepsPacing`).

*The argument for renewals.* `CacheInv`: an entry that is not fresh at a reading was
validated no later than it, since an entry expires no earlier than it was validated
(`ExpiresAtBound`), and was fetched no later than it was validated. A request goes out
only for an entry that was not fresh.

*The refinement.* A step either leaves `signals` and `changes` alone or is an
`UpsertSignal`, which is a `Transition` of the feed when the difference is material
and a stutter otherwise (`UpsertImplementsFeed`).

*The argument for the change log.* `HistoryInv` ties the log to the table: the last
entry of a key describes its row as it stands (`RowExplained`), and a row bears the
time of its own signal (`RowDated`). A new entry departs from the row, hence from
where the last entry arrived; it is no older, because a refresh needs an observation
no older than the row. A withdrawal from a stale copy is no exception: the difference
is taken against the row, not the copy.

*The argument for serial imports.* A serial step is a step of `Next`, so the invariant
for imports holds. `SerialInv` adds what follows from being alone with the latest
clock (`OneAtATime`): every row has an author and so is no newer than the import under
way (`RowsSeenBefore`); hence nothing it writes is ignored as stale, whatever its
predecessors left half done. `ImportProgress` says for each phase what has been
achieved: what was written is stored as written, the rest of the scope is inactive or
listed for withdrawal (`RestListed`), and the end of the log since the count is the
import's own (`OwnLog`). At `Summarise` these are the properties.

*The argument for scans.* `ToldInv` goes from the tables back to the answers: every
cached entry, and every result a scan acts on, carries the headers of an answer to its
own URL that was current at the reading the entry or result bears (`EntriesTold`,
`ResultsTold`), and a scan withdraws only on an ok result without lifecycle fields
(`WithdrawalsFounded`). That is enough for one step, so `SignalsStandOnAnswers` needs
nothing about interleaving. `SerialInv` adds what a scan that has been alone with the
latest clock knows: all answers lie in its past and at different instants (`AllPast`,
`Distinct`, from the interval between requests, which is why that must not be zero), a
cached entry is not fresh any more at any answer later than its own, whoever died
before using it (`EntriesLatest`), and a scan that ends with an ok result has that
answer in hand (`ResultLatest`).

*The argument for reports.* Sets of scores are finite and bounded, so `Min` and `Max`
are what their names say (`MinOfNaturals`, `MaxOfScores`); the score of an urgency
falls with the days that remain, from which the monotonicity in time follows date by
date; a group's dates are the least of its notices', and a larger set has no later
least element. `ReportsNameUsers` rests on the order of the reads: edges come last,
and by `NoOrphanEdges` each has its consumer at that moment, whatever was removed
after the consumers were read.

*The argument for verdicts and rows.* What the merge holds is the union of the files
it has been through, and each of them was accepted when it was read. A call that ends
in `refused` did so at a file that its loader refuses, at a key two files declare, or
at an edge whose consumer no file knows; one that ends in `loaded` met none of these.
A key of a notice determines its kind, since the kind is its first part; that two
manual keys agree with different targets is a fact about where the one sequence of
parts ends in the other.

*The argument for dates.* `ReadInv` says that what a scan holds is what its fields
parse to, so the properties are about the parsers alone. `DayInCalendar`: a date of
the calendar has a day, and only 31 December 9999 has none after it. Hence only a leap
second there overflows (`LeapSecond`, `OverflowIsLast`), and the 59th second before
any other leap second is a time of the calendar. The instant depends on the numbers of
a text and the year it is read as, not on its spelling (`SameNumbers`);
`TwoDigitsGiveYear` is the arithmetic of the RFC 850 window. The proof corrected a
property: the year of the last leap second is the year a text is *read as*, which for
a two-digit year is not the number it shows. The scans of the year 9990 were added to
the run for that case.

*The argument for links and origins.* `ReadInv` also says that the links a scan holds
are parsed from the redacted field, and that no target of it was malformed, else the
scan would have ended on arrival. Redaction keeps the shape of a field and the
relations of its links (`RedactedPlaces`), and turns a link that stops the parser
into one that fails and any other into one that does not (`RedactedLink`); so the
first failure of an occurrence as it was sent is the first one the parser meets. For
origins, the normalized and the requested name of a host agree label by label unless
one is spelled as a deviation (`NamesAgree`), and only accepted URLs, whose scheme has
a default port, are asked for.

*The argument for merged batches.* `SourceInv`: what has been read was accepted when
it was read. Each loader returns a well-formed batch (`OpenApiBatchWellFormed`,
`FeedBatchWellFormed`, `MapBatchWellFormed`), for which keys must tell the
declarations of one file apart (`OperationKeysTellApart`, `ManualKeysTellApart`); and
batches that do not clash are joined to a well-formed one (`JoinWellFormed`).

*The argument for the watcher.* `WatchInv`: at most one refresh runs; before it
imports, nothing newer than what it read is stored; while it writes, its version is
the stored one and the files it has replaced show it (`RunInv`). A refresh that is cut
short leaves newer files before older ones, and the next one begins again with the
first file.

*The argument for releases.* `ReleaseInv`: a staging directory holds what its run has
built so far, a backup that can still be put back is as good as an output, and once
there has been a release some whole one lies where nobody is removing it (`KeptInv`: a
backup is removed only by a run that has put its own release in place). That a second
run may move the fresh output away is covered by the second run's backup. `NotesInv`
adds that notes in a directory without the marker have no run about to move it,
`CheckInv` that what a check has read is of its manifest's run: a decent directory has
one file of each name (`OneFilePerAsset`), so a digest that agrees identifies the
file.

Only model-checked: liveness (`OutputsCatchUp`, `InterruptReturns`), which is beyond
the prover. Every other property of a passing run is a theorem. Requests of a kept
client are outside `RequestsSpaced` and `DeferralsHonoured` by their statement, in the
run as in the proof.

## 5. Abstractions worth knowing

- Instants are numbers, one per second (or day, in Scoring). SQLite stores
  timestamps as fixed-width UTC text whose order is that of the instants.
- `first_seen_at` of consumers and edges is left out: nothing reads it.
- A foreign key failure, a locked database and a kill all end an import; the first
  is a step of its own because a property explains it.
- HTTP failures that write nothing are one outcome, exceptions included. Whether an
  entry is too large for the cache is a property of its headers (`Oversized`), and
  nothing counts the bytes.
- In HttpFetch the URL has passed validation and `_retry_at` is a choice from
  `RetryDelays`; RequestPolicy has both functions. `Lifecycles` of HttpFetch are what
  LifecycleHeaders parses.
- Files and fields are what YAML, JSON, the regular expressions and `urlsplit` make
  of them: records with the parts the code goes on with. A digest is the identity
  it digests; a target that is called `sha256`, with a key that is the digest of another
  identity, would share a row with it and is taken not to occur.
- Whether a Link occurrence is short enough, free of control characters and balanced,
  whether a link is well formed, and the URL its target comes to, are said of the text
  redaction leaves, since only that is parsed. The target is said as it was sent.
  Limits on lengths of strings elsewhere are left out.
- A label of a host is a word and its spelling. The spellings are those the two IDNA
  standards and the notations of an address make differ; what either standard does to
  single letters is not modelled.
- In ReleaseOutput what a run puts into an archive is left out; making it can fail.
- In Assessment a group is fixed; groups do not influence each other. Ordering and
  identifiers of records are left out.

## 6. Disagreements between the code and what is said of it

Each is the counterexample of a run that expects one.

1. **SummaryOverlap**: `ingest_batch` counts `list_changes()[changes_before:]`, so
   the summary of an import contains the changes of another that commits
   meanwhile; `IngestSummary` is documented as "counts from one completed ingestion
   batch".
2. **OlderConsumerMap**: deleting a consumer leaves no trace, so an import with an
   earlier `observed_at` inserts it again, though the README says an older snapshot
   does not overwrite newer evidence.
3. **StaleCache**: a scan stamps evidence from a cached answer with its own time.
   A slow scanner can put an older answer back into the cache; the next scan then
   overwrites the signal that came from the newer answer.

More observations have no run of their own, and explain the shape of a property:

- `reconcile_consumer_snapshot` deletes a consumer last seen no later than the
  snapshot, and the cascade takes every edge it has, those seen after the snapshot
  included. That needs an edge newer than its consumer, which only overlapping
  imports leave: one writes its edge after another removed the consumer and a
  third, older, inserted it again. Imports one after the other, even dying ones,
  never leave one, which is `EdgesNoNewerThanConsumer`.
- A client kept for a second fetch from an origin goes by its own memory and does
  not claim the origin from the store, so its request may come closer to another
  scanner's than the interval. The CLI makes one client per fetch; `RequestsSpaced`
  and `DeferralsHonoured` are about those (`OneFetch`).
- A manual key is `manual:<target>:<key>` and either part may hold a colon, so two
  notices of targets `a` and `a:b` may get one `signal_key`, which is the primary
  key. `merge_source_batches` compares target, source and key, and lets both
  through; each import then writes the row twice, with a change each time.
  `tests/unit/test_file_sources.py:240` has keys scoped by target;
  `RowsSharedOnlyByNestedTargets` says exactly when they are not.
- `_year_from_rfc850` takes a year of the current century back if it lies more than
  fifty years ahead, but never forward to the next: late in a century a two-digit
  year soon after its end is read as one a hundred years ago. `SpellingsAgree`
  leaves those years out (`TwoDigitYears`).
- Some inputs end a fetch or a scan with an exception though `FetchResult` is "Safe
  result returned for every attempted lifecycle fetch" (`http_client.py:118`). The
  model has those that were met while modelling, and does not say that there are no
  others:
  a Link target that `urlsplit` refuses (`http_client.py:696`), which loses the whole
  answer, its status, its `Retry-After` and its Sunset field included, so the origin's
  wish to be left alone is not stored; a URL the policy allows and `httpx.URL` refuses
  (`http_client.py:505`), or one `endpoint()` refuses before the policy is asked; an
  answer too large for the cache (`sqlite_repository.py:648`), after the request was
  made; a `Retry-After` of more digits than `int()` converts; and a leap second at the
  end of the year 9999, added outside the `try` block that catches range errors, which
  by `LeapSecondsRollOver` is the only OverflowError of a scan.
- `_normalize_hostname` follows IDNA 2003 and `httpx.URL` IDNA 2008, so
  `straße.example` shares the origin, hence the slot and the deadlines, and the place
  in the allowlist, of `strasse.example`, which is another server; spelled as its
  `xn--` name it is one server with a second origin. `OriginIdentifiesServer` leaves
  out hosts spelled that way (`HasDeviation`) and says that all others are told apart.
- `_redact_link_header` changes links before they are parsed. Credentials are taken
  out of a target, and the link is then recorded, though `validate_http_url` would have
  refused it; a target with a scheme but no host, such as `mailto:`, loses its scheme
  and is recorded as a path of the answer's own server; a target with an unreadable
  port becomes `<<invalid-url>>`, which stops the parser even if the link is no policy
  link, with the diagnostic `LinksKeptOrReported` asks for.
- `package_release.py` promises to "atomically replace owned output". Between its
  two moves the output is absent, for good if the run is killed there: the release
  is then in a `.dist-release.previous-*` directory, which nothing puts back or
  removes and `.gitignore` does not name, so that a check for a clean work tree
  fails. A run that loses against another leaves its backup in the same way.
  `ReleasesStayWhole` states what does hold.

## 7. Not modelled, and plan

Not modelled: the decoding of text (YAML, JSON, the characters of fields), exporters,
the dashboard's script, git provenance, configuration, the contents of release
archives, the other scripts; `delete_http_cache` and `prune_http_cache`, which no
service calls; power failure (no directory is fsynced); two watchers on one output
directory; replacing a scheduled job while it runs and `run_now` beside a started
scheduler, which no caller does; `demo`, which writes its outputs in place and may
leave a truncated file. The exporters and the dashboard keep no state and only lay
out what an assessment says; modelling them would restate them.

Order of the work, the most important first; all of it is done.

1. EvidenceStore, Ingest, ChangeFeed and their proofs.
2. HttpStore, HttpFetch and their proofs; HttpScan.
3. Scoring, Assessment.
4. Watch with its liveness, and its proofs.
5. FileSources, shown to yield well-formed batches; identities of signals and what
   happens when they coincide.
6. HttpDates, LifecycleHeaders, RequestPolicy and AnswerReading.
7. ReleaseOutput and its proofs; the change log and serial imports.
8. The proofs of reports, scans, the verdict on files, and the reading of answers.

What could follow: the distance a kept client does keep from its own requests; that
Watch's `Import` is a serial import of Ingest, as a refinement rather than by its
description; and `delete_http_cache` and `prune_http_cache`, once something calls
them.
