# Formal models of the Middle East Geopolitical Intelligence platform

TLA+ models of `src/src/mei` (the FastAPI process, its scheduler and its Celery
tasks), the TLC runs that check them on small instances and the TLAPS proofs of
their central invariants. Paths below are relative to the repository, so that
`src/mei/...` is `src/src/mei/...` here; line numbers are those of `PROJECT.json`, whose
`map` gives the code behind every definition.

    tlc -workers 2 -config scheduler.cfg MCScheduler.tla     # a run
    tlapm SchedulerProofs.tla                                # a proof

## 1. Inventory

The platform collects news and data from registered sources, extracts claims and
events with language models, lets analysts review them, and derives risk scores,
forecasts, scenarios and reports. All state is in PostgreSQL (READ COMMITTED); every
HTTP request, every scheduled run and every Celery task is a transaction of its
own through a SQLAlchemy `AsyncSession`. One uvicorn process serves the API and holds the
scheduler (`Dockerfile:25`, `docker-compose.yml:25`).

| Component | State it keeps | Operations | What makes it correct |
|---|---|---|---|
| Scheduler `application/services/scheduler.py` | `job_schedules`, `job_executions`; in memory: the loop, one coroutine per run | loop scan, load / mark / execute / complete a run, run now, create, patch, delete, start, stop | no schedule runs twice at once or before its time; the two rows of a run agree; edits are not undone; what is due runs |
| Pipeline jobs `pipeline_jobs.py` | none of their own | eight job types dispatched by `run_job`: scraping, claims, events, risk, imagery, forecast review, calibration, alerts | each reports the counts it stored; a failure of one item does not lose the others |
| Collection tasks `apps/worker/tasks/collect.py` | none of their own | poll RSS, retry failing endpoints, audit, translate | safe to retry; failures visible |
| Ingestion `source_ingestion.py`, `repositories/documents.py`, `sources.py` | `documents`, `source_endpoints.failure_count` | `submit_url`, fetch-archive-parse, two deduplication stages, `mark_endpoint_*` | only an overlap stores a URL twice or misses a copy; duplicates point to an original; failures counted |
| LLM rate limiter `infrastructure/llm/rate_limiter.py` | semaphore, pacing lock, time of the last request | `execute`, `_pace`, backoff | bounded concurrency, spacing, attempts; nobody starves, no permit leaks |
| Events, claims, review queue, extraction, actors `events.py`, `claims.py`, `review.py`, `extraction.py`, `entity_resolution.py` | `events`, `event_actors`, `claims`, `claim_evidence`, `review_queue_items`, `actors` | create, link, cluster, approve, reject, queue, resolve, acknowledge | approved means carried out, traceable and final; an event is stored with its links |
| Monitors and alerts `dispatch_notifications.py`, `telegram.py` | `monitors`, `notifications` | create, edit, delete, stamp, evaluate, deliver | one alert per reading; only what is stored is sent |
| Investigations `investigations.py`, `tasks/investigate.py` | `investigations`, steps, the brief among `reports` | launch, execute, edit, delete | what is completed is whole |
| Risk engine, multi-model review, indicators `risk_engine.py`, `multi_model_review.py`, `indicators.py` | `indicator_observations`, `risk_assessments`, `model_review_results` | record a reading, calculate, review, explain a change | reproducible, resting on fresh readings, trend fits the history, adjustment limited, reviews of committed rows |
| Reports `report_generator.py` | `reports` | generate, approve, reject, publish, edit, delete | only what was approved is published; overlapping requests do not undo each other |
| Scenarios `scenario_engine.py` | `scenarios`, `scenario_assessments` | create, edit, delete, update (API, worker, job) | a range no model gave repeats one that was stored |
| Forecasts, calibration `forecast_audit.py`, `calibration.py` | `forecast_records` | issue, edit, resolve, delete; report | each resolved forecast is counted once, in its bucket |
| Analysts' positions `analyst_disagreement.py` | `analyst_assessments` | record; list and classify disagreements | one row per analyst; the list and the classification agree |
| Imagery `imagery_ingestion.py` | `image_evidence`, bundles' items | submit, edit, link, delete | one image per content, races apart |
| Relationships, graph, comparisons `relationships.py`, `graph_analytics.py`, `routers/intelligence.py` | `relationships`, `relationship_observations` | create, observe; build the graph, compare | what is put together from several reads was true |
| Registry of actors, entity resolution `entity_resolution.py`, `repositories/actors.py` | `actors`, `actor_aliases` | create, rename, alias, delete; resolve a mention | a mention is linked only where it is clear |
| Tables `migrations/versions`, the models' relationships | foreign keys, cascades | what a deletion takes along | only parts go with their whole |
| Fetching and crawling `http_fetcher.py`, `web_scraper.py` | none | fetch through redirects, crawl a hub | bounded, every hop within the URL policy, one failure loses one page |
| LLM adapters, parsing, translation, audit log | none, or a row nobody reads | calls outside | their results are choices in the models |
| Frontend, authentication, search | none / read-only | queries | not modelled |

**How they interact.** The scheduler's loop spawns a coroutine per due schedule; the
coroutine calls `PipelineJobService.run_job`, which calls ingestion and extraction
*in the session of the run* (one transaction that the second commit of the run
completes). Analysts' requests, the administrator's requests and the runs share only the
database. Every call of a language model goes through one `AsyncRateLimiter` per
provider. Some services start detached tasks (`asyncio.create_task` after a
flush, before the commit: alerts, investigations, model reviews, imagery).

**What is hard here.** State read, then awaited on, then written
(check-then-insert without a unique constraint or a row lock); a copy of a row
used after other transactions changed it; a session poisoned by a failed
statement; a crash between the two commits of a run; detached tasks that race the
commit they depend on; cancellation at every `await` of the rate limiter;
failure counts reset and raised by overlapping collectors. `PROJECT.json`
`hazards` lists each one at its line, with the properties that cover it or the reason
why none does.

## 2. Modules

| Module | Models | Kind |
|---|---|---|
| `Scheduler` | the scheduler, its two tables, the administrator's requests, crashes | detailed specification |
| `SchedulerProofs` | five theorems about it | proofs |
| `RequestThrottle` | what the rate limiter promises a provider | abstract specification |
| `RateLimiter` | `AsyncRateLimiter` with asyncio's semaphore and lock | detailed specification, implements `RequestThrottle` |
| `RateLimiterProofs` | five theorems about it, the refinement included | proofs |
| `Ingestion` | collection sessions over feeds, `submit_url`, deduplication, failure counts | detailed specification |
| `IngestionProofs` | six theorems about it | proofs |
| `EventReview` | events, claims, evidence, actors, extraction and the review queue | detailed specification |
| `EventReviewProofs` | three theorems about it | proofs |
| `RiskAssessment` | indicator readings, risk calculations as transactions, the second model's review | detailed specification |
| `RiskAssessmentProofs` | eight theorems about it | proofs |
| `Rows` | what an ORM session writes of a row it loaded | operators |
| `Reports` | reports and overlapping requests about them | detailed specification |
| `ReportsProofs` | three theorems about it | proofs |
| `Investigations` | launch, detached execution, worker, edits | detailed specification |
| `Alerts` | monitors, evaluation, notifications, delivery | detailed specification |
| `Imagery` | submissions by content, links, deletion | detailed specification |
| `Scenarios` | scenarios of one scope and their assessments | detailed specification |
| `Forecasts` | forecasts, resolutions, the calibration report | detailed specification |
| `Positions` | analysts' positions and the two tests for disagreement | detailed specification |
| `Relationships` | relationships, observations, the actor graph, comparisons | detailed specification |
| `Registry` | actors, aliases, the resolution of a mention | detailed specification |
| `Records` | the schema's references, cascades and deletions | detailed specification |
| `Crawl` | redirects and the crawl of a hub | detailed specification |
| `Desk` | `Reports` and the ten after it, one per behaviour | composition |
| `DeskProofs` | eleven theorems about the composition | proofs |
| `DataLemmas` | tables of rows, least and greatest elements, sums over finite sets | lemmas |
| `MC*` | values of the constants for TLC | instances |

### Scheduler

`row` holds the columns of `job_schedules` that the loop tests, `executions` the
status of the `JobExecution` of each run and `run` its coroutine: where it is and
what its session loaded. `Load`, `Mark`, `JobEnds`, `Finish` are the stretches of
`_run_due_schedule_safe` / `_execute_schedule` between awaits that let
others commit: `Mark` is the first commit, `Finish` the second. The copy matters
twice: the ORM omits `last_status` from the UPDATE when the copy already says
`running`, and `NextRun` uses the interval that was loaded. `ScanQuery` / `ScanSpawn` are the
loop; an edit, a deletion or another run may come between them. A job ends in one of
three ways; `broken` is a job whose failed statement left the session unusable, so
that the second commit fails. `Crash` covers `stop()`, which cancels
the loop and does not wait for the runs.

Abstracted: `next_run_at` is unset, in the future or past, which is what the loop tests;
`last_run_at`, error texts and job parameters are left out; HTTP handlers are one step
each; a slot forgets a completed execution when it is used again (nothing reads
completed executions). `trigger_by_type` without a row of that type writes no scheduler
row and is left out. An insert of an execution concurrent with the deletion of its
schedule is ordered before or after it.

### RateLimiter and RequestThrottle

`pc` places each caller in `execute()`; `queue` / `permits` are the semaphore,
`lockQueue` / `locked` the pacing lock, FIFO as asyncio provides them (external).
`Cancel` may strike at each `await` and releases what the `async with` blocks
hold. A clock tick is the unit of the pacing interval; `Backoff` is
`base * 2^(attempt-1)` capped, or the provider's hint capped. Left out: the jitter
of less than a second, a pacing interval of zero (no sleep, nothing to order), and the
registry that hands one limiter to all clients of a key (`rate_limiter.py:123-141`: the first registrant's
settings win over those of every later caller). That is a listed hazard without a property, since the
settings are constants here. The OpenAI client's own retries happen inside `func` and are not paced.

`RequestThrottle` states the promise alone: at most `Limit` open requests, `Interval`
ticks between any two of them, at most `MaxRetries + 1` per `execute()`. The refinement
mapping reads the open requests off `pc` and measures spacing with a history variable
(`callAge`) set where `func` is called, not with the time the code keeps.

### Ingestion

A `session` is one transaction of the job, of the worker's poll or retry, or of a manual
submission. It reads committed rows and its own. `Created`, `Fetched`, `Parsed`, `Chunked` are the
stretches of `submit_url` / `_fetch_archive_parse` between the lookup, the fetch, the parse and
the chunks; `FetchFails` and `ParseFails` are the exceptions that leave the row with status FAILED.
`Raise` is the difference between the callers: the job's `except` counts the
failure, drops the rest of that feed and keeps what was flushed; the others roll back.
`mark_endpoint_*` writes the session's *copy* of the count, in an UPDATE that locks the
row until the end.

The URL policy comes before the look-up (`source_ingestion.py:65`, 69), so that any link, a known one too, may
be refused for the moment (`Rejected`: its host does not resolve), and a link in `Refused` always is.
It leaves no row, and as `Raise` drops the rest of its feed, what follows it in a feed is lost in every
run for as long as the feed lists it (`pipeline_jobs.py:116-160`). `EveryItemIsRecorded` therefore speaks of the
items before it (`Reachable`). A known external id is looked up before the link (`pipeline_jobs.py:127-130`), which
`Known` covers: an item in `Refused` is never stored, and so never known.

`missed` is a history variable: the pairs of documents of which one's look-up, by URL, by bytes or by text,
would have found the other had its transaction been committed. `UrlsRepeatByOverlap` and `CopiesEscapeByOverlap` say that nothing else
makes two documents of a URL or two originals of a content. Without that exception both are
false, since the schema has no constraint that would close the gap.
Deleting sources or endpoints, raw archives and the translation
chain are left out. The worker's tasks are entry points no other code in the repository
calls; they are included because they are registered Celery tasks.

### EventReview

An analyst's request is `Ask...` (its reads and checks) and a write, with other commits
between: nothing is locked by the read. The resolution of an item takes one more step, because it loads the claim by a later
statement than the item (`review.py:54`, 58, 76): `LoadClaim` sees what is committed by then, and `SetClaimant`
emits no UPDATE where the claimant chosen is the one loaded. Two decisions on one item leave the claimant that the item names. With three they
need not: the first commits an actor, the second loads the claim with it and chooses the same one, the
third commits another, and the second then approves the item and writes nothing to the claim. `ApprovedIsApplied` says
exactly this: the claimant is one of those approved, and the item's own unless three decisions overlapped.

Extraction is `Lookup` (candidate events of the
cluster) and a write, with the same gap: the two are statements of one transaction. `Merge` is
the one candidate's case: links, claim with evidence, review items. `StopAtNewEvent` is a new event's, and an error path:
`existing_links = event.actors` (`extraction.py:197`) loads a relationship that was never loaded, lazily and on an
`AsyncSession`, and raises `MissingGreenlet`. The scheduled job catches that per document and commits
what was flushed, an event without links or claim and perhaps the flag of several candidates; the worker's
task rolls back (`ExtractionAborts`). The integration test expects the links (`event_named`). So only events that analysts have linked ever become
candidates, and nothing is claimed of clustering.

Foreign keys, primary keys and
cascades are modelled by what the database does. Reduced: two grades of event type
(with and without `is_high_impact_event`); one role per link, and one of a claim's two actor columns; every event lies in every
other's deduplication window; one event and one claim per document; extraction by the
scheduled job holds several documents in one transaction, here each is its own. PATCH of
a claim is left out.

### RiskAssessment

One `calculation` is one `RiskEngine.calculate` with the row it leaves: `Begin` fixes
`assessed_at`, `ReadObservation` is one `get_latest_observation` per indicator,
`ReadPrevious` the aggregation and `get_latest_assessment`, `Persist` the answer of the
model, the flush and `create_task(_run_review())`, `Commit` / `Abort` the end of the
transaction that the job, the worker's tasks or the request own. `review` is the shadow run:
`LoadPrimary` looks for the row from a session of its own and dies where it is not committed
yet, the rest is the same calculation with `as_of` and `persist=False`. The arithmetic
(`Normalize`, `BaseScore`, `Confidence`, `TrendOf`, `ChangedIndicators`) is translated
in hundredths, with Python's rounding to even; rows of equal `observed_at` come in any
order, since the query does not say.

Abstracted: one risk at one scope (others share nothing with it); the job calculates many in
one transaction, whose failure here is the `Abort` of each; risk definitions and
weights are constants because only the seed script writes them; `min_max`
normalisation stands for all three methods; a second model is configured. Which model
answers is not modelled: `_run_review` builds its "secondary" client from `llm_model`
(`risk_engine.py:330`), so a model reviews itself; the worker's task uses the right one.

### Reports, Positions, Forecasts: rows and requests

A request reads its row and writes it later. The ORM's UPDATE names only the columns whose
value differs from what was loaded (`Rows!Written`), so that a decision and an edit that
overlap both survive; `Forecasts!Writes` says the same of a resolution. What the statement does and the commit that follows are one step: only the audit
entry lies between them, and other writers of the row wait for its lock. `wasApproved` is a history
variable. A `PATCH` may set any status; only `publish_report` sets `published_at`, which is
what the property is about. The calibration report is two queries (`ReadResolved`, `ReadOpen`); `moved`
notes which forecasts changed between them. Its probabilities are whole per cents, and scores ten
thousandths: the code's floats put 0.58 into bucket 28 of 50, 0.70 into bucket 62 of 90, and 0.29, 0.57 and 0.58 one
bucket low with 100 (`calibration.py:58-66`); the default of 10 buckets is exact.

An analyst's position is inserted and never revised: `record_position` answers with
`updated_at` (`routers/analyst_assessments.py:52`, 99), which an UPDATE expires because the column has `onupdate`
(`base.py:34-39`), so that reading it raises and the request rolls back. A revision that changes no column
writes nothing. `Positions!Leave` is both; `upsert_position`'s own words (`repositories/analyst_assessments.py:31-35`, "revises their
existing row") are not what happens.

### Investigations and Alerts: tasks around a commit

`Launch` starts the execution as a task on the request's own session. The request's commit
stores what the task has set so far, wherever it is, and closes the session: `RequestCommits` may
come before, between or after the task's steps, and what the task does later reaches no
commit. A `MissingGreenlet` or any other error of the request itself is one of `Aborts`. A result equal to
the one that the execution loaded with the row is left out of its UPDATE (`loaded`), so `CompletedIsWhole` excepts a
result that another execution has committed since.
`PATCH` commits before its response is built, so that it stands even where the response then fails to read `updated_at`.
 `WorkerStarts` / `WorkerCommits` are the Celery task with a session of its own. Nothing
resumes an investigation after a restart, although `docs/01-project-idea.md:880` calls them "durable and
resumable": there is no code to model.

An evaluation walks through copies of the enabled monitors, writes notifications and the times it
triggered at, and commits both together. Delivery starts before the commit, in a session of
its own that gives up when the row is not visible, and `asyncio.run` cancels it at the end. One
evaluation runs at a time: nothing in the repository calls the task, and two that overlap
could raise two alerts for a reading. A client without credentials logs and returns as if
the message were sent. The scheduled `monitor_evaluation` is `Stamp`: it evaluates nothing
(`pipeline_jobs.py:297-306`).

### Imagery, Scenarios

`LookUp` and `Store` of a submission are apart, so two submissions of a content can both store
it; `seen` is what was committed at the look-up. Nothing is archived: the object storage is a mock whose `put_bytes` is `pass`
and whose `get_bytes` returns nothing (`object_storage_mock.py:19-23`), so an image's row refers to bytes that are gone, and the
model has no objects. `submit_image` rejects nothing the fetch lets
through, but `fetch_url` refuses `image/*` content types (`http_fetcher.py:93-117`), so only an image served
without a content type arrives. The analysis imports modules the repository does not have, and
the scheduled satellite job calls `ingest_image`, which does not exist and is caught: neither runs.
An update of a scenario notes the time, reads the latest assessment up to it, asks the model and
writes; the job updates all scenarios in one transaction (its audit message then fails on
`scn.title`, caught per scenario after the assessment was written). `Full` is the range 0..100 of no
previous assessment.

### Relationships, Registry

The graph is built by one query for the list and one per relationship, the comparison by two
queries per relationship, each while observations are recorded and actors deleted. Two creations
of a pair both look before either writes and both stand (no constraint); readers take the
oldest. `seen` collects the weights a relationship has had since the list was read.
A mention is resolved by four statements: exact name, exact alias, candidates, and the ranking.
`Similarity` is a constant operator, of any values in 0..100; `moved` notes the actors that were edited
meanwhile, of whom nothing is claimed. Two actors with one alias: `first()` takes either, and
the property asks only that the one linked bears the name.

### Records

Each `...Schema` is the set of foreign keys that one migration (or a stretch of it) creates, with
its delete rule; `Owned` are the collections that ten models declare with `delete-orphan` (one definition `...Parts` each), which the
session deletes row by row after it has loaded them; `Cascade` is what the database adds. The two disagree:
the database would set a job execution's schedule to null, and the session deletes the
execution (`TakenAlong`). `RequestDelete` loads, `Flush` deletes, and rows may be inserted in
between. A source takes its documents, their chunks and the evidence from them along, and the
events approved on that evidence stay without it (`docs/01-project-idea.md:53`, "must preserve the
original source").

The least closed set that `Cascade` asks for is written as such, the rows that are in every closed set,
and not computed step by step: its two properties are all that a proof uses.

### Crawl

A fetch holds the URL it is at and the hops left; `Allowed` is the policy, checked before each
request; `Refuse` stands for statuses, content types and sizes. The crawl scrapes one link after
the other and catches what fails. Which links a page has is the server's choice. Nothing at
this commit reaches `crawl_hub`: the job names `EndpointType.SCRAPER` first, which does not exist
(`pipeline_jobs.py:142`), and raises. The module says what the crawl does when it is called, and no
hazard is listed for it.

### Desk

`Desk` extends `Reports` and takes the other ten as instances. They share no modelled state, so
`component` says which of them a behaviour moves, and `DeskNext` has one disjunct per component; the
others keep their initial values. What holds of every behaviour of `Desk` holds of each component by itself:
seen from `Reports` alone, it is `Reports` (`DeskShowsReports`).

## 3. Runs

| Run | Question | Bounds | Distinct states |
|---|---|---|---|
| `scheduler` | do the two rows of a run stay consistent, are edits kept, with everything at once? | 1 schedule, 3 overlapping runs, 1 crash, intervals 0 (default) and -5 | 649 000 |
| `scheduler_unattended` | loop alone: one run at a time, none early, everything due picked up? | 2 runs, 1 crash | 2 700 |
| `scheduler_reliable` | violation: is an enabled schedule always executed again? | same | |
| `rate_limiter` | does the limiter keep the throttle's promise and finish every request? | 3 callers, 2 permits, interval 2, 1 retry, hints below and above the cap | 38 000 |
| `ingestion` | overlapping sessions: chains of duplicates, stored originals, visible failures; does anything but an overlap store a URL or a content twice? | 2 sessions of all kinds, 1 feed and a hub, 3 documents | 1 050 000 |
| `ingestion_job` | the job alone: each item that no refused link precedes is recorded | 2 feeds, one with a refused link, and a hub, 3 documents, counts to 2 | 20 000 |
| `ingestion_retried` | violation: is a failed fetch retried? | 1 feed, 2 documents | |
| `event_review` | do overlapping decisions leave queue, links and evidence in agreement? | 3 analysts, 1 extraction, 1 grave event, 1 claim, 1 item, 1 withdrawal | 1 120 000 |
| `event_named` | violation: are a document's events stored with links to the actors it names? | 3 events, 2 actors, 1 analyst | |
| `risk_assessment` | can a score be computed again, does it rest on what is known, does the trend fit the history, what does the second model compare? | 2 calculations, 2 readings (fresh or back-dated), 2 indicators, one of which goes stale, 4 ticks | 1 935 000 |
| `desk` | do reports, investigations, alerts, images, scenarios, forecasts, positions, relationships, the registry, the tables and the crawler keep what they promise while requests overlap? | below | 617 000 |
| `event_review_final` | violation: is a settled item final? | 2 analysts, 1 item | |

Why these bounds are enough to be of interest:

- *One schedule.* Schedules share no state but the loop's scan; all that two rows could add is the
  order in which one scan spawns them. Three slots let a manual run overlap a
  scheduled one while a third starts. A negative interval is accepted by PATCH and makes a
  schedule due at once, the worst case for overlap.
- *Three callers on two permits* make a caller wait for a permit, one for the lock and one
  sleep or call; a hint of 0 retries at once, a hint of 3 is capped.
- *Two sessions* are what a check-then-insert race needs; three documents give a
  chain of duplicates of length two. In `ingestion` counts are capped at 1 and the
  breaker does not open; in `ingestion_job` the count passes the breaker but the
  breaker concerns only the retry task.
- *Three analysts and an extraction* are the races of decision with
  decision, extraction, edit or withdrawal; three are what it takes to leave
  another decision's claimant. The one item is an entity's or a grave event's; the flag of several
  candidates takes three events, which only `event_named` has.
- *Two calculations, two readings, four ticks* give a calculation between two readings, a reading
  between two reads of one calculation, one that goes stale between two
  calculations, and two equal times. A reading is within reach of the threshold of a review; a
  recommendation of 15 is out of range and must not count. Reviews are asked for
  one at a time; started ones come as they come.

- *Eleven components in one run.* The components of `desk` share no modelled state, so each behaviour
  moves one of them, chosen at the start; a product of their states would show nothing more. Two of
  each kind (requests, notifications, analysts, actors) are symmetric: no property or action tells them
  apart. Two overlapping requests and one report, forecast or investigation are what a race needs; three
  images and two contents let a duplicate be made, deleted and submitted again; two
  scenarios let an update take the other's range; readings at two times come in either order; two
  relationships of one pair are what the check-then-insert leaves, and two scores let a trend rise and fall. A forecast issued at 50 per cent with two
  buckets lies on their bound; an edit to 150 is what the endpoint accepts. `Records` runs on five
  populations, each a whole with what can hang on it, and two deletions at once. Links of a hub are capped at
  two of three, and redirects at the code's five.
- *Deadlock* is not checked in the runs whose actions are bounded requests: within the bounds nothing may be
  left to ask (the cfg files say so).

**Fairness.** `scheduler_unattended`: the event loop runs ready coroutines, jobs end
(each outside request has a timeout), the service is restarted, time passes.
`PromptQuery` says that the loop's 30-second sleep outlasts the first transaction
of the runs it spawned; without it (`EagerQuery`, the mutant) the loop really spawns a
second run. `rate_limiter`: time passes, ready callers run, provider calls end.
Nobody has to call, and cancellation is never forced. `ingestion_job`: the job is scheduled
again and again and runs to its end; strong fairness of feed, host look-up and fetch says that what is tried
again and again succeeds at times. It does not help a link in `Refused`: `Created` is never enabled for it. The runs without liveness assume no fairness.

**What the violation runs show.**

1. `ReliableSchedule`: a process that dies between the two commits leaves `last_status =
   'running'`, which nothing resets and which the loop skips for good (`docs/02:40`).
2. `FailedIsRetried`: a failed document is found by its URL on the next run and returned as
   it is (`docs/01:878`).
3. `DecisionsAreFinal`: two overlapping decisions on one item both pass the check, and the
   later one replaces the first (`tests/unit/test_review_service.py:291`).

4. `NamedAreLinked`: a new event is stored without links to the actors its document names, because reading
   `event.actors` raises (`tests/integration/test_phase2_extraction_pipeline.py:231-232`; `extraction.py:197`).

Other observations made while modelling, which no run states: two overlapping submissions store one URL twice
(`source_ingestion.py:69`, no unique constraint), and `find_by_canonical_url` raises on the pair from then on; a refused link
drops the rest of its feed in every run; an analyst's revision is rolled back; a forecast may be edited
after issue and resolution; a `PATCH` with a resolution date fails, since the audit entry cannot
hold a date; `check_family_consistency` compares only adjacent families that exist; a report's scope is not used when
it is generated; every endpoint that is not RSS raises (`pipeline_jobs.py:142`, `EndpointType.SCRAPER` does
not exist); `list_disagreements` and `classify_disagreement` part at a threshold of 0; the comparison of
relationships reads a missing current score as 0.

## 4. Proofs

All theorems hold for every value of the constants that meets the modules' named
assumptions, not only for the instances of the runs.

**SchedulerProofs** (from `SchedulerAssumption`).
`TypeCorrect`: `TypeOK` is inductive; each action's update of `row` and `run` goes through one lemma on
record updates. `RunningIsBacked`: together with `TypeOK`,
`RunningHasExecution` is inductive. The delicate case is `Finish` of one run while a second of the
same schedule is in progress: it sets the row to a final status, so that the claim is
vacuous for that schedule. `SettingsAreKept`: of the actions that
change `run`, none writes `enabled` or `interval` of a live row.
`NeverOverlaps` and `NeverEarly` need the strengthening `UInv`: at most one run of a schedule is
active; while it is pending or running, its row does not lie in the future and, once marked,
says `running`; what is in `due` has no active run. `NoOverlap` alone is not inductive because a
scan's result is used after the scan.

**RateLimiterProofs** (from `RateLimiterAssumption`). `LInv` adds to `TypeOK`: the
queue holds exactly the callers at `queued` and each once, the lock's queue those at `pacing`; permits
are what the holders leave; the sleeper is unique and there is one exactly while the lock is
taken; a sleeper's delay plus the age of the last request reaches the interval;
`callAge = lastAge`; the calls made are bounded by the attempts. From it follow
`PermitsAreConserved`, `SleepsAlone`, and `LimiterImplementsThrottle` by a step
simulation: each action of the limiter is an action of the throttle or a stutter.
It is the spacing clause that needs the lock: without it (mutant `MeasureUnlocked`)
two callers measure one gap.

**DataLemmas** (no assumption). What the proofs keep needing about the operators the models share: a set of
numbers has a least element and, below a bound, a greatest; a table stays a table when a row is replaced or
added; a sum over a finite set unfolds, lies between the sums of its terms' bounds, is at least that of a
part, and does not depend on how its terms are indexed. The library defines such a sum (`SumFunction`) by a
recursive function, of which the prover is first shown that it exists (`IteratesExist`).

**RiskAssessmentProofs** (from `RiskAssumption`). Eight theorems from one invariant, `RiskInv`: `TypeOK`;
no reading is recorded in the future; for each indicator a calculation has asked for, it has the latest reading
of its time among those recorded by then, or one that came in since (`CalculationsRead`); one that is scored has
the score and confidence of what it read (`CalculationsScored`); its previous score is that of the latest assessment
among those that were committed when it began, at least (`PreviousIsLatest`); and a review is of a
committed assessment and read as of that one's time (`ReviewsRead`). On top of it, arithmetic. `ScoresRestOnWhatIsKnown` places the rounded weighted mean
between the extremes of the contributions. `SilenceIsSmall` bounds, term by term, how far two means lie apart
whose contributions differ by at most the tolerance. `BasesAreReproducible` and `ShadowsDifferByAdjustment`
say that two calculations of one time have the same readings, unless one came in late.
`AdjustmentIsBounded` holds for every integer a model may recommend.

**ReportsProofs** (no assumption on the constants). `IInv` adds to the types of rows and requests: a
row whose status is approved is noted in `wasApproved`, and so is the report of every request that is
about to publish, which tested the status when it read. `PublishedWasApproved` alone is not inductive: the
test and the write are two steps, and a rejection may come between them.
`WriteMakes` says what a write leaves of a row, whatever was written since it was read; from it follow
`PublishesOnlyApproved` and, column by column, `RequestsMindTheirOwn`.

**IngestionProofs** (from `IngestionAssumption`). Neither `DuplicatesLeadToOriginal` nor
`DuplicatesAreStored` is inductive. `DInv` adds what a transaction at work on a document relies on: the
document is its own, is no duplicate yet, and nothing refers to it; and that every reference leads from a
row to one its own transaction saw, its own or a committed one, with the same bytes or text. A reference is
therefore never written to a document that is still in work, so it cannot close a circle
(`Written`), and a rollback takes away only rows to which nothing that remains refers (`RolledBackOK`),
also when numbers above the last remaining row are used again: `DuplicatesEnd`, `DuplicatesRemain`. `TInv` adds what
the types and the failure counts need: what a transaction has locked and not written is at zero, and a document at
work is that of the item it takes first (`DocumentsAreTyped`, `FailuresStayVisible`). `UrlsRepeat` and
`CopiesEscape` are proved by one invariant, `UInv`, over all rows that are not rolled back, those in work included, so that a
commit adds nothing to show: two of one URL, or two originals of one content or text, are in `missed`. A new pair arises only
where a row is written after a look-up, and what that look-up did not find was hidden from it (`SeenOrHidden`).
Both hold for any number of transactions of any kind.

**EventReviewProofs** (from `EventReviewAssumption`). Three layers, each built on the one before.
`TInv` adds two facts to the types of rows:
evidence of a claim has made its event traceable, and so is the event of every approval under way, which
saw evidence when it read. The second is needed because `approve_event` checks first and writes later,
while evidence may be deleted in between. From it `ApprovedIsTraced`.
`QInv` adds that an item's subject has a
row, that no two items write one claim, that what a request acknowledges is no entity, and that a claimant which a
decision has loaded was approved for its item (`RequestsRefer`).
`ApprovalsAreInForce` rests on `Holds`: but for `SetClaimant`, no step takes a link from an actor that remains, or a
claimant from a claim that lives. `SetClaimant` writes a claim that only its own item could have written, and where it writes nothing
the claimant loaded was its choice. `ItemSound` says what is left of it: the claimant is among those approved, and the last of the first two.
`WithinBounds` adds the bounds on rows; with it, `ReviewIsTyped`.

**DeskProofs** (from `DeskAssumption`: what is counted is finite or a natural number, scores are integers, there
is at least one bucket, one brief, one condition and one family to choose from, and a threshold is at least one).
`OneMoves` reduces a step of `Desk` to a step of one component, and each theorem is then one about that component.

| Theorem | Inductive invariant, and why the property needs it |
|---|---|
| `AlertsStayTrue` | `AlertInv`: an alert is about no later reading than its monitor triggered at, a flushed one than the copy of its monitor, which is never behind the row; a failed commit forgets copies and rows together |
| `InvestigationsAreWhole` | `ExecutionsFound`: past its second step an execution carries what it found, which is what a commit stores wherever it cuts the execution off |
| `DuplicatesOnlyInRaces` | `ImageInv`: what was committed at a look-up that found nothing has, as long as it exists, another content |
| `NothingIsInvented` | `ScenarioInv`: times of assessments differ and have passed; the one a writer carries forward is earlier and still stored, or goes with its scenario |
| `CalibrationCountsOnce` | `ForecastInv`: of what did not move, the first query read exactly what is there; `BucketFits` shows that the index the code computes is that of the bucket whose bounds a probability lies in |
| `QueryAgrees` | `PositionsTyped`: scores are integers; the query's maximum less its minimum reaches the threshold exactly if two scores do |
| `AnswersStayTrue` | `RelationInv`: edges already built are of the oldest relationship of their pair, with a weight in `seen`; `RegistryInv`: of the actors that did not move, candidates and exact matches are known to be what they were read as |
| `DeletionsTakeParts` | `RecordInv`: what a deletion has loaded, as long as it exists, refers to its root. `CascadeIsLeast` says what the database adds, `SchemaIsOrderly`, over all foreign keys, that a required reference cascades and one that cascades belongs to its whole |
| `CrawlsEnd` | `CrawlInv`: requests made and those the fetch under way may still make stay within `MaxRedirects + 1` for the hub and each link tried; finite sets, by cardinality |
| `DeskIsTyped` | `ComponentsTyped`: the invariants above with what each component's types need besides |
| `DeskShowsReports` | none: initial states map to initial states, steps to steps or stutters |

**Only model-checked.** Liveness (`DueIsPickedUp`, `RequestsEnd`, `EveryItemIsRecorded`): fairness and ENABLED
are beyond the prover. Every invariant and every action property of a passing run is a theorem, without further hypotheses. What the violation runs show is TLC's alone.

## 5. Plan

Done: scheduler, rate limiter, ingestion, event review, risk assessment; then the desk: reports,
investigations, alerts, imagery, scenarios, forecasts, positions, relationships, the registry, the tables and
the crawler. What remains, the most consequential first:

1. **Proofs**: what is safety among the runs' properties is proved. An abstract specification of the review
   queue and one of the alerts, which the detailed ones implement, would say more than their invariants.
2. **Composition** of ingestion and extraction inside the transaction of one scheduled run
   (`pipeline_jobs.py:162-176`), where an error of the second undoes or poisons the first. It needs a
   coarser `EventReview`: the product of the two as they are is beyond TLC.
3. **Risk, further**: that a large move is reviewed in the end (it is not when the
   task is quicker than the commit), and that a change of score names a changed indicator
   (`docs/02:1248`; it names none when a reading has only gone stale): two
   disagreements that deserve a run of their own.

## 6. Not modelled

- *Translation* (`tasks/translate.py`, `infrastructure/translation`): one update of a document by a task that
  nothing waits for. The steps it would start are cancelled with `asyncio.run` in every behaviour
  (`collect.py:200`, `translate.py:73`), so there is no interleaving to check; what it writes is text.
- *Text processing*: parsing, readability, feeds, language detection, the similarity of names, prompts and
  provider adapters. Pure functions or outside calls: choices in the models.
- *networkx*: centrality, communities and paths of a graph that `Relationships` builds.
- *Search, dashboard, map*: they return rows they read.
- *Identity and authentication*: stateless checks of a key or token.
- *The audit log*: a row appended in the caller's transaction, which nothing reads.
- *The frontend*: a client that keeps no state the platform relies on.
- *Seeds and scripts*: run by hand.

`PROJECT.json` `components` gives the reason for each part left out of a modelled component.
