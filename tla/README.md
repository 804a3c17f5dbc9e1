# A TLA+ model of the root cause analysis backend

This directory specifies the FastAPI backend in `src/backend/app`: what its HTTP
handlers, its in-process background jobs and its startup task do to the rows and
files they share, and what must hold whatever order they run in. The modules are
written from the Python source; every definition that stands for code is listed
with its lines under `map` in `PROJECT.json`.

Paths below are relative to `src/backend/app` unless they start with `src/`.

## 1. The system

### Components, their state and operations

| Component | State | Operations | Here |
|---|---|---|---|
| **Dataset lifecycle** `services/dataset_service.py`, `profiling_service.py`, `kpi_service.py`, `sql_service.py` (save), `jobs.py`, `main.py`, routes `uploads`, `datasets` | `datasets` row (status, upload status, keys, checksum, `profiling_started_at`), `dataset_profiles`, `kpi_definitions`, files in storage | upload, SQL save, duplicate rejection, profiling job, regenerate, delete, KPI create and delete, startup reconciliation | `DatasetLifecycle`, `DatasetContract` |
| **Investigation lifecycle** `services/investigation_service.py`, route `investigations` | `investigations` row (status, `completed_at`, its dataset and definition) | create: gate, reuse, plan, run, persist or fail; startup reconciliation | `InvestigationLifecycle` |
| **Schema and sessions** `db/` | the relational schema: foreign keys with CASCADE and SET NULL, the partial unique index on active definitions, unique profile per dataset; sessions with `expire_on_commit=False` | transactions | inside both |
| **File storage** `services/storage_service.py` | objects by key | save, delete, open | its contract, inside `DatasetLifecycle` |
| **Investigation engine** `analysis/investigation/` | none between runs: stages, evidence list, decisions, audit trail of one run | `investigate`, validation, evidence, quality verdicts, status | `InvestigationEngine` |
| **Root cause engine** `analysis/rca/` | none: segment tables of two periods, a trace of statements | totals, breakdown, contribution, residual, ranking, drill-down, tree | `RootCause` |
| **Periods and series** `analysis/rca/period_analysis.py`, `analysis/anomaly/series.py` | none | bucket arithmetic, comparison windows, expected grid | `Periods`, `AnomalyDetection` |
| **Anomaly engine** `analysis/anomaly/`, `services/anomaly_service.py` | none | gating, series, baselines, detectors, notices | `AnomalyDetection` |
| **AI analyst** `services/ai_analyst_service.py`, `ai/` | nothing persistent of its own: one answer is the plan, its steps, the call budget and deadline of one request; the only row it can leave is the investigation it opens | intent, resolve, plan, execute, ground, explain, verify | `AnalystPipeline` |
| **Profiler, type inference, KPI heuristics** `analysis/profiler.py`, `type_inference.py`, `kpi_heuristics.py` | none | one pass over a file | not modelled: floating-point heuristics in one synchronous call; the job's verdict is a nondeterministic choice |
| **KPI and structural validation** `services/validation_service.py` | none | pure function of profile and definition | not modelled: may accept or refuse |
| **SQL connector and guard** `connectors/`, `services/materialize.py`, `services/sql_service.py` | rows fetched and written, one connection | batched fetch, row limits, Parquet and spreadsheet writers, statement guard | `RowStreams`; parsing is not |
| **Request plumbing** `core/` | bytes counted per request | body limit, error envelopes, configuration | `UploadBody`: the byte counting, the commits of an upload, a delete beside it |
| **Frontend** `src/frontend` | – | polls the API | not modelled; `DatasetContract` is what it may rely on |

### How they interact

* A handler opens a SQLAlchemy session, **reads rows once and decides on what it
  read**: sessions are made with `expire_on_commit=False` (`db/session.py:27`),
  so a row loaded at the start keeps its values through the handler's own
  commits. Between the read and the commit any other handler or job can commit.
  An assignment of the value already loaded produces no UPDATE of that column.
* Upload endpoints are coroutines on one event loop; between two awaits no other
  upload runs. All other endpoints and all background jobs run on a thread pool.
* Accepted uploads, SQL saves and *regenerate* enqueue the same job,
  `run_pipeline`, which has three commits (PROFILING, the result, or the failure).
* Investigations, root cause analysis, anomaly detection and the AI analyst read
  a dataset that must be `analysis_ready`, and the active definition. Only
  an investigation leaves a row; the analyst's answer is returned and not kept,
  but the analyst may open an investigation to get it.
* Deleting a dataset cascades to profile, definitions and investigations, in the
  middle of whatever uses them.
* Nothing survives a restart but rows and files. `lifespan` reconciles jobs and
  investigations *older than a cutoff* and swallows any exception.

### What is hard about it

Interleaved transactions that decide on stale reads; two jobs for one dataset;
cascading deletes under running work; storage calls and commits that cannot be
atomic; a restart between any two of these; and reuse of results decided by
comparing timestamps taken at different ends of transactions. In the engines:
shares of a whole under five aggregates, NULL segments, cut lists and windows that
cancel; periods that are not over yet; statements that are matched to numbers after
the fact. In the analyst: a model that fails, invents, or is late. `hazards` in
`PROJECT.json` lists each at its line with the properties that watch it.

What makes each component correct: for datasets, that statuses are only ones a
client can act on (a settled status has a profile, a ready one has a definition,
nothing hangs, files and rows match); for investigations, that an ended run is a
record, an unfinished one is being worked on, and a reused one describes the
data as it is; for the engines, that the parts add up to the whole they explain
and that caps and limits are neither exceeded nor reported wrongly; for the AI
analyst, that every way a model can fail ends in a grounded answer or a named
failure, within the budget.

## 2. The modules

| Module | What it is |
|---|---|
| `DatasetContract` | Abstract: the order of statuses of a dataset and when a profile can be read. What a polling client may rely on. |
| `DatasetLifecycle` | Detailed: rows, profiles, files, definitions, requests, jobs, restarts. Implements `DatasetContract` (`ImplementsContract`, refinement mapping at its end). |
| `InvestigationLifecycle` | Detailed: investigations beside the transactions that change their dataset. The dataset moves by the actions of `DatasetContract`, so the two modules compose over the contract. |
| `AnalystPipeline` | One call to `analyze`, step by step, with whatever the model and the tools may return, beside KPI calls that change the definitions. |
| `Fractions` | Exact rational arithmetic for the engines. |
| `Listings` | Lists made from sets and lists: sorting, picking, the order of an ORDER BY. |
| `Periods` | The calendar and the comparison windows. |
| `RootCause` | One root cause analysis over a file of a few rows. |
| `InvestigationEngine` | The investigation around it: extends `RootCause` and continues where that ends. |
| `AnomalyDetection` | One anomaly detection over a file of a few rows; uses `Periods`. |
| `UploadBody` | The bytes of one upload between the client, the middleware, the framework and storage, to the last answer, beside a request that deletes the dataset. |
| `RowStreams` | The rows of one query or spreadsheet between the driver, the batches and the file. |
| `MC…` | Instances for TLC (values, symmetry sets). `MCEngines` runs the four modules that share no state, one per behaviour. |
| `DatasetLifecycleProofs` | Theorems about `DatasetLifecycle`: types, statuses and definitions; rows and files, the refinement, duplicates. |
| `InvestigationProofs`, `AnalystProofs`, `IngestProofs` | Theorems about `InvestigationLifecycle`, `AnalystPipeline`, and `UploadBody` with `RowStreams`. |
| `SeriesProofs` | What the operators of `Periods` return for every moment and grain; sums of fractions; theorems about `AnomalyDetection`. |
| `EngineProofs` | Theorems about `RootCause` and `InvestigationEngine`: windows, drill-downs, records. |
| `ContributionProofs` | Theorems about the shares of `RootCause`: what they add up to, what the drivers reach. |
| `Foundations` | Induction over numbers as lemmas about sets; finite sets, lists made from them, concatenation, flattening. |

### DatasetLifecycle

One action is one transaction, one storage call or one read that a handler
decides on later.

| Variable | In the code |
|---|---|
| `life`, `row`, `profile` | `datasets` rows, the columns handlers decide on, and `dataset_profiles.profile_version` |
| `objects` | keys in storage: the source file and the normalised Parquet |
| `owner`, `kpis`, `active` | `kpi_definitions`: dataset, existing rows, `is_active` |
| `req[r]`, `job[w]` | a request or job in flight: where it is, and **the values its session loaded** |
| `up`, `restarts` | the process |
| `unlinked` | history: datasets some delete has begun to unlink |

Requests go through `BeginUpload … AcceptUpload`, `BeginSqlSave …
CommitSqlSave`, `BeginDelete … DeleteRow`, `BeginCreateKpi … CommitKpi`,
`BeginDeleteKpi … DropKpi`; jobs through `LoadJob … CommitProfile | FailJob`.
`loop` in a request is "a coroutine between two awaits holds the event loop".
`Die` drops every request and job; `Boot` reconciles (or fails to); `Age` lets
the cutoff pass. A conflict the database would raise (unique index, foreign key,
a row that is gone) is a guard such as `CreateConflicts` or `ProfileConflicts`.
What `validate_for_kpi`, the profiler and the query return is chosen freely.

### InvestigationLifecycle

| Variable | In the code |
|---|---|
| `inv[i]` | `investigations` row: status, dataset, definition |
| `completed` | runs whose `completed_at` has been taken |
| `behind[x]` | runs whose `completed_at` is before `updated_at` of dataset or definition `x` |
| `req[r]` | a `create` call: the rows it loaded and the run it holds |
| `writer[w]` | a transaction (or a job between two) on a dataset: `before` are the runs completed when it began |
| `status`, `profiled`, `owner`, `kpis`, `active` | as above |
| `overtaken`, `quiet`, `lost` | history |

`updated_at` is `func.now()`, which in PostgreSQL is the **start** of the
transaction, however late it commits (`db/models/base.py:42`). Instead of clocks
the model keeps which runs ended before which transaction began: a commit
(`Touch`) sets `behind[x]` to the writer's `before`, so it can also move
backwards when an older transaction commits last. `Outlasts` is then membership.
The model assumes what the code does: that application and database clocks
agree and that two instants are comparable; ties count as "not before", as `>=`
does in `_outlasts`.

`Create` is the gate; `Resolve`, `Reuse`, `Plan` the reads that follow, each a
statement of its own under READ COMMITTED; `StartRun`, `CompleteRun`, `Persist`
| `FailRun` the commits; `CrashRun` an exception that is no `AppError`, which
nothing catches. One dataset's `_reusable` parameters other than the definition
(driver and depth limits, engine version) are taken as equal: they are the same
request repeated. `refresh` is covered: `Plan` may be taken although `Reuse` can.

### AnalystPipeline

| Variable | In the code |
|---|---|
| `stage` | where `ai_analyst_service.analyze` is |
| `question` | the request: which cues, hints and matches its words have (a record of what `keywords.py`, `clean_hint` and `match_kpis` find in them, never the words) |
| `choices`, `dims` | what `_kpi_choices` and `_dimensions` read, before the model is asked |
| `intent`, `context`, `plan` | the values of steps 1 to 3 |
| `source`, `left` | the investigation in hand; the row this call added |
| `steps`, `cut`, `late` | tool results; whether a cap or the deadline stopped the plan |
| `answer`, `outcome` | the text and where it came from; the status, or how the request failed |
| `defs` | `kpi_definitions`, which `Meanwhile` may change between any two steps |

The model's reading (`ReadIntent`) and its text (`Explain`) are chosen freely: any
intent, hints that are asked or invented, any set of figures. A failure of the
provider is `FailIntent` or `FailExplain`, with the retries `intent.py` has.

### Periods, RootCause, InvestigationEngine, AnomalyDetection

These are computations: a stage per SQL statement or phase, each stage an operator on
the rows of a small file. A moment is a number of half days (`TicksPerDay`), so that a
window's bounds and the rows beside them are apart; the calendar is the real one.
Values are integers, shares exact fractions: what the properties say of sums is
equality, and the code's tolerances are compared with where it compares them.
A segment value is a model string whose collation is `SegmentOrder`; `NULL` and the
residual bucket are members of it, as they are of the code's result sets.
The DuckDB functions (`sum`, `avg`, `median`, `date_trunc`, the ORDER BY of the
breakdown) are modelled by what they return, NULL included.
`Branching`, `MinRowsForMean`, `MinBaseline` and the like are the module constants
of the code at a smaller scale; `NetToGrossMinRatio`, `ParetoTarget` and the
thresholds of the detectors are the code's own.

### UploadBody, RowStreams

A message is its size, a row its number. `received` is the middleware's counter,
`handed` what went on to the application, `size` what storage has been given;
`read`, `batch` and `written` are the rows fetched, in memory and in the file,
`clipped` is `QueryResult.truncated` and `session` the connection. What FastAPI does with
a form before the handler runs, and with an exception raised meanwhile (400), is
external.

`wire` follows the request through `store_upload` and `_finalise`: the commit of
UPLOADING, the stream, the object that is there at once when the stream ends, the
commit of STORED and the verdict about duplicates. `row` is the dataset row and
`deleter` another request for its deletion. Any commit of a row that is gone raises, so
the answer is 500; when that is the last one, the whole object is left with no row
(what the run `files` reports). Whether there is an equal file, and whether it is
rejected, is chosen freely (`DatasetLifecycle` decides it). There is one upload and no
restart in this module; `DatasetLifecycle` has both, without the bytes.

## 3. What is checked

All runs finish on two workers within three minutes. Deadlock is not checked: with
every id used up, or with nobody asking for anything, the system does stop.
Symmetry is used in runs without liveness only.

| Run | Instance | Shows |
|---|---|---|
| `requests` | 1 dataset, 2 definitions, **2 requests**, 1 job | `OneActiveKpi`, `SettledHasProfile` under every interleaving of configure, delete, upload and job |
| `jobs` | 1 dataset, 1 request, **2 jobs**, 1 restart, storage faults, 2 profile versions | `TypeOK`; `KeysResolve` (a row's keys resolve until a delete unlinks); `ColumnsAgree` (the two status columns and the key agree); `ProfileAdvances` (no job replaces a profile it has not seen); `ImplementsContract` |
| `uploads` | **2 datasets**, same content, 2 requests, duplicates rejected | `NoDuplicateUploads`, `NeverBothRejected` |
| `serial` | requests one at a time beside a job, **fair** | `ReadyHasActiveKpi`; `UploadSettles`, `ProfilingSettles` |
| `investigations` | **2 create requests** and 2 runs beside 1 transaction and 1 definition, or 1 run beside **2 overlapping transactions** and 2 definitions; 1 restart | `TypeOK`, `ReuseFollowsReprofile`, `UnfinishedHasRequest`, `FinishedIsFinal` |
| `analyst` | one question per route, 2 definitions, 1 change of them, 3 calls, 5 steps, 1 retry, **fair** | `CompletedIsComplete`, `AnswersKpiAsked`, `RunIsAnswered`, `OnlyAskedNarrows`, `AbsenceWasChecked`, `UnmeasuredDiscarded`, `QuestionEnds` |
| `engines` | 96 analyses of up to 16 rows over three dimensions, 75 histories of up to 21 rows, 900 bodies of up to 3 messages beside 1 delete, 431 transfers of up to 7 rows | root cause: `NewestAccountedFor`, `ContributionsSumToOne`, `TreeReconciles`, `PrimaryReachTarget`, `StatementsBounded`; investigation: `CitesOwnStatement`, `EvidenceIdsUnique`, `FindingsRestOnEvidence`, `CompletedIsWhole`, `AdditiveRunsPass`; anomalies: `HistoryStands`, `RowsAccountedFor`, `UnfinishedNotJudged`, `GridBounded`; streams: `UploadIsWhole`, `CapsAreExact` |
| `startup` | violation | a restart soon after a job began leaves the dataset in `profiling` after a startup whose reconciliation ran |
| `files` | violation | a dataset deleted while its upload streams or its job materialises leaves a file with no row |
| `reuse` | violation | a run is reused although a new profile was published after it ended |
| `levels` | violation | a level of the drill-down costs a statement for each of its nodes |
| `averages` | violation | an average whose contributions reconcile is reported as numerically inconsistent |

The bounds: every handler touches one dataset, so one dataset suffices except
for duplicate detection, which compares two. Two actors of a kind make every
pairwise race; `MaxProfile` = 2 lets a job replace a profile, which is the case
a version conflict needs, and 2 definitions let one be replaced while runs and
requests still hold the other. One restart reaches every "died between two
commits". `BoundedSpec`, which `investigations` runs, is `Next` with a bound on the
states: it is the union of two instances, one for the races of two requests and one for
those of two transactions, and leaves out only both at once. Larger values are covered by the theorems where there are any.

The engines' files are chosen, not enumerated: falls everywhere but in one cell,
moves that cancel, a segment that arrives and one that goes, NULL segments that do
and do not drive, unreadable cells and moments, lists cut at one, two and five
segments, three levels of drill-down, every aggregate and every grain and frequency
(29 February included), gaps, trends, spikes, constant series, grids at, below and
above their cap. A history is judged again for each of its prefixes
(`HistoryStands`). Limits of the streams are between 2 and 6, batches of 2, so that
every cap falls inside, at the end of and just past a batch; message and row
sequences up to that size are enumerated.

**Fairness** (`FairSpec`, run `serial`): each request and each job that can go on
does (threads the server keeps running), and the client of an upload sends its
data or hangs up. `AcceptUpload` and `CommitSqlSave` get strong fairness because
the bounded job slots can be full when they look; in the code queueing never
blocks. Nothing is assumed about clients starting requests, and there are no
restarts in that run, because after one the code makes no such promise (below).
Run `analyst` (`AnalystFairSpec`): the thread that serves the question goes on; every
call to the model ends because the HTTP client has a timeout (`ai/providers/ollama.py`),
and that end may be a failure.

### Where the code and its documentation differ

* **startup** – `src/README.md:546` says a startup task reconciles stranded
  datasets. `reconcile_stale_jobs` takes only those older than
  `profiling_stale_minutes`; a quick restart, the usual kind, strands the dataset
  until another restart, and regenerate and delete refuse it meanwhile.
* **files** – `create_dataset_row` says a stored file never exists without its
  row. `delete_dataset` refuses only a dataset in profiling.
* **reuse** – `_reusable` says a run is not reusable once the file has been
  re-profiled. The publishing transaction and a configure call that had loaded
  PROFILING both begin before the run ends and commit after it: all their
  timestamps precede `completed_at`. The dataset is ready again, and an explicit
  request for the definition that was replaced gets the old run.
* **levels** – `rca/engine.py:4` says "each tree level costs one statement rather than
  one per node" and `_drill` (634) that "the whole investigation stays around eight
  statements". The loop at 646 issues one statement for each node of a level that may go
  on: up to three at the first level, two below each of those, nine drill-downs in all,
  besides the five or six statements before them.
  `StatementsBounded`, which holds, is the bound the code keeps: one statement per
  expanded node, never two, and no more nodes than the branching allows.
* **averages** – the additivity check of `validation.py` says it is skipped where
  the engine knows segments do not add up, and includes the basis averages have
  (`MIX_RATE`): a split average is always a failed check and a `PARTIAL` run.

Read in the source while modelling, and followed by the models without a run of
their own:

* *Root cause.* Classes go by share of the gross movement when moves cancel, so a
  "driver" may move against the KPI (`ranking.py:3`). The residual of an average is a
  subtraction of averages (`engine.py:108`). An average with no value in one window
  gives shares that sum to a half. Exactly `limit` segments count as truncated.
  Distinct counts are additive "only if verified" (`src/README.md:169`), but the overlap
  is asked of the first usable dimension only (`engine.py:416`): if that partitions the
  keys, every other dimension and every level below is attributed too. Tree drift that
  is neither a pure split nor a cut level is called the lost-rows bug
  (`src/README.md:247`, `validation.py:184`), and there is a third cause: an average whose
  segments cancel is split by gross movement, a node's contribution is the change of its
  own average, and the changes of its children's averages do not add up to that.
  `TreeReconciles` excepts this case; trying to prove it without the exception showed it.
  The node ids of a
  NULL segment and of one called "(none)" coincide (the model has no other segment of
  that name), and so do those of the residual bucket and of a segment whose value is
  "(other)", in a dimension that was cut (`engine.py:482`); `ranking.py:65` says siblings
  never share one, and evidence about the two gets one id. A yearly frequency
  whose newest row is on 29 February raises `ValueError`, which nothing catches.
* *Investigation.* Below a NULL segment evidence cites no statement ("None" is not
  "(none)", `evidence.py:815`). A dimension in which nothing moved, chosen to split the
  gross movement of another, gives nodes of the tree without evidence
  (`evidence.py:812`), while `graph.py:3` says every node refers to some. Broad-based
  movements still label primary drivers.
  A run without data is `PARTIAL` with failed records although `_status` calls such
  an end a result. Dimensions excluded up front are not disclosed when none is left.
* *Anomalies.* A series that has rows in as many periods as the cap is reported as cut,
  also when nothing was left out. A sparse one may have one period more than the cap
  (`grid_bounds` counts steps): it is kept whole, and while the query returned fewer rows
  than the cap it is not reported. Buckets that are all NULL are counted under the wrong notice.
* *Analyst.* "at most two model calls per request" (`ollama.py:75`) is
  `2 + ai_intent_retries`. A claim about the period counts as answered if any of its
  words matches (`grounding.py:159`). Figures between 1900 and 2099 are taken for
  years and never verified; as shares, figures match within a hundred times the
  stated tolerance. An anomaly question is `COMPLETED` though its detector could not
  run. A JSON list as the daemon's whole response is an `AttributeError` nothing
  catches. The planner cuts a plan without saying so.
* *Streams.* A form that is too large without declaring it is answered 400, a raw
  body 413. A column that is NULL throughout one batch and not another makes the save
  of a query fail. A query without rows is saved with the one column "result". If
  the rollback after a failed query raises too, its error hides the first.
  `cancel_query` of the SQL editor calls a function that does not exist.

Two more things the code does that no document denies, so no run reports them:
overlapping configure and delete calls can leave `analysis_ready` without an
active definition (hence `ReadyHasActiveKpi` only in `serial`), and an exception
that is no `AppError` leaves a run `running` until a restart finds it old enough
(hence `lost` in `UnfinishedHasRequest`).

## 4. What is proved

For every number of datasets, definitions, contents, requests, jobs, transactions,
restarts, questions, messages and rows, and every value of the limits, from the
assumptions named in the modules. These say: settings are Booleans and bounds naturals,
"null" is no id, two sets of ids are disjoint (`ConfigAssumption`, `NoneAssumption`,
`ContentAssumption`, `LifecycleAssumption`); a question, a tool result, an upload and
a transfer are of their types, and a result that compares two segments has analysed
(`AnalystAssumption`, `UploadAssumption`, `RowStreamsAssumption`); the calendar has at least
two years and a day at least one tick (`PeriodsAssumption`); the limits of an analysis
are positive, a request names no dimension twice, a grid may have more than one period, as
the settings have it, and the moments of a file are `Covered` (`RootCauseAssumption`,
`AnomalyAssumption`).

Two theorems have the hypothesis `NoBucket`: no segment of a file is called like the
bucket of the rest. Without it they are false, as section 3 says under *root cause*.

`Covered` leaves out the first year of the calendar and what comes after `LastYear`. The
code's `datetime` has the years 1 to 9999, and near either end a bucket's start or end
is a date it cannot represent: `shift_bucket` then raises `OverflowError` or `ValueError`,
for which the model has no branch. The theorems are about every file that stays a year
away from the ends.

| Theorem | Module | States |
|---|---|---|
| `TypeCorrect` | `DatasetLifecycleProofs` | `Spec => []TypeOK` |
| `AtMostOneActive` | `DatasetLifecycleProofs` | `Spec => []OneActiveKpi` |
| `SettledIsProfiled` | `DatasetLifecycleProofs` | `Spec => []SettledHasProfile` |
| `SerialReadyIsConfigured` | `DatasetLifecycleProofs` | requests one at a time: `[]ReadyHasActiveKpi` |
| `StatusColumnsAgree` | `DatasetLifecycleProofs` | `Spec => []ColumnsAgree` |
| `NamedFilesExist` | `DatasetLifecycleProofs` | `Spec => []KeysResolve` |
| `ContractIsKept` | `DatasetLifecycleProofs` | `Spec => ImplementsContract` |
| `ProfileVersionsAdvance` | `DatasetLifecycleProofs` | `Spec => ProfileAdvances` |
| `AcceptedUploadsDiffer` | `DatasetLifecycleProofs` | duplicates rejected: `[](restarts = 0 => NoDuplicateUploads)` |
| `OneOfTwoStays` | `DatasetLifecycleProofs` | `Spec => []NeverBothRejected` |
| `RunTypeCorrect` | `InvestigationProofs` | `Spec => []TypeOK` |
| `ReuseSound` | `InvestigationProofs` | `Spec => []ReuseFollowsReprofile` |
| `UnfinishedIsWorkedOn` | `InvestigationProofs` | `Spec => []UnfinishedHasRequest` |
| `RecordsAreFinal` | `InvestigationProofs` | `Spec => FinishedIsFinal` |
| `AnalystTypeCorrect` | `AnalystProofs` | `[]AnalystTypeOK` |
| `AskedDimensionsOnly` | `AnalystProofs` | `[]OnlyAskedNarrows` |
| `AskedKpiIsAnswered` | `AnalystProofs` | `[]AnswersKpiAsked` |
| `OpenedRunIsAnswered` | `AnalystProofs` | `[]RunIsAnswered` |
| `DenialWasChecked` | `AnalystProofs` | `[]AbsenceWasChecked` |
| `PublishedIsMeasured` | `AnalystProofs` | `[]UnmeasuredDiscarded` |
| `CompletedRestsOnAll` | `AnalystProofs` | no recipe over the plan's cap: `[]CompletedIsComplete` |
| `StoredUploadIsWhole` | `IngestProofs` | `[]UploadIsWhole` |
| `TransfersAreExact` | `IngestProofs` | `[]CapsAreExact` |
| `GridIsBounded` | `SeriesProofs` | `SeriesSpec => []GridBounded` |
| `UnfinishedIsLeftOut` | `SeriesProofs` | `SeriesSpec => []UnfinishedNotJudged` |
| `RowsAreAccountedFor` | `SeriesProofs` | `SeriesSpec => []RowsAccountedFor` |
| `VerdictsStand` | `SeriesProofs` | `SeriesSpec => []HistoryStands` |
| `NewestIsKept` | `EngineProofs` | `RcaSpec => []NewestAccountedFor` |
| `SiblingsAreDistinct` | `EngineProofs` | no segment called "(other)": `RcaSpec => []SiblingsDistinct` |
| `DrillsAreBounded` | `EngineProofs` | `RcaSpec => []StatementsBounded` |
| `InvestigationsAreBounded` | `EngineProofs` | `InvestigationSpec => []StatementsBounded` |
| `RecordsCiteTheirStatement` | `EngineProofs` | `InvestigationSpec => []CitesOwnStatement` |
| `RecordsHaveOneId` | `EngineProofs` | no segment called "(other)": `InvestigationSpec => []EvidenceIdsUnique` |
| `CompletedInvestigationsAreWhole` | `EngineProofs` | `InvestigationSpec => []CompletedIsWhole` |
| `FindingsHaveEvidence` | `EngineProofs` | `InvestigationSpec => []FindingsRestOnEvidence` |
| `SharesAddUp` | `ContributionProofs` | `RcaSpec => []ContributionsSumToOne` |
| `DriversReachTheTarget` | `ContributionProofs` | `RcaSpec => []PrimaryReachTarget` |

The arguments:

* *Types.* Not inductive alone: a request or job under way is about a dataset
  that was registered (`RequestsInv`, `JobsInv`), a transaction about some
  dataset (`OnDataset`).
* *Settled statuses and active definitions* (`KpiInv`). A configure call commits
  long after it saw a profile; the profile is still there because profiles go
  only with their dataset (`Configuring`). Deleting the active definition resets
  the status to `profiled`, which is right because a definition's dataset exists
  and has a profile (`Owned`). At most one is active because the flush conflicts
  with any active definition the handler did not load.
* *Ready means configured* (`ReadyInv`). False when calls overlap (end of section 3);
  with one request at a time what it loaded is still so when it commits: the
  definitions in its session are those of its dataset (`KnowsKpi`). Jobs need not be
  serialised, because none touches the definitions.
* *Rows and files* (`FilesInv`). `ColumnsAgree` and `KeysResolve` fall together. Each
  phase of an upload, a save or a job says what its row and its objects are just then
  (`Writes`, `Works`), and that nobody else writes the row of an upload under way
  (`SoleWriter`). A delete starts only on a dataset that is not being profiled, but
  a job may begin after it looked: hence "until a delete unlinks".
* *The contract.* `ContractIsKept` has a step for every action: under the mapping it
  is the contract's step of that name or leaves what a client sees alone. It needs
  `FilesInv` (a job that publishes finds the row in `profiling`, or moves nothing).
  `ProfileVersionsAdvance` rests on the version a job loaded: a newer one is a
  conflict in the commit.
* *Duplicates* (`LoopInv`). One coroutine holds the event loop from the commit of the
  upload to its verdict, so no second upload decides between the two. Only until a
  restart: dying between the commit and the verdict leaves the duplicate in with
  nobody left to reject it, which is why the theorem says `restarts = 0`.
  `NeverBothRejected` needs no such condition.
* *Runs* (`OneRunEach`). A request holds a run exactly while it works on it,
  nobody else holds it, its row is unfinished or gone, and while the process is
  down nobody holds anything. So only a holder or the startup task writes a
  status, never over a terminal one.
* *Reuse* (`OpenedLater`, `Passed`, `PassedAsLoaded`). For a run that ended with
  no transaction open on its dataset, every transaction open later began after
  it, so every later write of `updated_at` passes it, in whatever order they
  commit; a new profile is such a write; and a request that came after it has
  loaded a value that is no older. The `reuse` run shows the condition cannot be
  dropped.
* *The analyst* (`AInv`). What is known at each stage: the context comes from the
  choices that were read (`ContextAsked`, `Narrowed`), a run in hand is the row this
  call added or one it found (`SourceInHand`, `RunUnderWay`), the steps follow the
  plan (`Stepped`), and an answer agrees with them (`Concluded`). `CompletedIsComplete`
  alone has a hypothesis, `RecipesFit`: no recipe is longer than `MaxPlanSteps`, which
  `src/backend/tests/unit/test_ai_planner.py:57` asserts of the code's values. Without
  it the planner cuts a plan without saying so.
* *Bytes* (`BodyInv`). Each counter is the sum of a prefix of the messages: `received`
  of those heard, `handed` of those passed on, `size` of those stored, less the
  envelope of a form. Whoever hears the message that passes a limit therefore knows it,
  and each way out answers once (`Replied`). What the row and the object can be depends
  on where the request is (`Recorded`, `Kept`): from the end of the stream on the object
  is the whole file or was unlinked by a delete, and then the row is about to go. The
  object without a row is not excluded; what is shown is that it takes a delete.
* *Rows* (`RowsInv`). `written \o batch` is the rows read so far that count, in order,
  and never more than the cap; a transfer that stops has either read everything or
  seen the row past the cap.

* *The calendar* (`SeriesProofs`). Years, months, quarters, weeks and days are counted
  through: `Begin(g, j)` is where the j-th bucket of grain `g` starts. Later buckets
  start later (`BucketsFollow`, from the lengths of years and months), a moment is in
  the bucket of its `Index` (`MomentInBucket`), and shifting a start by `n` buckets gives
  the start of the bucket `n` further on (`ShiftIs`). After that a window or a grid is
  an interval of integers.
* *Windows* (`WindowsInv`). The file in hand stays, and the windows are resolved once, from
  its oldest and newest moments; until then they are `Failed`. The cases are the three
  ways of resolving them; stepping back an unfinished bucket leaves older rows because
  the bucket before it is no earlier than the oldest row's.
* *The grid* (`SeriesInv`). The cursor is at bucket `i + n` after `n` shifts and stops at
  the last one (`CursorIs`); so the grid runs from a bucket `s` to the newest moment's, has
  `l - s + 1` periods and starts later than the oldest row's bucket exactly if it was cut
  (`BoundsAre`, `GridIs`). The query's first and last rows are buckets of moments, the last
  one the newest moment's (`QueryIs`, by ranks in a finite set). Only the last period can
  end after a step from the newest moment, only the first of a grid that was not cut
  can start before a step back from the oldest (`ReindexedIs`); those are the ones
  `_reindex` marks. The walk keeps each period's place and changes nothing about one
  that cannot be scored (`JudgeKeeps`).
* *Counts* (`CountsInv`). Until it is cut, the query has a row for every bucket with a
  dated row (`QueryIs`), and the grid a period for every row of the query. So each period
  counts its own bucket (`Behind`), the buckets are a partition of the dated rows, and
  their counts add up to them (`SumIs`, which is about sums over any finite set).
* *Verdicts* (`BuiltInv`). The report is compared with the one over the rows before a
  bucket `k` of its series. Those are the file's rows at other places (`Paired`); no
  aggregate of a bucket depends on the places (`SameAggregate`). For counts, extremes and
  the median that is counting members (`SameShare`, `SameNth`); for sums and averages the
  algebra of `Fractions` is needed: a fraction has one lowest form, `Plus` is associative
  and commutative on them, and so a sum is the same in any order (`SameSum`).
  The earlier query is then the beginning of the later (`EarlierRows`), the earlier
  grid begins with the same bucket and boundary, is shorter and so not cut
  (`EarlierGrid`), and agrees with the later in all but its last period (`Agrees`). What a
  trailing window reads lies before the period judged, so the verdicts agree too
  (`SameVerdict`).
* *Drill-downs* (`RcaInv`). Why statements are bounded takes most of the state: the
  segments of a level have different paths but for twins (`LevelListed`), a node of the
  tree is one of the level or was found below a path that was drilled into (`TreeGrown`),
  a path that waits in the queue waits once, is in the tree, has nothing below it yet and
  was never drilled into (`Waiting`), and those of length one and two that were or will be
  are no more than `Branching` allows (`Counted`). The drivers are of the level
  (`DriversListed`), and the statements keep their order (`Shaped`). The investigation
  adds statements of another purpose, so the same bound holds of it.
* *Records* (`AuditInv`). `Recorded` says of the records made so far that each cites a
  statement about its own path or is below a NULL segment (`Attested`), that they back
  every node the evidence is built from (`Backs`), and that no two have one key
  (`Keyed`). The lists are built kind by kind and joined, and each kind is joined to others
  it differs from (`BlocksJoin`); within a kind, siblings differ. `Judged` says that the
  verdict was computed from the checks on the analysis as it still stands: the last steps
  read it several times, and nothing changes it in between.
* *Shares* (`Reckoned`). The totals are those of the base table and the basis is the one
  `BasisFor` picks for them, until and while there is a level; then the weights of each
  dimension add up to one. A share is a fraction of two sums, so everything is read over
  common denominators first (`Reads`), where sums can be split by any partition of what
  is summed (`SumSplit`, `SumMaps`). The groups of a dimension partition the rows of both
  windows; what the level does not list is what the residual holds (`ResidualHolds`,
  `NoneUnlisted`, `RestMakesWhole`). The effects of averages telescope to the change of the
  whole (`EffectIs`, `WholeEffect`). Distinct counts add up because the check of the first
  dimension found no overlap.
* *Drivers* (`TargetMet`). The primaries are a prefix of the ranked material segments that
  reaches the target, or the cap, or all that are supported (`ParetoReaches`). A first-level
  node keeps its path, share and support while the tree below it is drilled, and the
  drivers, once classified, stay.

Sums of sequences are defined by recursive functions. That such a function exists, and
what its values are, is proved from the library's fact that a nonempty set of naturals
has a least member: `Climb` in `Foundations` is induction over the members of a *set*,
which has no operator parameter. The days of the calendar and the cursor of a grid are
proved about in the same way.

The inductive invariants were checked by TLC before they were proved, on the instances
of the runs (`FilesInv` on `jobs`, `LoopInv` on `uploads`, `ReadyInv` on `serial`,
`IInv` on `investigations`, `AInv` on `analyst`, `RowsInv`, `RcaInv`,
`AuditInv`, `CountsInv`, `Reckoned` and `TargetMet` on `engines`); `BodyInv` and
`BuiltInv` quantify over functions or numbers TLC cannot enumerate. `WindowsInv` and
`SeriesInv` add to properties the runs check where the file in hand is.

**Only model-checked:**

* liveness (`UploadSettles`, `ProfilingSettles`, `QuestionEnds`): fairness and ENABLED
  are outside the prover;
* `TreeReconciles`, the same sums below the first level, where what is divided is the
  movement of a node and what is split its rows;
* `AdditiveRunsPass`, which needs `TreeReconciles` and the tolerances of the checks.

For these TLC evaluates the code's own algorithm on chosen files.

## 5. What is abstracted, and what is left out

File contents are a checksum, errors a branch, names, titles and payloads are
gone. The storage package is not in the repository; that an object is there
whole or not at all, and that delete may raise, is taken from its callers.
`update_dataset` edits a name and a description, which nothing modelled reads, but it
moves `datasets.updated_at`, which reuse is decided on: it is `EditDataset` in
`InvestigationLifecycle` and left out of `DatasetLifecycle`. Companies and
users scope reads and never change what is modelled. SQL connections are rows
with no lifecycle.

Not modelled:

* *Profiler, type inference, KPI heuristics*: one synchronous pass of SQL and
  floating-point scores over a file; nothing interleaves with it and its thresholds
  are its specification. The job takes any verdict.
* *KPI and structural validation*: a list of independent conditions on a profile and a
  definition; `create_definition` takes any verdict.
* *SQL parsing* (`sql_guard.check_sql` is `sqlglot` plus a list of names), connection
  strings and schema listing.
* *Rounding*: the engines' floats are exact fractions here. What depends on the last
  digit of a float (a ratio exactly at a threshold) is decided as in exact arithmetic.
* *Wording*: titles, explanations, prompts, redaction; the directions and percentages
  of `scoring.py`.
* *HTTP schemas, frontend, deployment files*: no state of their own.

## 6. Plan

What is left to prove is `TreeReconciles`, and from it `AdditiveRunsPass`. Beyond the
engines, a model of the profiler's type inference would say what its verdicts rest on; the
dataset model takes any.

## Running

    tlc -workers 2 -config MCDatasetLifecycle_jobs.cfg MCDatasetLifecycle
    tlapm InvestigationProofs.tla

The `Mutant:` operators in the modules are wrong versions of a definition, one
for each property, and are used by nothing: putting one in the place of the
definition after it makes the run report that property (`mutants` in
`PROJECT.json`).
