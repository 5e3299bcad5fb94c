# TLA+ project for the SQL security assistant (case3)

The program turns a request in natural language into PostgreSQL with a language
model, audits the SQL, and lets the model try again with the lessons of the
audit until the audit approves. A FastAPI service (`src/src/case3/infra/service.py`)
offers this to a browser page, with a dialog of clarifying questions, a live
stream of events, an audit trail, a sandbox on a demo database, timing forecasts
and feedback. Around it stand a dataset builder with its few-shot store, a
seeder and a measurement on PostgreSQL, and teaching notebooks.

## 1. Inventory

| Component | State it keeps | Operations | Talks to |
|---|---|---|---|
| Pipeline loop (`pipeline.py`, contracts in `baseline1.py`) | local to a run: texts, log, lessons, last audit | `run` | generator, auditor, reflector by calls; a listener by `on_event` |
| Generator (`nodes/generator.py`) | none | `generate`, `generate_or_clarify` | language model |
| Hybrid auditor (`nodes/auditor.py`, `audit/*`) | a cached schema catalogue | `audit`, `run_phase1` | three fail-safe checkers, language model as judge |
| Reflector (`nodes/reflector.py`) | none (the lessons go in and out) | `reflect` | - |
| Model clients (`llm/*`) | none | `make_llm`, `chat` | HTTP, or the mock |
| `/chat/stream` (`service.py:1907-1988`) | per request: callbacks of the loop, an `asyncio.Queue` | worker thread, response generator | pipeline in an executor thread, audit trail, client |
| Audit trail (`infra/events.py`), `/admin/stats` | `data/events.csv`, one process-wide lock | `log_event`, `read_events`, the figures | every request thread, admin page |
| Dialog (page script and `/chat`, `/feedback`) | in the page: task, history, single-flight guard, form; on disk: `clarifications.jsonl`, `feedback.jsonl` | start, answer, reset, live mode, rate; `chat`, `feedback` | browser and server by HTTP; the server keeps nothing between requests |
| Answer cards and panel (page script, `/predict-time`, `/run-sql`, `/timing/report`, `/admin/*`) | in the page: the cards of the last answer, credentials; on disk: `timing.jsonl` | forecast, sandbox, report, login, logout, load | browser and server by HTTP |
| Database sessions (`/run-sql`, `/predict-time`, `scripts/seed_db_generic.py`, `ex_eval.py`, `test_auditor_vs_db.py`) | one session each, `demo_db` | statements, commits, rollbacks | PostgreSQL |
| Instrumented run (`infra/runtime.py`, `metrics.py`, `tracing.py`) | counters under one lock each, global tracer | `run_instrumented`, `render` | pipeline, Langfuse |
| Embeddings and linker (`llm/embeddings.py`, `schema/*`) | a cache under a lock and its file | `embed`, `save_cache`, `rank`, `link_text` | Hugging Face over HTTP |
| Dataset and few-shot store (`dataset/*`, `retrieval/*`) | records, `data/dataset_v1.jsonl`, the store | build, split, write; load, rank | generator and judge prompts |
| Rehearsals (`scripts/demo.py`, `batching_demo.py`, `notebooks/`, `simulations/`) | local to a run | loops, judges, budgets, paging, batching | mock model |
| Knowledge base, NL validator, SQL features, database stub, deployment | - | pattern tables, a test double, configuration | - |

What is hard: the loop has three ways out and carries state from one iteration
to the next; the stream crosses from a thread to the event loop to a client
that may leave; the audit trail is shared by request threads and survives
crashes; the dialog and the cards live in the page while requests are under way,
and the server believes whatever it is sent; a rollback of one table undoes the
settings of all; a dataset is read while it is being written. `PROJECT.json`
lists each hazard at its line, with the properties that catch it. Three that
have no entry of their own: two first requests may each create a tracer
(`tracing.py:200`; both trace, `Telemetry` has the race); every call of
`/timing/report` creates its own lock (`service.py:2398`), so two reports at once
do not exclude each other (a line is short and written at once); and two
embeddings clients may share one file (`embeddings.py:192`, modelled, but nothing
better than "a cache" is promised).

What makes each component correct: the answer of the loop is its last attempt
with that attempt's verdict, prompts teach about the attempt just rejected, and
nothing harmful is approved; a stream shows everything in order and ends; the
trail has one header, keeps every written row, and readers and the panel account
for it; the dialog asks a bounded number of questions, and what is kept for
training belongs together; a report is about one statement; what a user or a
model has the database execute is undone, unless the text itself ends its transaction; every flaw in the dataset has its repair and nothing it
is measured on is shown; metrics are exact; a rehearsal shows what its text says.

## 2. Modules

| Module | Models | Correspondence |
|---|---|---|
| `Auditor` | the auditor and its checkers | Operators only. A statement is the set of patterns the checkers recognise in it (`marks`), its first keyword and the categories of the sensitive columns it selects. One operator per rule, with the risk the rule assigns; `RunPhase1(q, down)` concatenates them in the code's order, leaving out the checkers that fail in this call; `Audit` takes the worst risk against the threshold. |
| `Reflector` | `Reflector.reflect` | The dict is a sequence without repetitions that keeps the place of the first insertion; `LastN` is the slice. Recursion is a recursive function, so that the module can be proved about. |
| `Pipeline` | `SQLSecurityPipeline.run` | Variables are the locals of `run`; `StartIteration`, `GenerateSql`, `GenerateProse`, `AuditSql`, `Return` are its segments between calls of the language model; `GeneratorRaises`, `JudgeRaises` its exceptions. The model (external) returns any text of `Statements`. |
| `AuditLoop` | what the loop promises its caller | Attempts with verdicts, a limit, and an answer that is the last attempt. `Pipeline` refines it (`ImplementsAuditLoop`). |
| `ChatStream` | `/chat/stream` | `worker[r]` is the position in `worker_blocking`, `ready[r]` the callbacks of `call_soon_threadsafe`, `queue[r]` the queue, `client[r]` the response generator. The executor and the event loop are external, modelled from how the handler uses them. |
| `EventChannel` | what one client is promised | Items in the order of production, completion after the last. `ChatStream` refines one channel per request (`ImplementsEventChannel`). |
| `EventsLog` | `log_event`, `read_events` | One action per step that another thread, a failure or a crash can come between: lock, check, open, close, release. |
| `AdminStats` | the figures of `/admin/stats` | Operators over the rows a reader got: totals, users, verdicts, tables and findings, of the last `Limit` rows. `EventsLog` applies it to whatever a reader has. |
| `ChatDialog` | the page's dialog, `/chat`, `/feedback` | Variables of the page script by their names (`task`, `history`, `in_flight`, the form); actions are the click handlers, the continuation after `fetch`, and the branches of the handler. |
| `Console` | answer cards with their four requests, the panel | `card` is what the page shows (the box that opens the report block has its handler only once the forecast has settled), `forecast[a]`, `sandbox[a]`, `report[a]` the request for answer `a` and where it is; each handler of the page and of the server is an action. |
| `SafeSelect` | `_is_safe_select` | A text is a sequence of tokens: words, signs, comments and blanks, a space told apart from other blanks because the code looks for it. Comments, EXPLAIN, its options in parentheses and its bare words are taken off one after another; what remains is looked at where it begins. `Statement` and `Text` are the texts PostgreSQL reads: a first statement in any wrapping and whatever statements follow it. |
| `DbSessions` | the handlers' sessions, the seeder, the accuracy measurement, the auditor's check | A session is its transaction: whether it is open, what it has written, the role setting in force and the one a rollback returns to. A text of a user or of the model is a sequence of statements, executed one step each (`RunFirst`, `RunNext`, `EndOfText`; `RunPart`, `RunCandidate`); a COMMIT or ROLLBACK among them ends the transaction psycopg2 began. The locals of each program are a record, and each program may die between any two steps. |
| `Telemetry` | `run_instrumented`, the metrics, the tracer | `pc[r]` is the position in `run_instrumented`; every update of a metric is two steps between which another thread may come (`Enter`, `Leave`, under the metric's lock); `page` is the last metric `render` has read. A latency is the number of its first bucket. |
| `Linker` | what `SchemaLinker` computes | Operators only: `RankByMeaning`, `RankByWords`, `LinkText`. A token is a member of a set of words, a score an integer, a vector the text it was computed from; a column is a name, whether it is boilerplate, and the table it refers to. |
| `SchemaLinking` | `link_text` in several request threads over the embeddings client | `pc[r]` is the position in `link_text` and the calls it makes; a critical section without I/O is one step, `save_cache` is three (open, write, reset the flag and release). `file` is what the cache file parses to. The embeddings service is external: `Reply` and `FetchRaises` are what the client can get from it. |
| `Templates` | the templates of `dataset/generate_dataset.py` | Operators only: the classification of a table and the safe and vulnerable statements of each class. A statement is a record of words. |
| `Corpus` | both builders of the dataset, the file, the few-shot store | `pc` is the stage of the builder; taking a record, ending a class, splitting a class and flushing a block are actions; `ServeRun` is a run that opens the file as it then is. |
| `Skeleton` | generator prompts, `make_llm`, the mock | A prompt is the set of its block names; the mock looks for words that blocks contain. |
| `Judges`, `Batching` | the judges of the notebooks; `MockVLLMServer` | Operators on sets of fragments; queue, batch and window of a server with the requests that wait for it. |
| `Rehearsals` | the programs a newcomer runs | `program` says which one, `setup` how it was started, `stage` where it is. |
| `MCPipeline`, `MCChatStream`, `MCEventsLog`, `MCTelemetry`, `MCSchemaLinking`, `MCDbSessions`, `MCCorpus`, `MCRehearsals` | - | Values for TLC. `ChatDialog` and `Console` need none. |
| `PipelineProofs`, `ChatStreamProofs`, `RecordProofs` (of `EventsLog` and `Telemetry`), `PageProofs` (of `ChatDialog` and `Console`), `DbSessionsProofs`, `SchemaLinkingProofs`, `RehearsalsProofs` (with `Judges` and `Batching`), `CorpusProofs` (with `Templates`) | - | Theorems, see section 5. |

`Pipeline` extends `Auditor` and `Reflector`, so its run checks the three
together; `Skeleton` extends them too, and `Rehearsals` runs loop, auditor,
reflector, generator and mock in one; `EventsLog` extends `AdminStats`,
`DbSessions` extends `SafeSelect`, `Corpus` extends `Templates`.

### Abstractions

* Texts of prompts, recommendations and reports are left out; of a statement
  only what the patterns distinguish is kept. The sets of marks TLC and the
  proofs range over include combinations no text has, which only makes the
  theorems stronger. Risk scores are the code's whole numbers.
* Where parts of a program share no state, a behaviour follows one of them,
  chosen at the start: `tab` in `Console` (cards or panel), `scene` in
  `DbSessions` (seeder and measurement side by side, a handler, or the check of
  the auditor: the last two write nothing others see), `program` in
  `Rehearsals`. This leaves out no interleaving that could matter.
* In `EventsLog` a row is smaller than the file object's buffer, so that it
  reaches the file at `close`, whole or not at all. A torn line is not modelled.
  The container starts one uvicorn process (`src/Dockerfile`), so the lock
  excludes all writers.
* In `ChatStream` the pipeline is reduced to "up to `MaxEvents` events, then a
  return or an exception"; the optional warning before the stream is folded into `Open`.
* In `ChatDialog` a dialog's task is its number. Which of several input fields
  on the page is live is left open: any bubble may answer. The catalogue cards
  of the page and the score sent to Langfuse are not modelled.
* History variables: `overtaken` in `ChatDialog` (a dialog was replaced while a
  request was under way), `mixed` and `lost` in `Console` (a forecast came to
  another card; a reply was lost), `faulty` in `EventsLog` (a write failed),
  in `DbSessions` `ran` (what the handlers had executed), `eval.ended` (a text of
  the model ended its transaction), `eval.data` (the commits there were when the
  task's statement ran), `eval.same` and `eval.both` (how often the model's
  statement meant the same, and how often both gave rows). The properties that mention them say what holds otherwise, and
  section 6 what happens then.
* PostgreSQL is external: a transaction keeps or undoes all it wrote and all it
  SET. The handlers' `SET default_transaction_read_only` concerns later
  transactions, not the one it opens, so it is the final rollback that undoes
  what a statement did; a `WITH` may change data. Rows are not modelled, only
  which table has them. `/predict-time` leaves its session to the garbage
  collector on a failing path, modelled as closing it when the handler replies.
  In a text of several statements a statement only reads, changes data, sets the
  role, or begins, commits or rolls back a transaction. Rows that are equal by
  chance are a choice (`Results`): only a statement that means the same as the
  task's has the same rows for sure, as long as no data is written in between.
  A comment inside a comment is not among the texts; the guard looks for the
  first end, and refuses it.
* In `SchemaLinking` a file that two clients have written at the same time is what
  the last of them wrote, or does not parse; that two interleaved dumps parse to
  a third thing is left out. While a file is open for writing it does not parse.
  Tasks and the texts of tables are never blank.
* In `Corpus` the shuffle of a class is any choice of its eval records, and a
  block of the file's buffer is `Block` records; a reader may find the last line torn.
* In `Rehearsals` times are tenths of a second, a real client answers any
  statement of a small set, asks, or raises.

## 3. Runs

| Run | Result | What it shows |
|---|---|---|
| `Pipeline` | passes, about 56 000 states | Five iterations (the default) with any of eight kinds of answer each - clean, tolerated, exactly at the threshold, harmful in four ways, prose - and the fail-safe checkers up, one down, or all down. Two attempts already show every transfer of state between iterations; five with five classes of findings fill the window of five lessons. |
| `ChatStream` | passes, about 104 000 states | Two requests, one executor thread, two progress events each. One thread fewer than requests is what makes a run wait; two events are what can be reordered. |
| `EventsLog` | passes, about 77 000 states | Three writers, two readers, any failing open or close, one crash. Two writers race for the header, the third comes after them; one crash separates any two steps. The panel's limit is smaller than the number of rows, so that it cuts. |
| `ChatDialog` | passes, about 121 000 states | Two dialogs, histories of up to four turns when an answer is given, so that both rounds and a third attempt happen. Two dialogs are enough for a reply, a form or a stream to belong to another one. |
| `Console` | passes, about 92 000 states | Two answers whose cards replace each other, one sandbox run, two lines of the log, which is what a lost and a repeated report need; a panel with loads under way across logins and logouts. |
| `DbSessions` | passes, about 3 000 000 states | Five tables, one skipped, two that may refuse their rows, two that refer to others, with three tasks of three categories measured meanwhile, for which the model answers nothing, a statement that means the same or another one, a change, and three texts of several statements, two of which end their transaction. Requests of every wrapping the guard knows, with three kinds of blanks between, four first statements (two queries, a WITH without its space, a change) and nothing, a query, a committed change or a rolled-back transaction after them. Every kind of query of the check. |
| `Corpus` | passes, about 30 000 states | A catalogue of six tables of which two are left out, and one with none; seeds that load and seeds that fail; totals that cut the file and one that does not; two classes asked for or none; the file read at every block. |
| `Rehearsals` | passes, about 7 600 states | Seven environments (no key, half an environment, an empty or unreadable secret, a key, a tunnel), every scenario of the mock, a task that says what the mock takes for a lesson or not, six judges on all their statements, budgets of one to five iterations with the notebook's durations and with every one its jitter draws in tenths of a second, two pages of 1, 2, 5 and 8 of seven orders, servers whose load exceeds, fills and does not fill a batch. |
| `Telemetry` | passes, about 61 000 states | Two runs, one approved at once, one rejected with the same class twice, either may raise; any number of pages. Two threads are enough for a lost update, and a reader for a half-made one. |
| `SchemaLinking` | passes, about 116 000 states | Two requests for different tasks, two tables of which one fits into a prompt, `MaxCols = 2` with a foreign key past it, `MaxCrashes = 1`. Two requests are enough to create two clients, to see half of a batch, and to store during a save; words and meaning order the tables differently, so that the wrong ranking shows. |
| `EvolveStartsDirty` | violated | The mock answers clean at its first iteration because the generator's default hints contain the words it takes for a lesson (`llm/mock.py:97`). |
| `SeedRole` | violated | A first table that refuses its rows rolls back the setting that turns foreign keys off (`scripts/seed_db_generic.py:85`). |

`CHECK_DEADLOCK FALSE` everywhere: a run, a stream, a set of calls, a bounded
dialog, a build and a rehearsal all end.

What the properties say:

* `Pipeline`: `AnswerIsTheLastAttempt`, `RetryShowsTheRejectedAttempt`,
  `PromptTeaches`, `HarmfulNeverApproved`, `EventsTellTheLog`, `Terminates`,
  and the refinement of `AuditLoop`.
* `ChatStream`: `StreamTellsTheRun` (nothing lost or overtaken, a closed stream
  complete with one outcome, the trail before the answer), `StreamsAndRunsEnd`,
  and the refinement of `EventChannel`.
* `EventsLog`: `TrailIsWhole` (one header in front, each row once, what was
  written stays, what was given up is not there), `ReadersMissNothing`,
  `PanelTellsTheTrail`, `CallsReturn`.
* `ChatDialog`: `AsksAtMostTwice`, `DialogsAreWhole`, `FeedbackIsAboutItsTask`, `GuardIsReleased`.
* `Console`: `ReportsTellTheirCard` (a line of the log pairs text, forecast and
  time of one statement, and no card has two lines), `StatsNeedLogin`, `ButtonsComeBack`.
* `DbSessions`: `SeededUnlessUnfit` (what the seeder counts as filled is what is
  there, and only unfit tables are left out after the first commit),
  `OthersAreRolledBack` (no write, no setting and no session of a user's, a
  model's or the check's statements outlives them, but for texts that end their
  transaction themselves), `FirstStatementDecides` (the first statement, however
  wrapped, and nothing after it), `MeasuresAccuracy` (every statement that means
  the same is counted, none without rows; equal rows by chance are).
* `Corpus`: `FlawsHaveTwins`, `EvaluationIsFair`, `CoverageIsEven` (the first
  records cover the most tables; the safe seeds, which come first, excepted),
  `ClosestAreShown`.
* `Rehearsals`: `LessonsAreLearned`, `FreshCloneAnswers`, `NotebooksKeepTheirWord`
  (judges, budgets, paging), `NobodyIsLost` (batching), `EveryRehearsalEnds`.
* `Telemetry`: `MetricsAreExact`, `CountedIffReturned`.
* `SchemaLinking`: `CacheIsTrue`, `BestSchemaIsLinked`, `LinksEnd`.

A property that is a conjunction of named parts includes the module's `TypeOK`.
Every property of a passing run has a mutant in `PROJECT.json`: a variant of a
definition, kept in the module beside it, that stands for a plausible bug and
violates the property (a limit off by one, a lock not taken, a guard taken back
on some paths only, a sentinel put into the queue past the event loop, a worker
that waits for its client, a role restored by every commit, a twin deduplicated
with the rest, an index over all splits, a batch closed only when full, ...).

## 4. Fairness

* `Pipeline`: weak fairness of `Next`. The clients of the language model pass a
  timeout to the HTTP library, so each call returns or raises.
* `ChatStream`: weak fairness of the executor, of each worker, of the loop's
  callbacks and of each response generator, none of clients coming or leaving.
  Workers end because runs do (`Terminates`); loop and executor are FIFO.
* `EventsLog`: weak fairness of each call, a lock being given to one waiting
  thread at a time; none of crashes. In the model no thread can come back to
  the lock, so weak fairness is enough.
* `Telemetry`: weak fairness of each run that has begun; none of requests or of
  Prometheus. Its two properties are invariants and do not need it.
* `SchemaLinking`: weak fairness of each request; the request to the embeddings
  service has a timeout (`embeddings.py:170`), and a request takes each lock only
  finitely often. None of crashes.
* `ChatDialog`, `Console`: the server answers what arrives and `fetch` settles;
  the user may stop at any time.
* `Rehearsals`: weak fairness of `Next`. The programs are single-threaded, or
  one event loop, and are run to their end.
* `DbSessions`, `Corpus`: none, only safety is stated; a program may die or the
  build may stop at any step.

## 5. Proofs

The theorems hold for every value of the constants, under the assumptions named
in the modules. None is about a finite instance: not the
numbers of requests, threads, runs, tables, readers or crashes, nor the length of a
history, a log or a list of findings.

The assumptions give types and little more:

* The lists of tables and queries in `DbSessions` (`ListsAssumption`), the
  catalogue of `Linker` (`LinkerAssumption`), the catalogues of `Corpus` and its
  seeds are sequences; the bounds are naturals (`TargetsAssumption`,
  `LimitsAssumption`, `BatchingAssumption` and the like).
* The requests of `DbSessions` (`RequestsAssumption`) are texts PostgreSQL can
  read: any comments and blanks, a first statement with or without EXPLAIN and
  its options or bare words, and any sequence of statements after it. The first
  statement begins with none of the words and signs that wrap it. What the model
  may answer (`CandidatesAssumption`) is any sequence of statements.
* `Rounds` and `PageSizes` of `Rehearsals` are any positive numbers.
* The requests of `SchemaLinking` are finitely many, because clients are
  numbered; its tables and tasks are different texts, and no vector is "no
  vector"; a boost and a cosine are integers and a task has finitely many words
  (`ScoresAssumption`); a table's columns have different names (`ColumnsAssumption`).
* A question put to the few-shot store has finitely many words
  (`QueriesAssumption`), and no seed's repair is its flaw (`SeedsAssumption`).
* A catalogue of `Corpus` lists tables of different names, none of them the name
  of a synthetic table, and the columns of a table under different names
  (`CatalogsAssumption`), as PostgreSQL demands of what the catalogue describes;
  `data/schema_catalog.json` does.

* `PipelineProofs!ReflectTeaches`: what `Reflect` returns. The dict's steps are
  a recursive function; what holds of each step is proved from the smallest
  number for which it would fail (`InductionUpTo`, which states induction over
  an initial segment of the naturals as a fact about a *set* of numbers).
* `PipelineProofs!HarmIsFound`: every harmful statement has a finding of at least
  the threshold among the rules, so no outage of the checkers can hide it.
* `PipelineProofs!Inductive`: the invariant
  `IInv == TypeOK /\ Position /\ LogAndHistory /\ Verdicts /\ LessonsLearnt /\
  RetryShowsTheRejectedAttempt /\ PromptTeaches /\ ResultInv`.
  The safety properties speak of the moment a prompt was made or the result
  returned, and are not inductive: that the newest text of the history and
  `last_audit` belong together is only known from where `run` stands.
  `Position` relates `pc`, `it` and the lengths of history and log;
  `LogAndHistory` says that the log's texts are the history's and the last entry
  is `last_sql`, `last_audit`; `Verdicts` that every logged verdict is an audit
  of its text in some outage, or the made-up one for prose, and all but the last
  are rejections; `LessonsLearnt` is `PromptTeaches` for the lessons not yet in a prompt.
  `TypeCorrect`, `AnswerCorrect`, `RetryCorrect`,
  `AlwaysTeaches` and `HarmlessAnswers` follow, the last by `HarmIsFound`.
  `EventsCorrect` is a second induction on top of the first (`Told`): a step that
  emits the closing event of an iteration is the one that logs it.
* `PipelineProofs!Implements`: every step is a step of `AuditLoop` or a stutter,
  under `Tried`, `StatusNow` and the result.
* `RecordProofs!Inductive`: `IInv` adds to the properties what makes them
  inductive: `Locked` (who is between acquire and release is the one holder),
  `FileKnown` (what a call has found out about the file before opening it is
  still true when it writes, which needs the lock), `Rows` (a row is in the file
  exactly from the close on), `Headed` (while nothing fails, a file without a
  line belongs to a call that is about to write the header) and `Waiting` (what
  a reader is owed stays written until it gets the lock). `TrailCorrect` and
  `ReadersCorrect` follow. `PanelCorrect` needs no other invariant, only counting:
  the rows a reader got have every call it is owed at a place of its own, so a
  figure that counts places is at least as large as one that counts calls.
* `ChatStreamProofs!Inductive`: what a client was sent, what is queued and what
  is still a callback, one after the other, is what the worker emitted
  (`Whole`); where the worker stands tells what it has emitted: progress, one
  outcome, the sentinel (`Content`); the trail is dealt with between the run and
  its outcome (`Logged`); the executor's queue and pool (`Queued`, `Pool`, the
  latter for any number of requests because only those with a thread are
  counted). `StreamCorrect` follows, and `Implements`: every step is for each
  request a step of `EventChannel` or a stutter, a frame that is emitted being
  `Produce`, one that is taken `Show`.
* `PageProofs!Inductive`: `Rounds` counts the questions in the history
  together with the one a reply under way may add, which is what bounds them
  when a request is sent again; `Page` relates the guard, the request, the form
  and the history on the page; `Ratings` the stored pairs. `AsksCorrect`,
  `DialogsCorrect` and `FeedbackCorrect` follow.
* `RecordProofs!TelemetryInductive`: a counter has a one for each update made and who
  is inside has read what is still there (`Counted`); a histogram has the update
  being made in its buckets already and in its count not yet (`Observed`), so it
  is whole only when its lock is free, which is when a page reads it; one run at
  a time is inside a metric, with the update it has come to (`Locks`); where a
  run is tells how far it has counted (`Position`). `MetricsCorrect` and
  `CountedCorrect` follow.
* `PageProofs!ConsoleInductive`: what is shown or sent for an answer is about an
  answer that was shown (`OfShownAnswers`); until two statements are mixed, a
  card and a report under way tell of one (`OneStatement`); a report is under
  way only while its button is not free, and an answer with a line is not
  reported again unless a reply was lost (`OneReport`); the loads under way on
  the panel carry the credentials in use, or wrong ones that were dropped
  (`PanelInv`). `CardsAreReported` and `StatisticsNeedLogin` follow.
* `DbSessionsProofs!StepIInv`: what the seeder counts is what it committed, and
  what else is in `demo_db` was committed by a text that ended its transaction
  (`CommitsAreSeeded`); a session of measurement or check has no write, and only
  after such a text a setting, when no statement is being executed
  (`ReadersLeaveNothing`); a session of a handler is open only between its
  connection and its reply, for a text that was accepted (`HandlerInv`); the
  seeder's role is the one it set, and committed with the first table, or was
  lost to a refused table before any was filled (`SeederInv`, the reason of the
  finding `SeedRole`); the counters of the accuracy bound each other while a
  task is in hand (`Counted`). `OthersAreAlwaysRolledBack`,
  `TablesAreSeededUnlessUnfit`, `FirstStatementAlwaysDecides` and
  `AccuracyIsMeasured` follow, the third by `FirstStatementIsRead`, which says of
  every text, whatever is around its first statement and after it, that
  `_is_safe_select` accepts it exactly if that statement is a query (with its
  space, for a WITH), as long as EXPLAIN's bare words are followed by a space.
* `SchemaLinkingProofs!Inductive`: a client in use has been created, and there
  are no more of them than requests past their creation (`Owned`, which is what
  keeps their numbers in `Clients`); a client's lock is held by the one request
  that saves its cache (`Locked`); what is left to store is paired with its own
  table (`Paired`); as long as there is one client its saves do not clash, its
  cache is dirty while it is written, and the file is the cache when it has
  been (`Saved`); a request that found the tables warm never asks for them
  (`Spared`). `CacheCorrect` follows. What `Keep` keeps of a sequence, whatever
  its length, is proved as for the reflector's dict.

* `SchemaLinkingProofs!BestIsLinked`: `Outstanding` adds to the invariant above
  what a request waits for: a table whose vector is not found is missing or about
  to be stored, unless the service left it out; so a linker that ranks by meaning
  has them all. The places of the sorted tables are numbered one to one
  (`Numbered`), hence the first `K` are the best whatever the scores; `Keep`
  keeps the places asked for, in order and once each (`KeptUpTo`), hence a block
  shows the first columns and every key.
* `RehearsalsProofs` has one inductive invariant per program. `BatchingInv` is an
  account of each server: a request put is in its queue, in its batch or
  answered, and in one of them only; a batch is never larger than the server
  allows, and what a server counted is what it answered (`ServersLoseNobody`).
  `CloneInv` needs little more than that the mock, which a program without a key
  talks to, never raises (`FreshClonesAnswer`). `BudgetInv` gives the seconds spent in closed form
  (`SecondsAt`), which shows that what is left is enough for the last node
  (`BudgetIsAlwaysKept`), whatever the number of iterations: a run the budget
  stops never reaches it, and the one that does has spent little enough;
  `PagesInv` says that the pages so far are the newest orders down to some id
  (`PagesAlwaysFollow`). `ExamInv` says that every
  verdict given by a judge the notebook praises is the truth, from what each
  judge finds in each statement of its list (`NotebooksAreRight`). `LoopInv`
  follows the two ways a loop may go, one whose generator reads the lessons
  (`Listening`) and one whose generator does not (`Deaf`), and gives
  `LessonsAreAlwaysLearned`.
* `CorpusProofs!FlawsAlwaysHaveTwins`: no template of any class has a bad version
  that is its good one, whatever the table (the lemmas on `Proper`), so a pair that is taken
  brings two records, side by side (`Twinned`); their number is new
  (`NumberedIn`), no statement is there twice (`Distinct`), and a cut keeps a
  prefix. Both builders are covered.
* `CorpusProofs!EvaluationIsAlwaysFair`: the file is a prefix of the records
  (`FileInv`), the store takes the train records only (`ShownInv`), a statement of
  the eval split is no other record's (`Distinct`), and each class is balanced
  once it was split (`BalanceInv`).
* `CorpusProofs!ClosestAreAlwaysShown`: the ranking is a stable insertion sort.
  Comparing fractions without dividing is transitive because no denominator
  is 0; inserting keeps the order and the order among equals; what passes the
  filter is a subsequence of the first `K`. An action property, for every file.
* `CorpusProofs!CoverageIsAlwaysEven`: the safe records are filled in the order
  of the pool (`FillInv`), and what precedes a statement in the pool is in the
  dataset before it, so that the cut of `--n` cannot take the earlier one.
  `gen_safe` puts the first templates of all tables before the second ones
  (`InRounds`, from the places of elements in a flattened sequence, `Placed`);
  and a statement is one template of one table: the templates of a table differ
  in the shape of their parts (`KindOf`), and tables in their names
  (`TemplatesApart`). The statements of the manual seeds come first and may be
  any; the property leaves them out.

There is one lemma per action (or per group of actions that touch the same
part), and one lemma for what a group of steps leaves alone.

Every invariant and action property that a passing run checks has a theorem, and so
have both refinements. Only model-checked: the liveness properties (`Terminates`,
`StreamsAndRunsEnd`, `CallsReturn`, `GuardIsReleased`, `ButtonsComeBack`,
`LinksEnd`, `EveryRehearsalEnds`) and the conditions on fairness, since
liveness and ENABLED are out of the prover's reach. Induction over data is
needed in many places (flattening, sorting, `Keep`, the dict of lessons); it is
done over an initial segment of the naturals by `InductionUpTo`, for the
recursive *functions* of these modules, after showing that a function with the
recursive equation exists (`FlattenUnfolds`, `SortingExists`).

## 6. Findings

Two disagreements between the code and what it says of itself have a run of
their own: `EvolveStartsDirty` and `SeedRole` (section 3).

Others are stated beside the properties of their modules; each of these is
false of the model, and TLC finds the counterexample when it is given to the
module's run as an invariant:

| Definition | Source | What happens |
|---|---|---|
| `Pipeline!ApprovedHasNoVulnerabilities` | `baseline1.py:33` | An approved audit lists tolerated findings; the contract says the list is empty. |
| `Pipeline!WindowKeepsTheLatest` | `nodes/reflector.py:106` | A class found again keeps its old place in the dict, and is evicted before lessons that are older. |
| `EventsLog!ReadsAllEvents` | `infra/events.py:67`, `:98` | After a first write that fails the file exists without a header, never gets one, and a reader takes its first row for the header. |
| `ChatDialog!RoundsAreBounded` | `service.py:1736` | Rounds with an empty question are put into the history and not counted. |
| `ChatDialog!HistoryIsOfTheTask` | `service.py:1749-1751` | A reply for the previous dialog is put into the next one's history. |
| `Telemetry!TracingIsHarmless` | `infra/tracing.py:143` | An exception of the tracing SDK ends a run before the pipeline begins. |
| `Console!PairsAreOfOneStatement` | `service.py:2225-2226` | A forecast that comes after its card was replaced is written into the next card, and the report pairs it with another statement's time. |

What `DbSessions` and `SafeSelect` show of the sandbox and the measurement, and
the properties of their run therefore allow:

* `_is_safe_select` reads the beginning of a text only (`service.py:2095-2131`),
  while psycopg2 executes all of its statements (`:2184`, `:2324`). The comments
  say "только SELECT/WITH" (`:2074-2077`) and "safe, not executed" of
  `/predict-time`; this holds of the first statement. A text that ends its
  transaction itself is committed before the closing rollback, in `ex_eval.py`
  (`:163-164`) too. `OthersAreRolledBack` and `FirstStatementDecides` say
  exactly what remains.
* A WITH needs a space behind it, so `WITH` at the end of a line is refused
  (`:2131`); EXPLAIN's bare words are cut up to the next space, over the end of a
  line (`:2125-2129`), so `EXPLAIN ANALYZE` and a newline before the statement
  loses the statement's first word, too.
* `ex_eval.py` compares rows (`:198-203`), so a statement that means something
  else and has the same rows on the seeded data is counted as correct.

Smaller ones, met on the way: `/run-sql` refuses `EXPLAIN (FORMAT JSON) DELETE`
although the text of the refusal advises it (`service.py:2147-2148`), and
`EXPLAIN FORMAT JSON` without parentheses although a comment allows it
(`:2124`). The budget notebook speaks of 40 seconds, its code has 45.0
(`build_part5.py:276`, `:367`). `build_part3.py:407` says that a finding at the
threshold of 4.0 alone is let through; the auditor approves below it only
(`nodes/auditor.py:370`). `--n` can cut a pair of the dataset in two. `build_dataset.py` writes a
statement both as a record of its own and as the repair of another, so that
train and eval can share it (against `docs/adr/0012`, lines 79-80, and
`retrieval/fewshot.py:20`). Both builders write `data/dataset_v1.jsonl`, whichever ran
last. The instruction of `generate_or_clarify` speaks of a reflection
lesson, which the mock takes for one, too (`nodes/generator.py:201`).

## 7. Not modelled, and the plan

Not modelled:

* `/audit` and `/audit-sql`: one pass through the pipeline or the auditor and
  one row of the trail, no state of their own.
* The knowledge base, the NL validator and the SQL features: stateless pattern
  tables whose result is displayed or fed to a regression. The database stub: a
  test double nothing constructs. Deployment: configuration.
* `build_part1.py`, `build_helpers.py`, the fine-tuning and statistics cells and
  the charts of the notebooks: they compute figures to be looked at.
* The stratified split of the fine-tuning notebook, `link_dict` and the closure over
  foreign keys, which the service never turns on.
* Floating-point scores themselves (the linker's are integers here, the few-shot
  store only sorts by them), regular expressions and SQL parsing themselves.
* The catalogue cards of the page and the Langfuse score of a rating.

Left to do: a specification of its own for the server of `Batching`, apart from
`Rehearsals`, that the account in `BatchingInv` would be stated in; an abstract
specification of the dataset (pairs in, train and eval out) that `Corpus` implements;
and the closure over foreign keys as an operator of `Linker`, once a caller turns it on.
