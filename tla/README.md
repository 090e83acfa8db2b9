# BaizeFinDB: TLA+ models of the radar, its pushes and its operation

BaizeFinDB collects Chinese market data from providers, derives *radar
signals* from the latest snapshots every five minutes, reviews each signal
before it may leave the system, and pushes the latest scan to Telegram chats
and into standard reports.  The backend is one asyncio program over one
PostgreSQL database, executed by several processes at once: Celery workers
(`backend/app/tasks/celery_app.py`), the FastAPI server and command-line
scripts.  There is no lock, no `SELECT ... FOR UPDATE`, no isolation level
other than the default READ COMMITTED, and hardly a unique constraint:
correctness rests on the order of reads, flushes and commits.  Around it,
scripts under `infra/scripts` alert, back up, restore and accept a server, with
files where the backend has tables.  That order of steps is what this project
models.

`PROJECT.json` lists the components, the runs, the source lines behind every
definition, the hazards and the theorems.  Every name below is a definition of
a module or of the source.

## 1. Inventory

| Component | State it keeps | Operations | Hard behaviour | What makes it correct |
|---|---|---|---|---|
| Telegram push (`telegram/push_service.py`, `client.py`) | `push_logs`; the messages in the chats | `send_latest_radar_push` | overlapping runs, crash between sending and committing, lost answers, retries of the whole task | no message repeated once a success is recorded; logs that are true; review before sending |
| Reports (`reports/service.py`) | `reports` | of a push, of a user, daily, weekly | check then insert without a constraint; a commit hidden in the review it calls; three tables read one after the other | no report without its push or of a blocked signal; periodic figures that never go back |
| Review and share (`governance/`) | `radar_signals.review_status`, `radar_signal_reviews` | `review_radar_signal`, previews | commits the caller's session; re-review at any time; reads around a commit | blocked signals stay inside; no term is hidden by a separator or a negation |
| Radar scan (`radar/service.py`, `rules.py`) | `radar_scan_batches`, `radar_signals`, `signal_evidences` | `run_radar_scan`, overview, list, brief | two transactions per batch, overlapping scans, failure paths, history read inside the scan, an ambiguous commit | signals appear with their outcome; a stage and a count say what the stored rows say |
| Celery tasks | the broker's messages | collect, scan and push in one task | late acknowledgement, retries of the whole chain, processes that die with or without their worker | bounded repetition; no tick is forgotten; what ended was pushed |
| Providers (`providers/`) | `provider_fetch_logs`, `market_snapshots`, `data_quality_checks` | collections, readiness view | one endpoint of several failing; snapshots read while written | an attempt is there whole or not at all; old data is marked old |
| Users, holdings, watchlist (`portfolio/`) | `users`, `portfolio_holdings`, `watchlist_items` | create, update, delete | unique-key races, rows deleted between two statements | one row per key; a request changes its own row and the columns it names |
| Telegram access (`binding_service.py`, `telegram/service.py`) | `telegram_bindings` | bind, patch, authorize, recipients | open mode closes with the first binding; authorization read in two statements | messages go to chats that were authorized at a moment of the request |
| Scores (`scores/`) | `score_records` | `generate_signal_scores` | upsert by select then insert; only changed columns are written | records of one run; better evidence never scores lower |
| Model drafts (`ai/`, `audit/`) | `model_call_logs` | draft, fallback, log | failing provider, unusable or unsafe content | every reply names the log that says why |
| Settings (`settings/service.py`) | the `.env` file, process environments, cached settings | read, validate, rewrite | three copies of a value; edits by hand | saved values are in force, other keys survive |
| Operations views (`ops/service.py`) | none | overview, readiness, history, trends | several statements while rows arrive | a verdict of ready has missed nothing |
| Alert scripts (`server_alert_*.py`, monitor) | payload, dedupe state | build, deduplicate, send | refusals by some chats, a crash while the state is written | trouble reaches every chat, and not again within the window |
| Backup scripts (`postgres_*.py`) | a directory of dumps | backup, retention, restore | each without a lock beside the others | retention takes old backups only; a restore that ends well is whole |
| Preflight and acceptance (`server_deploy_check.py`, `server_delivery_acceptance.py`) | an evidence directory | checks, stages | helpers that die, evidence left over from an earlier run | an exit of 0 rests on fresh evidence of a server in order |

How they interact: the Celery chain calls collection, then the scan, then the
push, in one session.  The push reads the batch the scan wrote, calls the
review for each signal, the user lookup for each recipient, and the report
service for each delivered P0 signal.  All of them share the caller's
`AsyncSession`, so a `commit()` in a helper publishes whatever its callers have
flushed.  Readers (overview, previews, briefs, reports, operations views) see
commits between any two of their statements.  The scripts share files.

## 2. Modules

### The push, the scan and their promises

| Module | What it is |
|---|---|
| `TelegramPush` | `send_latest_radar_push` as several runs execute it: the review of each signal, the recipients, user creation, duplicate check, sending, push log, P0 reports, final commit, interruption and retry. |
| `PushLedger` | The abstract promise of the push: a chat is sent the newest scan, again only as long as no success is on record; a report never precedes its push. |
| `RadarScan` | `run_radar_scan` as several workers execute it: both transactions, candidates and their continuity, both exception handlers, process death, commits whose answer is lost or whose outcome comes late. |
| `ScanBoard` | The abstract promise of the scan to its readers: outcome and signals appear in one step, once. |
| `TelegramPushProofs`, `RadarScanProofs` | Theorems about them with their proofs (section 5). |

### Signals and what is made of them

| Module | What it is |
|---|---|
| `SignalRules` | From a row of a snapshot to a candidate: sector, risk and sentiment rules, keyword lists, sorting and the limit of a scan, adjustment of the stage. |
| `SubjectLifecycle` | One subject over any series of scans, its stage depending on the previous signal. |
| `RadarView` | The readers (latest scan, overview, list) between opening and ending scans. |
| `ReviewRules` | The verdict on a signal and its evidences, the scope of the review route, the matcher of forbidden language, the gate and labels of a share preview. |
| `SignalGovernance` | Previews and research briefs of a signal (risk flags, gate, next actions, agents), read statement by statement while reviews commit. |
| `ReportBook` | Reports of users, and daily and weekly reports, over growing tables; transactions are dated at their begin and seen at their commit, local days are shifted against UTC. |
| `ScoreRules`, `ScoreRecords` | The composite score; score runs that overlap, with row locks, the unique key and writes of changed columns only, and reviews of the signal between them. |
| `ModelDraft` | Provider settings and readiness, call, fallback, sanitizing, audit rows. |
| `SignalProofs` | Theorems about `ScoreRecords`, `ReportBook`, `SubjectLifecycle`, `ModelDraft`, `RadarView` and `SignalGovernance` (section 5). |

### Collection, pipeline, operation

| Module | What it is |
|---|---|
| `ProviderRules` | Quality and confidence of an attempt, validation of queries, eligibility and the readiness view. |
| `ProviderCollection` | Collections endpoint by endpoint, what a scan and a status view read meanwhile, interruption and retry. |
| `RadarPipeline` | The beat, the queue and the workers; collection, scan and push as the others see them; retries, tasks lost with a process of the pool, redelivery to a worker that died as a whole. |
| `OpsViews` | Overview with alerts, readiness, failure summary, history and trend buckets, each read statement by statement. |
| `ProviderCollectionProofs`, `RadarPipelineProofs` | Theorems about the two (section 5). |

`RadarPipeline` composes the views of the three services: a collection either
replaces its data or not, a scan is an opened and an ended batch (what
`ScanBoard` promises), a push offers the latest batch to the chat (what
`PushLedger` promises).  Inside, the three are `ProviderCollection`,
`RadarScan` and `TelegramPush`.

### Accounts and servers

| Module | What it is |
|---|---|
| `PortfolioItems` | Requests on holdings and the watchlist as chains of statements, the lookup or creation of their user included. |
| `TelegramAccess` | Bindings, allowlist, open mode, authorization, recipients and answers, statement by statement. |
| `SettingsEnv` | The `.env` file, the environments and caches of processes, saves, hand edits, restarts; one file for all or one per container. |
| `RuntimeAlerts` | From samples of the API to the report, the alert payload and its dedupe key. |
| `AlertDelivery` | Runs of the alert sender over payload, dedupe state and its temporary file as inodes; the service verifier. |
| `BackupFiles` | Dumps to the name of the second or over any name or link, retention sweeps and restores over a directory of names, links and inodes. |
| `DeployCheck` | The preflight of a server and its verdict. |
| `DeliveryAcceptance` | The stages of acceptances, each a helper that writes evidence the acceptance reads back. |
| `PortfolioItemsProofs` | Theorems about `PortfolioItems` (section 5). |
| `AdministrationProofs` | Theorems about `TelegramAccess` and `SettingsEnv` (section 5). |
| `ServerScriptsProofs` | Theorems about `AlertDelivery` and `BackupFiles` (section 5). |

### Model-checking modules

`MCTelegramPush` gives the push its signals and scans; `RadarScan` and
`RadarPipeline` have configurations of their own.  The others are checked in
*sums*: `MCSignals`, `MCOperation`, `MCServer` and `MCProgress` `INSTANCE`
several components, each several times where it has several questions, all over
the registers `v1, v2, ...` of `Registers`.  A behaviour chooses its `component`
at the beginning and is that component alone for ever, so a sum checks exactly
the union of its parts, and a property reads "in a behaviour of this component,
...".  `MCRules` does the same for the pure rules: each of `MCProviderRules`,
`MCReviewRules`, `MCSignalRules`, `MCScoreRules`, `MCRuntimeAlerts` and
`MCDeployCheck` (with the servers that differ from the good one in one or two
respects) evaluates its operators on every request of its bounded inputs.  A
configuration names its `Components`; leaving some out checks the others.

A component whose module the sum `EXTENDS` is a *host* of it: it has its own
variables and constants, and a property of the host in the run is the very
definition that a theorem states.  The hosts are `RadarScan` and
`ModelDraft` in `MCSignals`, `ProviderCollection` and `BackupFiles` in `MCOperation`,
`ScoreRecords` and `SubjectLifecycle` in `MCRules`,
`TelegramAccess`, `AlertDelivery` and `SettingsEnv` in `MCServer` and `PortfolioItems` in
`MCProgress`; a behaviour of another component leaves the host's variables as
they were at first, and the
sum's own initial states, steps and fairness are `SumInit`, `SumNext` and
`SumFairSpec`.

`RadarPipeline` has one variable that no step changes: `up`, the worker
processes there are.  Celery starts one for each processor, so the number is a
property of the machine, and the runs and the theorem cover every one.

### TelegramPush and its source

One action is what a run does between two awaits that matter.  `task[r]` holds
the coroutine's local variables; `pending[r]` its session's flushed rows;
`pushLogs`, `reports`, `users` and `reviewStatus` are committed tables; `inbox`
is what each chat has received.

| Action | Code |
|---|---|
| `ReturnEmpty`, `Begin` | `send_latest_radar_push` up to the scan: push enabled, recipients, latest batch |
| `ReviewSignal` | one iteration of `_review_signals`; `review_radar_signal` **commits** |
| `ComposeMessage` | `_included_push_signals` and the early return |
| `NextRecipient`, `CreateUser` | `get_or_create_user`: SELECT, then INSERT and **commit**, or IntegrityError |
| `CheckDuplicate` | `_existing_successful_push_log` |
| `SendMessage` | the network call; `PossibleAnswer` says what Telegram may answer and deliver |
| `RecordPush` | `session.add(push_log)`, `flush` |
| `EnsureReport`, `ReviewForReport`, `AddReport` | `ensure_signal_report(commit=False)`; its review **commits** |
| `RecipientDone`, `Finish` | the end of the loop and the final commit |
| `Interrupt`, `Retry` | any exception or process death, after which the attempt has failed or the task is lost; Celery's `autoretry_for` and `acks_late` for the runs it has `Scheduled` |

Abstractions: a message is its scan and its signals; the verdict of a signal is
a constant (`Verdict`) because a signal's evidence never changes after its
batch is committed; the texts, counts and blocked ids are left out.  A scan is
numbered by its rank in the order `started_at, id` that
`get_latest_radar_scan` uses.  The runs with a bot token are `Configured`; the
others deliver a preview.

### RadarScan and its source

`batch` and `signals` are committed tables, `pending[w]` the flushed signals of
the second transaction.

| Action | Code |
|---|---|
| `StartScan`, `OpenBatch` | `started_at`, then the batch inserted and committed as running |
| `LoadSources` | snapshots, qualities, `_build_signal_candidates`; its first SELECT fixes `created_at` of all signals of the scan |
| `AddCandidate` | one iteration of the loop: `_candidate_continuity` over the visible history, `_new_signal`, flush |
| `CommitScan`, `ReloadScan` | final status and signals in one commit; `get_radar_scan` |
| `OpenAnswerLost` | the first commit is applied but fails for the client, outside the `try`: the batch stays running |
| `CommitAnswerLost`, `CommitAnswerLate`, `Lands`, `Drops` | the second commit fails for the client: already applied, or still undecided on the server |
| `DatabaseError`, `CheckStillRunning`, `MarkFailure` | `except SQLAlchemyError`: `_best_effort_record_scan_failure`, read and write apart |
| `OtherError`, `RecordScanFailure` | `except Exception`: `_record_scan_failure`, then the reload |
| `Lose` | process death, or an exception while the failure is being recorded |

Abstractions: the market data are any list of candidates in the order
`_candidate_sort_key` allows, the same subject twice included, since the code
does not deduplicate rows; the lifecycle stage, metrics and evidences carry no
control and are left out; the sequence of signal ids advances on rollback.

## 3. What the runs check

The push and scan runs check deadlock; the only resting states are those of
`Quiescent`.  `pipeline` and the sum runs say `CHECK_DEADLOCK FALSE`, because their
components come to rest when their bounds are used up.

| Run | Question | Properties (all hold, except in the last three) |
|---|---|---|
| `push_concurrent` | Do two overlapping runs with an interruption and a retry keep every committed row and every message justified? | `TypeOK`, `NoReportWithoutPush`, `NothingUnreviewedLeaves`, `LogsMatchDeliveries` |
| `push_serial` | Does the duplicate check suffice when runs do not overlap, with crashes, lost answers and foreign user creation? | `RepeatsOnlyUnrecorded`, `ImplementsLedger` |
| `scan_concurrent` | Do overlapping scans with exceptions of both kinds, lost answers of either commit, late commits and a process death keep outcome and signals together? | `TypeOK`, `OutcomesAreSound`, `RunningHasWorker`, `QuickHasEvidence`, `ImplementsBoard` |
| `rules` | Are the pure rules monotone, without gaps, and consistent with one another, do overlapping score runs leave records of one run, and what does any series of scans make of a subject? | `ReviewIsStrict`, `ReadinessIsCoherent`, `CandidatesAreRanked`, `ScoresFollowEvidence`, `TroubleIsAlerted`, `PassedIsSound`, `RecordsOfOneRun`, `SubjectsDevelop` |
| `signals` | What becomes of a signal: counts over scans, readers, reviews, reports, scores, drafts? | `CountsAreTrue`, `ReadersAgree`, `GatesAgree`, `ReportsAgree`, `DraftsAreAudited`, `FiguresMoveOneWay` |
| `pipeline` | What do retries and a restarted worker repeat, what is lost with a process, and is the newest scan offered, with one process and with two? | `PushesFollowScans` |
| `operation` | Do collections, backups and the operations views stay coherent under overlap, retries, kills, links and growing tables? | `CollectionsAreWhole`, `ViewsAgree`, `BackupsHold` |
| `server` | Do permissions, rows, settings, alerts and acceptances keep their promises when their requests and runs overlap, fail and die? | `AccessIsGuarded`, `SettingsHold`, `AlertsAreTrue`, `AcceptedIsSound`, `OnlyNamedThingsChange`, `RecordedStays` |
| `progress` | Does what was started end or was it lost with its process, does an alert reach everyone, and does a key keep one row while requests race? | `RunsSettle`, `ScansSettle`, `AlertReachesEveryone`, `RequestsEnd`, `RowsAreKeyed` |
| `push_lost_report` | Can a failing run lose a report for good? | **it can**: `SkippedPushHasReports` (finding 1) |
| `scan_late_commit` | Can a failed batch keep its signals? | **it can**: `SignalsOnlyOfSuccess` (finding 2) |
| `settings_clear` | May every key be cleared? | **no**: `AnyKeyMayBeCleared` (finding 3) |

A property of a sum run is a conjunction of the parts its components promise;
each part is defined and explained in the component's module, and the module
that sums them says which component it is about.

What a reader of the code might doubt, and the runs settle:

- *Overlap.*  `RepeatsOnlyUnrecorded` and `ImplementsLedger` are checked for
  pushes, `CountsAreTrue` for scans, and the parts on one scoring for score
  runs, that do not overlap: with overlap the code has no lock that could give
  them.  Two overlapping pushes both send the scan; a scan that commits late
  inserts signals with an earlier `created_at` into a history another scan has
  counted; an older score run that commits last leaves a mixed record, since
  SQLAlchemy sends only the columns that differ from what it read.  What holds
  with overlap (`NoReportWithoutPush`, `LogsMatchDeliveries`,
  `QuickHasEvidence`, `RecordsOfOneRun`) is checked with it.
- *Late commits.*  `OutcomesAreSound` and `ImplementsBoard` hold as long as no
  commit is decided after its client gave up (`lates = 0`); `scan_late_commit`
  shows that the condition is needed.
- *Lost processes.*  The app sets `task_acks_late` but not
  `task_reject_on_worker_lost`.  A process of the prefork pool that dies alone
  (`Kill`, and the phase `lost` of a push) takes its task with it, for Celery
  acknowledges the message; only a worker that dies as a whole gets its messages
  again (`Restart`).  A tick may therefore end without a push, though no more of
  them than processes died (`NoTickIsForgotten`), and a push started through the
  API is never repeated.
- *Running for ever.*  Only the second transaction of a scan is inside the `try`.
  `RunningHasWorker` counts the batches that stay running without a worker
  (`Orphans`) against `losses`: processes that died, answers of the first commit
  that were lost (`OpenAnswerLost`) and failures that could not be recorded.
- *Reviews between score runs.*  The composite of a record may rise when the signal
  was reviewed in between; `ScoresAge` bounds the gain by what the review component
  gained, so that time alone never raises it.
- *Row locks.*  Score runs hold the rows of the windows they have written; they
  go through the windows in one order, so some run can always move
  (`SomeRunMoves`, part of `RecordsOfOneRun`).
- *Overwritten backups.*  `backup_path` resolves links, so a backup to `--output`,
  or at a second whose name is a link, opens the file it leads to: a written backup
  is truncated, and removed when `pg_dump` fails.  `aimed` collects the names to
  which this happened, and `WrittenStays`, `RestoredWhole` and the age in
  `OnlyOldFilesGo` speak of the others.  Between the second look of the retention at
  a candidate and its `unlink` somebody may put a link there: it is then removed, and
  `OnlyOldFilesGo` says that this is the only way.
- *Checked env files.*  The preflight of the alert service accepts more recipients than
  the sender does and keys on `export` lines, which systemd ignores;
  `CheckedEnvIsUsable` is about files without either.
- *Phrases and separators.*  The matcher masks safe phrases before it drops separators.
  A separator in a phrase takes it apart, and a masked phrase joins the text around it,
  so texts with and without their separators may have different terms.
  `SeparatorsNeverHide` says what holds: a text without an intact safe phrase has
  exactly the terms it shows, and of two fields, which `_reviewable_text` joins with a
  separator, neither excuses a term of the other, except by a negation at the end of
  the first.
- *Reads of several statements.*  A reply about a scan that is still running may
  mix two states (`RepliesAreWhole` excepts it); every other reader is shown to
  agree with one moment, or to err on the safe side (`ReadyMissesNothing`,
  `SharedIsSound`, `RecipientsAreComplete`, `CountsGrow`).

### Bounds

*Push.*  Two runs are the least that overlap; two chats the least for which a
failure on a later recipient matters; one scan for the races, two for the order
of scans; signals are chosen so that an approved, a blocked and a to-be-reviewed
P0 and a P2 occur; two attempts per run and one fault allow every single
interruption followed by a retry (`MaxTries`, `MaxFaults`).

*Scan.*  Two workers overlap; in `signals` three batches give a streak that
reaches `Trigger = 2`, passes it and, with two signals of a key per scan,
exceeds `HistoryLimit = 2`; a `Window` of one tick within `MaxTime = 2` has
signals inside, on the edge and outside.  The real values (3, 30 minutes, 10,
20) are constants of the model.  `MaxErrors`, `MaxLosses` and `MaxLate` bound
the exceptions, the scans given up without an outcome, and the undecided commits.

*Pipeline.*  Two ticks on one and on two processes are the least in which one scan hides
another; one retry (`MAX_RETRIES`) and one death (`MaxDeaths`), of a process or of the
worker, are enough for an attempt after a failed or lost one; `progress` has two deaths.

*Sums.*  The bounds of each component stand at its `INSTANCE`, with what they
are for: two or three concurrent requests, two chats, users, processes or
files, three scans, clocks of up to four ticks with windows of one or two, one
fault of each kind.  Two of a kind are enough for an overlap and for one row to
be taken for another; three requests where two change a row that a third has
read; the clocks pass each window by one tick, except where alerts fail and runs die (that instance stays in one window, `CalmAlert` passes it).  Inputs of pure rules take the
values at and next to each threshold of the code.  `ReviewRules` reads texts of
up to six letters over two forbidden terms, two safe phrases, of which one contains
a term that no negation excuses, one negation and one separator, long enough for a
phrase that is masked between the parts of a term or taken apart by a separator, and every set of up to three defects of a signal.

*Operations views.*  `overview` begins with a good row of each kind, which leave the window,
and adds up to two while a report of a healthy server is made; `server_alerts` puts every server state
beside tables of two new rows, which begin empty or with four good scans, so that the
failure rate takes values on both sides of the alert's fifth and of the readiness's half;
`history` has rows that a later window no longer holds, more events than its limit of
two, rows on the bounds of its buckets (a window of three in two buckets) and rows that
come between its statements.

*Backups.*  Three days with a retention of one make a backup old while another is
young; three inodes are two backups and the link that takes the name of one.  One
table has two pieces, so a dump or a restore can stop in the middle; what several
tables add is left to the theorem.  `Uses` restricts each behaviour of the run to
some kinds of work besides the timed backups (`MCUses`), because all of them together
have too many states; `--output` beside restores is left to the theorem, which has no such
restriction.

*Symmetry.*  `RunSymmetry` (push), `AlikeWorkers` (`pipeline`), `CollectorSymmetry`
(`operation`) and `RequestSymmetry` (`server`) permute model values that no property or definition
tells apart; the liveness run uses none.

### Fairness

`MCProgress` restates the fairness of its components on the registers and the
host's variables:
the push has weak fairness of each run's own steps (the event loop executes a
coroutine that can proceed; every await in it is bounded, the network call by
ten seconds), and, for the runs of Celery, of the retry of an attempt that failed and of the
restart of the retried task; a run that was lost with its process is over, and so is a
request to the API that failed.  The scan has that of each worker's steps and of the
server's decision on a commit; the pipeline, where a tick may end as lost, the
collections and the portfolio requests that of their process's own steps.  No first start, beat, foreign request or fault is fair.  For the
alert the timer is fair to the service, and each chat is strongly fair in
accepting what is sent to it again and again: `AlertReachesEveryone` says
nothing of a chat that refuses for ever.

## 4. Findings

Shown by a run:

1. *Lost report* (`push_lost_report`).  The review inside the report creation
   commits the session, so the successful push log is published before its
   report, against the purpose of `commit=False`.  If the run then fails on
   the next recipient, the report is rolled back and every retry skips the
   recipient as a duplicate.  `README.md:333` of the repository promises the report.
2. *Failed batch with signals* (`scan_late_commit`).  The best-effort handler
   reads the status and writes `failure` without a condition on it; its UPDATE
   waits for a commit still in progress and overwrites it.  The test of the
   failure path expects no signals (`tests/test_radar_service.py:573`).
3. *Cleared keys* (`settings_clear`).  Clearing a boolean or number key writes an
   empty value that `Settings()` refuses, in the save itself, in every later
   request and at every restart; `docs/api/current-api.md:231` allows any key.

Noticed while modelling, by reading the code against its documents; the models
contain the behaviour, no run is spent on it:

- Overlapping pushes of one scan each insert a report (`reports/service.py:82`);
  the repository's `README.md:333` says a repeated push makes none.
- A scan with snapshots but without candidates ends as `no_data`
  (`radar/service.py:188`); `docs/api/current-api.md:584` reserves it for
  missing snapshots.
- A streak must be consecutive *and* within the window (`radar/service.py:1821`);
  `项目开发总文档.md:535` says either.
- A P0 never gets the stage fading (`radar/service.py:1795`);
  `docs/prd/m5-next-step.md:66` says it can.
- The readiness message for "every endpoint ready" is never chosen
  (`providers/service.py:623`), since only `anns_d` is ever eligible.
- A creation that loses the race to the unique key is answered 503
  (`portfolio/service.py:76`), not 409 as `docs/api/current-api.md:780` says.
- An overlapped score record mixes two scorings (`scores/service.py:131`;
  `docs/specs/current-data-model.md:203`).
- A fallback model with the primary's name is reported as configured and never
  tried (`ai/model_client.py:280`, `audit/model_provider_readiness.py:155`).
- After the last active binding is disabled the open mode stays closed
  (`binding_service.py:137`; `docs/specs/current-data-model.md:223`).
- A chat disabled during a push still receives it (`push_service.py:40`;
  `docs/specs/current-data-model.md:216`).
- The field of the allowed chats never reads as configured
  (`settings/service.py:347`), and with a file system per container
  (`docker-compose.server.yml:6`) no restart brings a save to the other services.
- Of a key that stands twice in `.env` a save replaces the first line
  (`settings/service.py:465`) and a process that starts reads the last, so a restart
  brings the old value back, against the restart note (`settings/service.py:270`).
- While one chat refuses, the others get the alert every run
  (`server_alert_telegram.py:197`; `docs/runbooks/linux-server.md:400`), and the
  verifier accepts the report of an earlier run
  (`server_alert_telegram_service_verify.py:57`).
- Retention looks at a candidate's kind again before it removes it, not at its
  age (`postgres_backup_retention.py:199`); a restore does not overwrite existing
  tables (`postgres_restore.py:55`, `docs/runbooks/linux-server.md:639`); the
  refusal of links comes after they are resolved (`postgres_restore.py:68`).
- The env check of the alert service accepts more than fifty recipients
  (`server_alert_telegram_env_check.py:175`), which the sender refuses without a report
  (`server_alert_telegram.py:491`), and keys on `export` lines, which systemd ignores.
- `--output` through a link overwrites, and after a failed dump removes, the backup it
  leads to (`postgres_backup.py:44`, 206, 217); a link put between the second look of the
  retention and its `unlink` is removed (`postgres_backup_retention.py:199`, 203).
- A scan whose first commit is applied with its answer lost leaves its batch running for
  good (`radar/service.py:152`), and a process of the worker's pool that dies takes its task
  with it (`tasks/celery_app.py:28`, without `task_reject_on_worker_lost`).
- With `--fail-on-warning` a warning is reported as `fail`
  (`server_delivery_acceptance.py:242`, `docs/runbooks/linux-server.md:279`).
- A published port other than 8000 fails the compose contract, although the
  runbook offers `API_HOST_PORT`; the strict preset always ends with a warning,
  because the Beat checklist's live verification and readiness are never `ok`.

Remarks that are no contradictions: the risk agent of a brief is never `ok` for
a reviewed signal; signals of one scan share `created_at`, so the overview lists
its weakest first; a blocked signal can still be scored as one to watch.

## 5. What is proved

`TelegramPushProofs` proves, for every number of runs, chats, signals and scans
and every interleaving, from the assumptions on the constants alone:

- `TypeCorrect`: `Spec => []TypeOK`.  Strengthened by `GoodTask`: a run that is
  at a step that uses its chat or its signal has one.
- `ReviewGate`: `Spec => []NothingUnreviewedLeaves`.  The inductive invariant
  `ReviewInv` adds that every signal a run carries is publishable: a verdict,
  once stored, is stored again with the same value by any later review.
- `ReportsHaveTheirPush`: `Spec => []NoReportWithoutPush`.  `RowInv` adds, for
  each run, that the reports it has pending are explained by logs it can see,
  and that a run in its report loop already has a visible log of the current
  delivery that explains every P0 signal it still has to report.  This is why
  the commits in the middle of a run are harmless in this direction.
- `LogsCorrect`: `Spec => []LogsMatchDeliveries`.  `LogInv` adds that every "sent"
  log a session can see is true, and that each message of a run's current attempt
  has a log the run can see, or is the one it is about to log, unless the attempt
  failed.  A run that has sent commits all it sees before it returns, a rollback
  only ever ends in `failed`, and a retry has a new attempt number: these are the
  steps at which the part "a run that returned" could be lost.

The rest of `TelegramPushProofs` assumes `MaxActive = 1`, that runs do not overlap
(the run `push_concurrent` and its findings show that it is needed), and keeps
interruptions, retries, lost answers and foreign requests:

- `SerialRepeats`: `Spec => []RepeatsOnlyUnrecorded`.  `SerialInv` states it of
  the flushed logs as well, and adds the chain that makes the duplicate check
  sufficient: a run that moves is alone, so it sees every log; a run about to
  send has seen no success for its chat and scan; a run about to log has sent
  the chat one message in this attempt, its last; a recipient still in the queue
  was sent nothing in this attempt; an attempt pushes one scan.
- `LedgerCorrect`: `Spec => ImplementsLedger`.  `ScanInv` adds that a run pushes a
  scan that exists, that its messages follow none of a newer scan, and that what
  it logs are signals of its scan.  A delivery maps to `Deliver`; every other step
  leaves the chats alone, loses no committed row and so maps to `Record`, whose
  condition is `NoReportWithoutPush`.

`RadarScanProofs` does the same for any number of workers, batches, keys and
exceptions:

- `TypeCorrect`: `Spec => []TypeOK`.  `TypeInv` adds that a worker past
  `OpenBatch` has a batch, and that no table, session or undecided commit holds
  infinitely many rows, without which a stored count would not be a number.
- `RunningCorrect`: `Spec => []RunningHasWorker`, late commits included.
  `Unowned` are the running batches whose worker is past every phase that can still
  give them an outcome, `Orphans` and a little more, since a worker about to return or
  raise does not count; `HasOwner` says that they are finitely many and no more than
  `losses`.  A step either leaves no batch behind, by giving it its outcome first, or
  leaves one and counts a loss.
- `OutcomeCorrect`: `Spec => []OutcomesAreSound`.  `OutcomeInv`, which holds as
  long as no commit is decided late, adds that flushed rows belong to the batch
  of a worker that is still scanning, that a worker that will write an outcome
  finds its batch running, and that no two workers share a batch.  The second
  part is what the status check of `_best_effort_record_scan_failure` preserves;
  after a late commit it fails, as the run `scan_late_commit` shows.
- `BoardCorrect`: `Spec => ImplementsBoard`.  Initial states map to
  `BoardInit`; opening, committing and failing a batch map to `Open`, `Succeed`
  or `EndEmpty`, every other step to a stutter.
- `EvidenceCorrect`: `Spec => []QuickHasEvidence`, overlapping scans, rollbacks and
  late commits included.  `EvidenceInv` adds that what a candidate counted is
  committed or in the same session or undecided commit as the candidate, so that
  the two arrive together or not at all; that a worker scans with the start time
  of its batch; and that ids are fresh, so that a signal is not its own evidence.

- `CountsCorrect`: `Spec => []CountsAreTrue`, assuming one worker and `MaxLate = 0`
  (with overlap it is false, see section 3).  `CountInv` adds that every row of
  the session is newer than every committed one, and that the stored count of
  each row, committed or flushed, is that of the rows stored before it.  The
  history that `_candidate_continuity` reads is then the whole past of the
  subject, cut at `HistoryLimit`, and later rows never change what was before.

`SignalProofs`, of `ScoreRecords` for any number of score runs, any list of different
windows and any ages:

- `RecordsCorrect`: `Spec => []RecordsOfOneRun`.  `RecordInv` adds that the rows a
  run has flushed are exactly those of the windows it has gone through, that a
  run about to commit has all of them, and that a record it has read is not
  deleted.  That some run can always move follows because of the runs under way
  the one that has come farthest in the list of windows never waits: rows are
  locked in that order.
- `SerialScoresCorrect`: `Spec => [][ScoresAge /\ RecordsAreOfOneScoring']_vars`,
  assuming `MaxActive = 1` (with overlap an older run may commit last) and letting
  reviews of any verdict come between, or during, the runs.  `SerialInv`
  adds that the run under way is not older than any record and that what it has read
  is still what is stored, so that its `UPDATE`, which writes only the columns it
  believes changed, leaves exactly the row of its own scoring.  A composite is a number
  that depends on neither age nor review, twenty times the review component and six
  times the timeliness (`ComponentsAreNumbers`), which never rises with age; so what a
  record gains is at most what its review component gained.

of `ReportBook` for any users, requests, signals, verdicts, lengths of a day and a
week and leads of local time:

- `BookCorrect`: `Book!Spec => [](Book!ReportsAgree /\ Book!TopSubjectsLead)`.
  `BookInv` adds that a request past its review holds the verdict of its signal,
  and that the verdict is not to block; verdicts never change, so the status and the
  label of every report are functions of its signal.  Of two signals in a periodic
  report the one of higher priority has fewer above it (`TopLeads`, by cardinality),
  so it is named if the other is.
- `RecountsCorrect`: `Book!Spec => [][Book!CountsGrow]_Book!vars`.  For two times of
  the same local day or week `_period_bounds` gives the same start (`PeriodStart`,
  from a lemma on quotients), and what is counted from a start to an end only grows
  with the end and with the tables (`FiguresGrow`), even when rows come late with an
  older time.  `PeriodicInv` says of the report in the making and of each one made
  that its bounds are of a time gone by, which part of its figures is of which
  table, and that no figure read so far is below that of the report it replaces.

of `SubjectLifecycle` for any rows and events with numbers in them:

- `SubjectCorrect`: `SubjectSpec => []SubjectsDevelop`.  The share of rising
  members is between 0 and 10000 (`BreadthIs`), whatever a rule finds has one of
  three stages, at least a confidence of 50, and a climax only of a row at the height
  of both figures (`SectorResult`, `RiskResult`); `AdjustLifecycle` then gives one of
  the weak stages exactly when the figures drop from the newest signal
  (`ScanDevelops`).  Such a signal with its evidence gives the review no reason to
  object (`SoundIsApproved`).

of `ModelDraft` for any settings, contents and number of items shown:

- `DraftsCorrect`: `DraftSpec => []DraftsAreAudited`.  `CallsInv` says of each
  place in the exchange which models were called, a call being made exactly when
  nothing stands against it (`Callable`), and `LogsInv` which logs were written: the
  reply names the last one, and a second one leads to the first.  The readiness check
  finds a problem for the same settings.  Shown items are among those the whole
  payload was searched for, so a draft that passed has nothing unsafe in it.

of `RadarView` for any contents of scans, readers and bounds:

- `ViewCorrect`: `View!Spec => [](View!RepliesAreWhole /\ View!HiddenByNewerScan)`.
  `ScansInv` adds that only a scan that succeeded has signals and that none starts in
  the future; a scan that has ended never changes (`ScansGoOn`), so what a reader has
  read of one stays true (`ViewerStays`).  Of the scans it knows a reader took the
  last to start (`LatestIs`), and later scans are not among them.

and of `SignalGovernance` for any signals with their evidences and any number of
reviews:

- `GovernanceCorrect`: `Governance!Spec => [](Governance!SharedIsSound /\
  Governance!PreviewsHaveTheirReview /\ Governance!ReportGateIsSound)`.
  `GovernanceInv` adds that every verdict stored, reviewed or read is the one the rules
  give the signal, and that a reader that found a verdict finds a review of it, as
  both were committed together and reviews stay.  Evidence that the rules approve has
  neither a confidence below the threshold nor a marker of age, which are all that
  the warning labels stand for (`ApprovedIsSound`).

`ProviderCollectionProofs`, for any number of collectors, endpoints and data sets:

- `CollectionsCorrect`: `Spec => []CollectionsAreWhole`.  `CollectionInv` adds that
  no two attempts have the same time, that what a task has flushed or remembers
  of its attempts is in the tables, that the time it has read for an endpoint is
  not before its own successful attempt, and what a status view has read so far.

`RadarPipelineProofs`, for any number of processes, ticks, retries and deaths, of a
process or of the worker:

- `PipelineCorrect`: `Spec => []PushesFollowScans`.  `PipelineInv` adds that a tick
  is at one place (in the queue, with one process, or ended), that a process past
  `open` has the latest batch of its tick, that the batches of a tick are paid for
  by its retries and by the times its message was delivered again, that a successful
  newest batch that was not offered belongs to a tick that is still to be attempted,
  was given up or was lost, and, with a single process, that its batch is the newest
  one and those it is done with were offered.  `TicksInv` adds that each tick is
  somewhere and that each one lost has cost a process its life.

`AdministrationProofs`, of `TelegramAccess` for any number of requests, chats and users, and every
allowlist whose entries are chats or no numbers at all:

- `AccessCorrect`: `Spec => []AccessIsGuarded`.  `span` records which chats were
  authorized at some moment, and at every moment, since a request began.
  `AccessInv` adds that what a request has accepted was authorized at a moment of
  it; that a push to everybody has still to look at, or has accepted, each chat
  that was authorized throughout by the allowlist or by a binding active when it
  began; and that the second statement, the count of active bindings, is only
  reached with an empty allowlist and a chat that had no active binding then.
- `AllowedCorrect`: `Spec => [][AllowedOnlyOnRequest]_vars`: the permission of a
  bound chat changes only in the step of a request that asks for the new value.
  What a patch has loaded before it writes does not matter, because only the
  columns that the body names, and that differ, are written.

and of `SettingsEnv` for any keys, values, requests, processes and `.env` files:

- `SettingsCorrect`: `SettingsSpec => []SettingsHold`.  What was saved and not edited
  since is what the last line of its key says, and the environment of the API process
  holds it or nothing (`SavedInv`), no other process changes its environment
  (`EnvironInv`), hence every process that starts reads it.  What the API process would
  read now always loads, and is what it has cached as long as nobody edits the file
  (`LoadedInv`); this is why a valid save that clears no flag and no number cannot make
  `Settings()` raise, whatever the file said before.  The first part assumes one file
  for all processes, in which no key stands twice, and no key set around it
  (`OneFile`); the second only that no flag or number is cleared (`ClearsTexts`).
  Without them the code does not keep these promises (section 4).
- `SavesCorrect`: `SettingsSpec => [][OtherKeysSurvive /\ SaveOfReadIsNeutral]_settingsVars`,
  without either condition.  It rests on what `_write_env_updates` does to a file
  (`LinesReplaced`, `LinesAdded`, `WrittenFile`): a key that is not named keeps its last
  line, and a file that names each key once still does.

`PortfolioItemsProofs`, for any number of requests, users, instruments and ids:

- `RowsCorrect`: `Spec => []RowsAreKeyed`.  `ItemInv` adds that ids come from the
  sequence and belong to one row each, that a profile a request has found is never
  deleted, that the row a request has loaded, if it is still there, is of the same
  user, and that the rows of two creations differ.
- `ChangesCorrect`: `Spec => [][OwnRowsOnly /\ UpdatesMerge /\ DeletedStaysDeleted]_vars`
  from the same invariant: the part about the loaded row is what makes an UPDATE
  or DELETE by the primary key alone safe, since ids are not used again.

`ServerScriptsProofs`, of `AlertDelivery` for any number of runs, any alerts, env files
and command lines, and any dedupe window:

- `AlertsCorrect`: `AlertSpec => []AlertsAreTrue`.  The inductive invariant has
  three parts, as the property has three conditions.  `Honest` holds always: an
  entry, in any inode or read by any run, stands for messages that every chat of
  it was sent, so nothing a run writes, renames or finds half written by another
  can silence an alert that was not delivered.  `Ordered` holds while runs do not
  overlap: the run that is busy has read what the state still is, the inode it
  writes to is the one the temporary name has, and what it renames is what it
  wrote; this is why a crash at any step leaves a readable state, and why the
  verifier's `updated` means an entry.  `NoneRepeated` holds while nothing fails
  as well: a message is on record or belongs to the run that is busy, and that run
  sends only what is due.  Of the env file, a check that passed means a token and ids
  that can be read; without export lines the sender finds the same, and it refuses them
  only above its limit.
- `RememberedCorrect`: `AlertSpec => [][RememberedStays]_alertVars`, assuming
  `Serial`, from `Ordered`: an entry is replaced by one that is not older.  With
  overlap it is false, since the last rename wins.

and of `BackupFiles` for any number of tables, any retention and any use of the
scripts:

- `BackupsCorrect`: `BackupSpec => BackupsHold`, an action property.  A backup may be
  aimed at any name, through a link too; what is said is said of the names at which
  none was.  `DirInv` says that no inode has two names and that such a timed name stands
  for the second its file was begun in, so no later backup comes back to it; `LinkInv`
  that links lead to names and not to links.  Hence a candidate of a sweep is still as
  old as the scan saw it or is no file, one that was looked at again is a link only if
  that was put there since (`SweepInv`), and, because a dump under way is no older than
  the retention (`DumpInv`), is never that dump.  What was reported as written is whole
  and nobody writes to it (`WrittenInv`), which is why a restore that began with it
  reads a whole dump to its end, whatever happens to its name meanwhile (`RestoreInv`).

Each proof follows the same lines: lemmas for the few ways a step changes the
state (continue, commit, add, rollback, apply), one step per action of `Next`,
and a temporal step by PTL.  The assumptions on constants that a theorem names
are those of its module; TLC evaluates them in the run that extends it.

Only model-checked:

- liveness under fairness (`progress`) and anything about `ENABLED`, which are out
  of the prover's reach;
- the pure rules of `rules`, which are about bounded inputs of definitions with
  numbers, thresholds and texts, some of them recursive;
- what rests on a fold, on sorting or on `SelectSeq`, which the provers cannot
  unfold: of `ReadersAgree` the parts about the overview and the list
  (`OverviewAndListAgree`, `SubjectsAreCountedOnce`), of `GatesAgree` those about the
  bounded flags and the stored reasons (`DataAgentIsSound`, `BlockersAreShown` and
  the types), `ViewsAgree` and `AcceptedIsSound`.
  (`FiguresMoveOneWay` is what `RecountsCorrect` and `SerialScoresCorrect` say of
  instances, `OnlyNamedThingsChange` is what `ChangesCorrect`, `AllowedCorrect` and `SavesCorrect`
  say of rows, permissions and settings, and `RecordedStays` is `RememberedCorrect` of
  instances of `AlertDelivery`.)

## 6. Mutants

A definition marked `mutant` is a plausible mistake in the definition after it
(a dropped status check, an inverted condition, a missing commit).  `PROJECT.json`
pairs each property of each passing run with the mutant that violates it.

## 7. Plan

Next, in this order:

1. The lists of `RadarView` and `SignalGovernance` without folds, so that the rest of
   `ReadersAgree` and `GatesAgree` can be proved, then `OpsViews`.
2. `RadarPipeline` as an implementation of a specification of the beat, and the
   parts of `ScanBoard` and `PushLedger` it takes for granted as instances.

## 8. Not modelled

- The message formatter, the texts of reports, briefs, explanations, alerts and
  summaries: wording that nothing branches on.
- The web frontend and the Windows client: they render what the API answers.
- Connectivity probes (`core/redis.py`, `/health`): their answers are inputs.
- Plain reads of one statement (lists of push logs, reports, model calls,
  bindings, holdings), the webhook's secret check and the authorization of the
  settings route: one comparison each.
- The shapes of the providers' data sets and the SDK calls; the evidence files of
  the `anns_d` preflight; `seed_demo_data.py`; migrations, which run offline.
- `postgres_restore.py --check-only` and `database_inventory.py` beyond the verdict
  the acceptance reads.

Where a modelled component leaves detail out: `RadarPipeline` opens a batch
atomically, takes a batch without data for one that failed, logs a failed Telegram send
without repeating it, and sends a retry and acknowledges its message in one step;
percentages of failures are abstracted; commands use the user key
`telegram-<chat>` and compute nothing here; values of `.env` in single quotes or
with `${}` are not modelled; `BackupFiles` assumes that nobody writes to the
database while `psql` loads it, that one backup is under way at a time and no timed one
begins in a second in which another did, that links lead to files and none is put at a
path a script has resolved and opens next, and that no dump is silent for as long as the
retention, and its promises are about names at which no backup was aimed by `--output`
or a link, since that overwrites the file in place; an env file's `export` lines lose
the token or the ids, and other keys on such lines are not modelled;
`StrictMeansNoWarning` is checked for acceptances that do not share their
directory.
