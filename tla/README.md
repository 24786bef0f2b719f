# TLA+ models of StaffingAgent.ai

Specifications of the stateful core of this repository, checked with TLC and, where a
property matters for every size of the system, proved with TLAPS. A module is read
beside the Python it names; `PROJECT.json` maps every definition to its lines.

## 1. The system

StaffingAgent.ai automates the back office of staffing agencies. A FastAPI service
(`app_platform/api`) serves tenants from Postgres with row-level security; LangGraph
agents (`src/agents`) analyse timesheets, invoices and placements; background services
copy Bullhorn (the agency's system of record) into Aurora and wake alerts when their SLA
timers fire; SQS queues connect them.

| component | state it keeps | operations | what is hard | what makes it correct |
|---|---|---|---|---|
| Time Anomaly agent (`agents/time_anomaly`, `workers/sla_timer_worker.py`) | `agent_alerts`, `agent_alert_events`, the SLA timer queue | detect, outreach, wait_recheck, escalate_hitl, close; the worker's receive, reschedule, resume_alert, delete | nodes, two workers and reviewers act on one alert without locks; SQS duplicates and delays; sends inside transactions | an alert only moves forward, is never forgotten, and its log agrees with its row |
| Alert review (`api/alerts.py`, `api/gateway.py`) | the same tables, Bullhorn timesheets and charges | resolve with an action, reverse within 7 days | Bullhorn is written in the middle of a transaction; requests are retried; people edit Bullhorn meanwhile | what was answered with success is recorded and was done once; an undo restores what the action changed |
| Agent plan cycle (`api/main.py` 2216-3059) | `agent_runs`, `agent_plan_actions` | create, approve, execute, cancel | decisions on unlocked reads | only approved actions are executed, and the report is true |
| Bullhorn synchronisation (`src/sync`) | Aurora's copies, `sync_state`, the events queue, the Bullhorn subscription | poll, publish, consume, nightly batch | three processes write the same rows and the same watermark; crashes between steps; paging over changing data | every change reaches Aurora |
| Detectors (`agents/time_anomaly/detectors.py`, `config.py`, `benchmarks.py`) | none of their own; they read alerts, mutes and settings | groups A1, A2, B, C | thresholds and streaks over several pay periods; two runs on one period | one alert of a period is open; a streak follows a first miss |
| VMS matching and review (`api/main.py` 1979-2211, `agents/vms_matching`) | `vms_matches`, `vms_name_aliases` | match, store (at once, or by the plan cycle), approve, reject, correct (teaches an alias), dismiss | read-then-insert on the alias; no status guards; a run reads aliases once | an alias says what its last correction says, and a match that stands corrected has taught one |
| Users and roles (`api/users.py`, `api/admin.py`, `api/auth.py`) | `users`, `role_change_audit`, signed tokens | create, invite, update, deactivate, set a password, log in, refresh | the audit row is computed from an unlocked read; a token carries a role that may be out of date | the audit tells who had which role; every role came from above; a token dies with its rights |
| Settings and templates (`api/agent_settings.py`, `api/message_template*.py`) | `agent_settings`, `message_templates` | upsert, delete, render | read-then-insert, DELETE in between | what was last set is what is sent |
| Model calls (`shared/router.py`, `shared/llm.py`) | failure counts per key, in memory | ask, retry, fall back, trip | threads share the counts; a tripped breaker never half-opens | a breaker is open exactly after so many failures in a row |
| Migration runners (`deploy/db/migrate.py`, `api/main.py` 54-168) | `schema_migrations`, an advisory lock | discover, baseline, split, apply, record | read before lock; apply and record are two commits | what is recorded has run, in order, and all of it in the end |
| Other agents (`src/agents/*`) | none of their own | match invoices, postings and payroll to charges; grade risks, debts and credentials | order of the matching, order of the thresholds, tenants' overrides | money is accounted for; a loss reaches a person |
| Dashboard, TimeOps, RiskOps, tenants, chat (`api/main.py`, `api/admin.py`, `api/chat.py`) | Aurora tables | queries, single-row updates | - | - |
| Shared infrastructure, integrations, advisory, marketing | - | clients and reports | - | - |
| Front ends, site, Terraform, scripts | - | - | - | - |

How they interact. The nightly job and the events consumer fill Aurora; the agents read it and
Bullhorn. The Time Anomaly graph writes an alert and puts an SLA timer on a queue; the worker
takes the timer, asks Bullhorn again and closes, reminds or escalates. An escalated alert is
resolved by a reviewer through the platform API, who may have the application write Bullhorn and
undo it. Other agents propose actions, which an operator approves and the platform executes.
Their nodes ask language models through the router or directly; messages are rendered from
templates that administrators override. `PROJECT.json` lists every component with its status,
and every hazard at its line.

One transaction pattern runs through all of it and through the models:
`get_tenant_session` opens a READ COMMITTED transaction per handler, commits at the end
and rolls back on an exception; no handler locks the row it decides on; the ORM writes
only the columns whose new value differs from the one it loaded (`NewState`, `Written`).
A handler that decides on what it read is therefore two actions or more, and what it sends
to SQS, Twilio or Bullhorn in between is not undone by a rollback.

## 2. Modules

| module | what it is |
|---|---|
| `AlertContract` | what an alert promises: raised once, it only moves forward |
| `TimeAnomaly` | graph nodes, timer queue, worker and reviewer; implements `AlertContract` |
| `TimeAnomaly_proofs` | its types and its safety: the refinement, the log, closing, and that no alert is forgotten, proved |
| `AlertReview` | resolve and reverse requests that write Bullhorn |
| `AlertReview_proofs` | its five invariants, proved |
| `PlanLifecycle` | what an agent run promises: decided once, executes exactly what was approved |
| `PlanRun` | the four handlers of a run and their overlaps; implements `PlanLifecycle` until they overlap |
| `BullhornSync` | poller, events queue, consumer, nightly job |
| `BullhornSync_proofs` | its types, that the event path forgets nothing and that a nightly job covers its interval, proved |
| `NightlySync` | the nightly job over all tables, in its order |
| `NightlySync_proofs` | that rows point to rows, proved |
| `Migrations` | the command-line and the start-up runner over one database |
| `Migrations_proofs` | its two invariants and the exclusion of the lock, proved |
| `People` | users, roles, the audit, tokens |
| `People_proofs` | its types, its three invariants and that super admins stay, proved |
| `VmsReview` | the VMS matching graph, its results, reviews and aliases |
| `VmsReview_proofs` | its types and its two invariants, proved |
| `Detection` | the four detectors of Time Anomaly over the pay periods of a placement |
| `Matching` | the invoice, general ledger and payroll matchers |
| `Analysts` | the rules and graphs of risk alert, collections and compliance |
| `Templates` | the override of one message template |
| `ModelCalls` | routes, retries and circuit breakers |
| `Agents_proofs` | the eight invariants of the five modules above, and the types, the three invariants and the life cycle of `PlanRun`, proved |
| `MCAgents` | in one run, instances of the plan cycle, of the five modules from `Detection` to `ModelCalls`, of `People` and of `VmsReview`; they share nothing, and each behaviour (`scene`) moves one of them |
| other `MC*` | values of the constants for TLC, and what each of a run's instances lets happen |

### TimeAnomaly

Variables: `state`, `resolution` and `log` (how many events of each type) are the alert's
rows; `pc` is the node a graph run is at; `queue` maps each timer message to how many
copies of it the queue holds; `jobs` are the messages in the workers' hands with what each
has read; `reviews` are resolve requests between their read and their commit; `sheet` is
the timesheet as Bullhorn has it; `lost` is a history of the ways a timer or a run was
dropped. Actions are the nodes (`DetectRead`, `DetectInsert`, `Outreach*`, `WaitRecheck`,
`EscalateHitl`), the worker's steps (`Receive`, `Reschedule`, `ResumeRead`, `ResumeClose`,
`ResumeRemind`, `ResumeEscalate`, `Delete`), the reviewer's (`ResolveRead`,
`ResolveCommit`) and the environment's (`SubmitSheet`, `VisibilityExpires`, `DeadLetter`,
`GraphCrash`, `WorkerCrash`).

Choices worth knowing. `AcceptedEvents` and `AcceptedActors` are the CHECK constraints of
`agent_alert_events`: migration 046 lists fewer than the handlers write; `ta_live` and
`ta_v_route` have the deployed vocabulary, `ta_lifecycle` the one the handlers and their tests
expect, which lets more happen. `StripPrivateKeys = FALSE` is `_build_template_variables` as
written (the renderer then rejects every outreach). `NextDeclared = FALSE` is the graph's state
as written: it has no key `next`, which LangGraph therefore drops, and every route that reads
it ends the run. The runs about what follows an outreach use what the two docstrings describe,
`ta_v_route` has both as they are; the theorems hold of either. A call of Twilio has three
outcomes beside success: no messaging service (`OutreachWithoutSid`), an answer that is an
error, which `outreach_node` catches (`OutreachSend`), and a transport error of httpx, which it
does not (`OutreachUnsent`, fault `network`): the alert stays in `detected`. A worker handles a
polled batch one message at a time.

### AlertReview

`bullhorn` is what Bullhorn has of each timesheet and charge and `writer` who wrote it last;
`events` is each alert's log with its snapshots; `req` and `step` are the requests in flight:
read, fetched, posted, then commit. `posted` is a history of the writes with what each
overwrote. A request that fails rolls its transaction back and leaves its Bullhorn write; one
whose row or event a CHECK refuses does the same (`ResolveAllowed`, `EventCheck`). `failed` and
`overlapped` are histories: which requests were answered with an error, or not at all, and
whether two were ever in flight together. The properties are about requests answered with
success, so that none of them, nor its theorem, needs a vocabulary that the schema does not
have. But under migration 046 as it is every request fails, and there is none that they are
about. So `ar_review` has the vocabulary that the handlers write, in which requests succeed, and
sends `recruiter_override`, an example of the endpoint's that migration 045 refuses; `ar_v_log`
has the deployed CHECKs and shows what they do. What holds only of requests one after the other
(`ActsAtMostOnce`, `UndoRestoresBefore`, `HoldMatchesLog`) says so of the state it is asked in,
so that a behaviour is judged until its first overlap, however many it has of reviewers.

### PlanRun

`status`, `report`, `approval_status` and `execution_status` are the rows; `req` holds
what each request in flight has read. `Check` is a handler's load and 409 test; approve
loads the actions in a second SELECT (`ApproveLoad`) before it commits. execute flushes
status `executing` before it loads the actions, which takes the run's row lock, so it is
one step from its flush on; the statuses `planning` and `executing` are never seen outside
their transaction. `asked`, `executed` and `overlapped` are histories; `FollowsLifecycle`
is the refinement of `PlanLifecycle`, step by step until the first overlap. The agent types of
`AGENT_TYPE_REGISTRY` all come to `success`; `HandledOutcomes` also checks the loop against
the other outcomes it is written to handle.

### BullhornSync

One entity type; a record is its `version` and `modified` time in Bullhorn and its version
in `aurora`. `pending`, `hand`, `queue` and `consumer` follow an event from the
subscription to the upsert; `nightly` is the batch job between its pages; `watermark` is
`sync_state.last_synced_at`, which both the job and the consumer move. Constants choose
the kind of entity: `Incremental = FALSE` is candidates (always fetched in full),
`Subscribed = FALSE` an entity without events (timesheet entries, bill and pay masters).
`lost` names the records an event of which a fault has dropped: a poller that died with
events in hand, a swallowed fetch error, an expired subscription, the dead-letter queue or
the queue's retention. `raced` names those that changed while a job was running. The consumer
queries the ids of a message in batches (`FetchSize`, `BatchOf`), each of which may fail by
itself: the others are stored and recorded, the failed ones go into `lost` (`FetchFails`).

### NightlySync

A table stands for one record of its type: `source` is what Bullhorn has, `row` what Aurora
has, as the version each group of columns was written from. `TableOf` gives each table what
its `sync_*` function does: the columns `ON CONFLICT` leaves alone (`kept`), the tables its
row points to, and whether the fetch is limited to what was modified since the last sync.
The job (`night`) walks them in the `Order` of `run_sync`: `Fetch`, `Upsert` (one
`executemany` is one transaction: one value that is refused refuses them all and ends the
job), `RecordSync`. `missed` is a history of edits between a fetch and its `_record_sync`,
which takes the time itself. `BullhornSync` has the pages and the events of one type; this
module has the order of all of them.

### Migrations

`schema` is what has been executed, `recorded` what `schema_migrations` says, `lock` who
holds the advisory lock, `runner` what each container is at. A container runs
`deploy/db/migrate.py` (`Cli*`) and then the API's start-up runner (`App*`), as
`entrypoint.sh` does. The recorded set is read before the lock is tried; a file's SQL and
its row are two commits; a runner may die, its SQL or its insert may fail. A file's text is
a sequence of kinds of lines, and `Split` is `_split_sql_statements`. Baselining records
files without running them (`mistaken`).

### People

`users` and `role_change_audit` are the tables, `tokens` the signed tokens in use, `pending`
each person's request between what it loaded and its commit. Every endpoint trusts the role
in the caller's token (`require_role`). `Column` is the session's update: a column is
written only if it differs from what was loaded. `outrun` and `clashed` are histories of
requests that overlap. That an e-mail has one account is a UNIQUE constraint of the schema and
a guard here (`Accepts`), no property.

### VmsReview

`run` is the graph between its steps: `BeginRun` reads records, placements and aliases once,
`Graph` is the three nodes (`ByAlias`, `ByName`, then any answer of the model), and the
result is stored at once (`PersistMatches`) or when the operator executes a plan (`ExecutePlan`).
A confidence is one of the classes the thresholds make, a name is compared by its
`Spelling`. A correction flushes the match, which locks its row, before it selects the alias
(`Flush`), and then inserts or updates it (`Correct`); the VMS name is a key, so that the
second of two inserts fails with its review. The placement and the Bullhorn id of a correction
are two fields that nothing compares: the model sends any pair of them, also an id that no
placement has (`Strays`) or none, and `ByAlias` proposes whatever placement has the id. Any
request may raise and be rolled back (`ReviewFails`). The language model answers with any
placement and a confidence of `Certainties`.

### Detection

Pay periods are numbers, `sheets` the timesheets, `alerts` the placement's rows, `registry`
its mutes, `settings` the tenant's overrides as `_apply_override` leaves them, `runs` the
graph runs: `Fetch` (all a run reads), `Propose` or `Quiet`, `CreateAlert`. `DetectA1`,
`DetectA2`, `DetectB` and `DetectC` return what the functions of those names do; `Usual` is
the benchmark. `doubled` is a history: the periods that two runs examined at a time.

### Matching and Analysts

The matchers walk the documents one by one (`turn`) and keep the pairs and the reports;
amounts are integers and a tolerance is a product. General ledger postings are matched by
`reference` or, without one, `source_ref`, and compared for duplicates by `reference` alone: which
of them have their key from `source_ref` is chosen in `Conclude`. The graders take a list of
rows and thresholds and go through the nodes of their graph. Both may be called with data or by
`create_agent_plan`, which maps what was found to actions. A caller may override thresholds and
wages; a plan has the platform's, since nothing calls `load_config`, and its placements have no
state, since the synchronisation stores none.

### Templates and ModelCalls

A PUT is a read and a commit; a DELETE is one statement; the partial unique index refuses a
second active row. A breaker's `record_failure` is a read and a write, since the API runs
graphs in threads (`asyncio.to_thread`); there the router is never reached, because
`asyncio.get_event_loop` raises outside the main thread (`loop`).

## 3. Runs

Runs that pass. All but `ns_night` and `mg_start` have `CHECK_DEADLOCK FALSE`: their models
may come to rest, the alert resolved, the run over, or the bounded edits, requests and faults
spent.

| run | properties | instance | shows |
|---|---|---|---|
| `ta_lifecycle` | TypeOK, NoOrphan, EventsMatchState, ClosedAfterSubmission, ImplementsContract | 1 alert, 2 workers, 1 reviewer, 2 faults of any kind | no interleaving of nodes, redelivered timers, stale workers and reviewers moves an alert back, forgets it without a named cause or makes log and row disagree |
| `ta_live` | SlaHonoured | 1 alert, 1 worker, 1 reviewer, 1 fault, deployed CHECKs | under fairness, the SLA of every alert that an employee was asked about: also though every first reminder is rolled back |
| `ar_review` | ActsAtMostOnce, UndoRestoresBefore, HoldMatchesLog, AnsweredIsRecorded, UndoneWasDone | 2 alerts on one timesheet and charge, 3 requests: a reviewer alone, one of whose requests may fail or be refused, while staff edit the hold, or 2 reviewers with 2 failures | requests one after the other act once and leave a true log; recording and undo are sound under overlap and failure |
| `bs_events` | TypeOK, Tracked, Applied | 1 record that changes twice and 1 that changes once, 3 faults of any kind, 3 receives of a message, 1 id in a query | a change is on its way and arrives, after a retry where one is needed, or one of the named faults dropped it |
| `bs_nightly` | NightlyCovers | 2 records, 3 jobs, one dies, edits and deletions at any time | the incremental interval misses nothing but what changed while a job ran |
| `ns_night` | PointsToRows, CatchesUp | 3 tables (one points to one before and one after it), 4 edits, 1 fault, refused values | a job that stops half way leaves nothing that later nights do not mend; a refused value stops its table and those after it, and only those |
| `mg_start` | RecordTrue, NoHole, Converges | 2 containers, 4 files (two of one number), 3 faults | whoever dies where, what is recorded has run, in order, and all of it in the end unless a file that ran cannot run again |
| `ag_agents` | TypeOK, ExecutedWasApproved, CompletedMeansExecuted, ReportTrue, FollowsLifecycle | plan cycle: 1 operator and 3 actions, or 3 overlapping requests and 2 actions | the documented life cycle, and what holds of it when requests overlap |
| | FirstMissFirst, OneOpen | detectors: 3 periods, 2 runs, 3 alerts, thresholds that are unset, 1 and 3 | streaks and re-fire protection |
| | InvoicesPaired, Accounted | matchers: 2 documents and 2 charges of 5 amounts and 2 keys | the greedy loop |
| | LossesReachAPerson, OlderIsNotGentler | graders: pairs of rows on every side of every threshold, 7 overrides, 3 orders of the thresholds | rules and thresholds |
| | ServedIsLatest | templates: 2 editors, 5 requests | DELETE between a PUT's read and write |
| | OpenAfterFailures | model calls: 2 threads, 6 calls, one provider without a key | breakers and fallback |
| | AuditTrue, GrantedFromAbove, TokensFollow | users: a super admin, an admin and one who can be added, 2 requests, 3 instants | roles, audit and tokens agree though every read is unlocked, and no chain of requests lifts anybody above who gave him his role |
| | AliasFollowsMatch, CorrectedIsTaught | VMS: 2 records whose names are spelled alike, 2 placements and a stray id, a run of `invoke` and then one of a plan, 2 reviewers, 2 requests, answers of the model of one confidence | what a reviewer corrected is taught, and is what the match says |

Runs that show a disagreement between the code and what the repository says of it (each
is a finding of `PROJECT.json` with the line it contradicts): `ag_v_miss` (a miss that
follows a corrected one is raised by neither miss detector), `bs_v_gap` (the consumer
moves `last_synced_at` past the changes an expired subscription lost), `ta_v_route` (the graph
ends after `detect_node`, because `next` is no key of its state: the alert stays in `detected`
with no fault and under fairness) and `ar_v_log` (with the CHECKs of migration 046 an action of
a reviewer is in Bullhorn and its event is refused).

The actions of the models exhibit further disagreements, which have no run of their own:

- two graph runs may both pass `_has_open_alert_for_period` (detectors.py:113) and both
  raise an alert; nothing in migration 045 forbids it (`DetectRead`, `DetectInsert`);
- `first_reminder_sent` is not in the CHECK of migration 046, so that the reminder is rolled
  back after its escalation timer was sent, and comes again (`EventCheck`): two workers may then
  both assign the alert. For the same reason every resolve with an action fails after its write,
  the alert stays open, and the reviewer may act on it again;
- a transport error of httpx (twilio_sms.py:152) is not among the exceptions `outreach_node`
  catches: the alert stays in `detected`, without a timer (`OutreachUnsent`);
- `resume_alert` answers `bullhorn_error` and the worker deletes the timer (nodes.py:535),
  though sla_timer_worker.py:24 promises a redrive (`ResumeRead`, cause `bullhorn_error`);
- the undo of a hold releases a charge that staff had put on hold before (alerts.py:573,
  `Undone`), though its docstring says the snapshot is used;
- a stale approval takes a completed run back to approved (main.py:2434, `ApproveCommit`),
  and it may be executed again;
- `_build_template_variables` (nodes.py:439) hands `_employee_phone` to a renderer that
  rejects it, so no outreach is ever rendered (`VariablesValid`);
- an hours anomaly is closed as `employee_corrected` at the first recheck because a
  timesheet exists, whatever its hours (`SheetPresent`, nodes.py:537);
- the second of two overlapping resolutions overwrites the first (`ResolveCommit`);
- a Did-Not-Work retried after its write takes its snapshot of the first attempt's write,
  so its undo restores Did-Not-Work (`ResolveFetch`);
- a stale cancellation cancels a run that has been executed (`CancelCommit`), and an empty
  list of actions approves all of them (`Chosen`);
- a failed fetch is swallowed and its message deleted (`FetchFails`, consumer 154); a
  record edited between its page and `_record_sync` is skipped by the next nightly job
  (`NightlyRecord`, sync 294), and so is one that a deletion shifts over a page boundary
  (`Page`, sync 281); the nightly job overwrites a newer version the consumer has written
  (`Upserted`); nothing deletes from Aurora what was deleted in Bullhorn.
- detectors: after a first miss that was corrected, `DetectA1` leaves every later miss to
  `DetectA2`, whose streak starts at none: they stay silent. A threshold of 3 or more mutes
  every miss after the first. Nothing in `src` writes `exception_registry`, nor the timesheet
  columns group C reads, so its samples are empty in a deployment;
  `magnitude_threshold` is a multiplier to migration 044 and the dismissed magnitude to
  `Refires`; an unsupported `basis` raises and ends every run with a timesheet;
- VMS review: overlapping corrections may mix an alias's columns (`Taught`); a correction
  without `corrected_bullhorn_id` erases the id an alias had, after which no run uses it, and
  one with the id of another placement, which nothing checks, has the next run propose that
  other one as sure (`ByAlias`); the model's
  silence about a record stores nothing about it, and an id it makes up rolls the run back
  (`RunFails`); two runs store a record twice; placements synchronised after migration 027
  have no `candidate_name` (`Named`);
- people: PUT lets an administrator deactivate himself, which DELETE refuses; two may
  deactivate each other; refresh does not look at the tenant's `is_active`;
- migrations: `_split_sql_statements` never closes a `$$` body of several lines, so the
  start-up runner cannot run 039, 041, 045, 046, 049 and 051; 047 is there twice; a database
  whose `tenants` came from `schema.sql` is baselined on its first run, 031 to 037 included;
- nightly sync: one value that does not fit its column ends the job there every night
  (`Refused`); an edit between a fetch and its `_record_sync` is skipped (`missed`);
- agents: `load_config` is called by nothing, though state_wages.py:4 and graph.py:58 of the
  risk agent say that a tenant's settings are loaded, and `config_overrides` is no field of a
  graph's state: overrides reach only a direct call. Postings without a `reference` and of one
  amount are reported as duplicates of one another (`Reference`, detectors.py:82); the invoice
  planner passes no purchase orders and plans no action; the plans of collections and compliance
  are empty or of low severity (`Mapped`); `"exempt" in "non-exempt"` is true, so non-exempt
  workers are flagged for overtime; a placement that pays nothing escapes the wage rules; two
  payroll records of one candidate and period both match one charge;
- templates: the upload's pattern misses what Jinja would read (`{% if x %}`, `x.y`); a PUT
  across a DELETE answers `active: true` about an inactive row; two PUTs that overlap mix
  their columns (`Updated`);
- model calls: a tripped breaker stays open until the process ends; all agents share the
  key `invoke_claude`; a client error counts as a failure and a lost connection as none;
  overlapping `record_failure`s may lose a count (`Record`).

Bounds. Two workers and one alert are enough for every overlap of a timer with itself. Two
faults allow a redelivery and a loss in one behaviour. Three requests on a run allow two stale
ones around an execution; three on two alerts of one timesheet allow an action, a second one
over it and an undo of either. One record that changes twice and one that changes once
(`Often`) give an edit before, between and after fetch and upsert, and messages with one record
and with two; pages of one record put records before, at and after a page boundary, and queries
of one id a query that fails beside one that does not. A message may be received three times,
as in production (`messaging.tf`), and there are three faults: a message abandoned once or
twice is received again, one abandoned three times is dead-lettered, and two faults on a
message leave one for its poller or another message. Four instants give each of three jobs an
edit before it, at its watermark and after. Symmetry is used on the reviewers of `ar_review`,
whom no definition tells apart. Two requests on users give one that is stale at its commit, and
one that adds a user who then acts. Three tables are enough for a reference that is fetched
before, with and after its target; three periods for a miss, a correction or a gap, and a miss;
two documents and two charges for one that takes another's best partner; two rows for every
comparison of two. Rows of the graders lie below, at and above each threshold.

Fairness. A graph run's nodes are awaited by one process and the worker's loop runs for ever
under ECS, so `FairSpec` of `TimeAnomaly` has both weakly fair, each run of its own. `FairSpec`
of `BullhornSync` has its poller and its consumer weakly fair for the same reason, SQS's redrive
to the dead-letter queue weakly fair, and the receive strongly fair per message: a message that
keeps becoming visible is received in the end, although it is invisible in between. Reviewers,
employees, the nightly schedule and faults are never fair. Faults are bounded, which is what
makes a finite chain of retries suffice. `FairSpec` of `NightlySync` has the scheduler, which
starts a job every night (`infra/terraform/scheduler.tf`), and the job weakly fair. `FairSpec`
of `Migrations` has containers that are started again and the runners in them fair, and its
faults bounded.

## 4. Proofs

Every theorem is about `Spec` of its module for all values of its constants that satisfy
the module's named assumption: any number of alerts, reviewers, workers, containers,
users, records and requests, and any faults. Assumptions of theorems beyond those are
named below. Almost none of the properties is inductive; the inductive invariant, given
for each, is the reason why the code is right.

| module | theorem | property | rests on |
|---|---|---|---|
| `Agents_proofs` | `TypeCorrect` | TypeOK (of `PlanRun`) | |
| | `NothingUnapproved` | ExecutedWasApproved | `ApprovedWasAsked` |
| | `CompletedLeavesNothing` | CompletedMeansExecuted | `SeenUndecided`: an approval in flight read `plan_ready`, so that its commit always writes the status |
| | `ReportsAreTrue` | ReportTrue | `SeenUndecided` and the report itself: what takes an action back takes the run out of its completion |
| | `RunsFollowLifecycle` | FollowsLifecycle | `OneByOne`: while one request is in flight, what it has read is what there is |
| `TimeAnomaly_proofs` | `TypeCorrect`, `RefinesContract`, `LogAgrees`, `ClosedOnSubmission`, `NoneForgotten` | TypeOK, ImplementsContract, EventsMatchState, ClosedAfterSubmission, NoOrphan | below |
| `AlertReview_proofs` | `TypeCorrect`, `UndoesWhatWasDone` | UndoneWasDone | `ReviewInv`: what can be undone was posted, and a request that undoes has read an event that a recorded request left |
| | `WritesAreRecorded` | AnsweredIsRecorded | who wrote is in flight, has failed, or has committed, and a commit logs it or is refused |
| | `ActsOnce` | ActsAtMostOnce | `OnceInv`: an alert that was acted on is resolved, or its only request is about to resolve it or to fail |
| | `UndoRestores` | UndoRestoresBefore | `UndoInv`: the snapshots are what the writes replaced, and a timesheet last written by an undo is as its snapshot says |
| | `HoldIsLogged` | HoldMatchesLog | `HoldInv`: the last event about a charge that the application wrote last is that of this write and says what the charge is, or a request is about to log it |
| `BullhornSync_proofs` | `TypeCorrect`, `EventsTracked` | TypeOK, Tracked | below |
| | `NightlyLeavesNoGap` | NightlyCovers | `NightInv`: what was last changed before `last_synced_at` is in Aurora, and the pages read so far hold what they held |
| `NightlySync_proofs` | `RowsAreThere` | PointsToRows | `NightInv`: each table that is done has a row for the record that was there when the job began, and what is too old to be fetched has one already |
| `Migrations_proofs` | `TypeCorrect`, `RecordsAreTrue`, `RecordsHaveNoHole`, `OneRunner` | RecordTrue, NoHole | `MigrationsInv`: a file that a runner will not come to is recorded or was gone past, and what it is about to record has run |
| `People_proofs` | `TypeCorrect`, `AuditIsTrue`, `TokensFollowUsers`, `SuperAdminsStay` | AuditTrue, TokensFollow | `PeopleInv`: what an update has read still holds unless another one crossed it, and a token says what holds or ends in time |
| | `RolesAreGranted` | GrantedFromAbove | `GrantInv`: a token, however stale, carries a role its owner has had, and a request in flight gives only what its caller once had or more |
| `VmsReview_proofs` | `TypeCorrect`, `AliasesFollowMatches`, `CorrectionsTeach` | AliasFollowsMatch, CorrectedIsTaught | `VmsInv`: what a correction has read still holds while no other one is about that name |
| | `LatestIsServed` | ServedIsLatest | `TemplateInv`: one row is active at most, and until two PUTs overlap it has what was sent last |
| | `OpenOnFailures` | OpenAfterFailures | `CallInv`: the counter is the number of failures since the last success |
| | `InvoicesArePaired`, `AllIsAccounted` | InvoicesPaired, Accounted | `MatchInv`: of the documents before `turn`, each is in a pair or a report |
| | `FirstMissComesFirst` | FirstMissFirst | `ProposedAfterFirst`: also a streak that is not stored yet has its first miss |
| | `OneIsOpen` | OneOpen | `Clear`, `Marked`: what a run found closed is closed while no other run is at its period |
| | `LossesAreSeen`, `AgeIsGraver` | LossesReachAPerson, OlderIsNotGentler | `GradeInv`: what each stage of a graph has found is what its rules say of the rows |

One theorem has an assumption of its own:

- `Subscribed = FALSE` (`NightlyLeavesNoGap`): the type is one that no events come for, as in
  the run `bs_nightly`. For a subscribed type the property is false: the consumer moves the
  same `last_synced_at`, past what events that were lost had changed (`bs_v_gap`).

The named assumptions of the modules are those TLC evaluates in each run: sets of files, actions
and persons are finite, bounds are natural numbers, NULL (`None`, `Null`, `Absent`) is none of
the values, a placement that is planned for has no state, a setting is a number or of the wrong
type, files are numbered, the tables of minimum wages hold numbers. Where one restricts data,
the code does: a value of the wrong type never reaches a detector (`_apply_override`), and the
columns are typed in the migrations.

`TimeAnomaly_proofs`, in more detail. Each kind of update (row, log, queue, job) has a lemma
for its type, which the steps of the actions cite. The strengthenings:

- `LifeInv`: every row passes the CHECKs of migration 045 (`RowInv`); an alert can be
  only in certain states while its run is at a given node (`PcInv`); no timer exists for
  a run that has not finished its outreach (`TimerInv`); and what workers and reviewers
  have read was an open alert (`ReadInv`). A stale commit that would reopen a resolved
  alert is then refused by the row's CHECK, since it leaves `resolution` set: `RowCheck`
  carries the refinement.
- `SeenInv`: an alert that a worker read as escalated is still escalated or resolved. The
  worker's transition then writes no state column, and this is why it may not leave the
  alert waiting with its timer gone.
- `FoundInv`: a timesheet a worker was told of is still there, because nobody deletes one.
- `Covered`, `JobStep`: whoever lets go of a timer has acted on it, recorded its loss, put
  it back or sent the next one, in that order in every handler.

`BullhornSync_proofs` proves `TypeCorrect`, with the ids of the queued messages distinct
(a pigeonhole argument on `Fresh`), and `EventsTracked` (Spec => []Tracked) by `TrackedInv`:
the message the consumer works on stays queued until it is deleted (`AtInv`), and a record
edited after it was fetched has the event of that edit still waiting when the older version
is written over it (`StaleInv`). What a nightly job has fetched is still so unless the record
is in `raced` (`NightGot`); the exception is needed, for `Upserted` writes whatever was
fetched, and a job that fetched a page before an edit overwrites what the consumer has
written since, with no event left to repair it. The run `bs_events` has no job, and so no
exception; the theorem has any number of them.

`NightlyLeavesNoGap` rests on counting. The rank of a record is how many records that match
come up to it in the order of the pages; an edit never lowers the rank of another record
(`EditKeepsPages`), so that no later page skips one, and behind a page that is not full
there is none left (`LastPageIsLast`): the records of low rank, those of the page and one
more would be fewer than that one's rank. A deletion does lower ranks, and the property says
so. That a job that dies leaves `last_synced_at` alone is what lets the next one find
everything again.

`RowsAreThere` needs no more of the order of `run_sync` than that it is one: a table may come
before what it points to, because a record points to records that were there first
(`Sourced`), and the job does all tables before it ends.

`AlertReview_proofs`, in more detail. `Apart` says that, until requests overlap, at most one is
in flight; then a step either moves that one or is somebody else's (`RestsOrMoves`), and what
the request has read is what there is. None of the five needs the schema to accept an event, nor
that no request fails. `UndoRestores`: the snapshot an undo puts back was taken in the request
that wrote, and `_run_gateway_reversal` undoes the last action of the log, so that what failed
requests wrote before is in it.

What stays with TLC:

- liveness (`SlaHonoured`, `Applied`, `CatchesUp`, `Converges`): the provers do not reach
  fairness and ENABLED;
- the four properties of the finding runs, which are false of the code.

## 5. Plan

Every safety property of the passing runs has its theorem. What would say more:

1. An abstract specification of the event path (a change is pending, in Aurora, or lost for
   a named reason), and `BullhornSync` as its refinement.
2. `NightlyCovers` for a type with events, about the records of which no event was lost:
   `Tracked` and `NightInv` together.

Not modelled, and why (the components of `PROJECT.json` have the rest):

- RiskOps, TimeOps and dashboard endpoints (`api/main.py` 474-1165 and 1386-1942): queries
  without a protocol. Several compare `bullhorn_id` as text with columns the migrations make
  integers, or read columns nothing writes.
- Agent settings: PUT reads `user.user_id`, which a token does not have
  (agent_settings.py:285), so that every request fails and is rolled back; a setting that
  exists was written by hand, and `Detection` takes it as it is.
- Platform administration but for the users it creates: single-row updates of tenants.
- Bullhorn's tokens, the chat, the reports, the clients of other services, the front ends:
  no state of several steps. `shared/verification.py` and `shared/routing_loader.py` are
  called by nothing.
- The agents that only sum up or hand their rows to a language model (VMS reconciliation,
  KPI, forecasting, commissions, contract).
- `src/api/main.py` and `deploy/api`: earlier copies of what is modelled.
