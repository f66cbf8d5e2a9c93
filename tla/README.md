# Verification of the token ledger dashboard

TLA+ models of the programs in this repository. Most of them keep state together
with somebody else: the worker that deploys agent connections to the LiteLLM
gateway, the loop that copies the gateway's ledger, the pipelines that rebuild
the database next to it, the services that watch the gateway, the budgets and
the agents, and the price catalogue. The others are algorithms on records: what
becomes of a line of a log on its way through merges, loads, rollups and queries
to the page. Each model is translated from the source and checked by TLC on
small instances; for all of those that keep state together, what matters most
is proved with TLAPS for instances of any size.

`PROJECT.json` lists components, runs, the lines every definition stands for,
the hazards and the findings. This file explains them.

## 1. The system

An agent (a program of the company) calls language models through a gateway:
two LiteLLM instances behind nginx, with PostgreSQL for keys and its call log
and Redis for shared counters. The dashboard is a FastAPI process and static
pages over a second PostgreSQL database, the *ledger*. Around the two stand a
few long-running processes and a set of batch scripts.

| Component | State it keeps | Operations | Talks to |
|---|---|---|---|
| Connection store (`backend/connection_store.py`, migration 015) | profiles (draft, applied, revisions), operations (kind, status, stage, result), the deployment row (baseline, recovery pointer), keys | save, enqueue, stage | used by the API and the worker, one transaction each |
| Connection configuration (`backend/connection_config.py`) | none | validate a profile, render routes and registry, metadata of a budget | used by the store and the worker |
| Connection API (`backend/connection_api.py`) | none | preview, apply, issue, revoke, verify, budget, recover, reconcile, import a secret | store; RPC to the worker, given up after 35 s |
| Connection worker (`backend/connection_worker.py`) | files on the host (routes, override, registry, managed.env), snapshots, a lock file | the saga of an apply, its restore, keys, verification, the drain loop | store, gateway, Docker, registry |
| Agent registry (`db/gateway_registry.py`) | registered agents, `pending_backfill`, an advisory lock | apply_config, operation_lock | worker, CLI, refresh |
| Ledger refresh (`scripts/refresh_gateway.py`, `db/load_gateway.py`, `db/build_*.py`) | `fact_call`, three rollups, the heartbeat row | incremental load behind a watermark, comparison, rollups | gateway's log, registry lock |
| Agent health (`scripts/watch_agents.py`, migration 016) | runs, schedule, `result.json` | claim, take, execute, interrupt | agents over HTTP, ledger |
| Prices (`scripts/sync_model_catalog.py`, `db/model_pricing.py`, `backend/pricing.py`) | catalogue rows, price versions, the lease | sync, preview, save, link, select a price | public catalogue, run from the refresh loop |
| Gateway watch (`scripts/watch_gateway.py`) | a JSON file | probe, decide, mail | gateway, status page, SMTP |
| Budgets (`backend/gateway.py`, `docker/gateway/quota_hook.py`, `scripts/watch_quota.py`) | the key's metadata at the gateway, cached copies, a JSON file | set, top up, refuse a call, mail a band | each other, through the gateway |
| Rebuild and update (`scripts/rebuild_db.py`, `scripts/update_dashboard.py`) | none of their own | ordered steps, restart from a step | the loads and the pulls, as programs of their own |
| Loaders (`db/load_*.py`, `db/connect.py`) | dimensions and fact tables | one load per source, with its acceptance | collected files, the refresh loop at the same tables |
| Collection and merging (`scripts/pull_*.py`, `scripts/merge_*.py`) | files under `data/` | pull, merge | Google, web applications |
| Read API and page (`backend/store.py`, `backend/gateway_identities.py`, `web/js/api.js`) | none | queries, division among rows | ledger, browser |
| Audit (`scripts/audit_db.py`) | none | some sixty checks that count again | ledger |
| Status page, containers, launchers, tools | none of ours | | section 7 |

What is hard in it:

* **No transaction spans the system.** A deployment writes four files, two
  containers, registry tables and the profile row; an issued key exists at the
  gateway before its row exists in the ledger; a mail cannot be taken back.
  Crashes fall in between, and Docker restarts the process.
* **Answers get lost.** A call to the gateway may have had its effect although
  it failed; the caller of an RPC may have gone.
* **Locks are tried, not waited for**, and some decisions are made before one is
  taken: `drain` selects an operation and then asks for the lock.
* **Copies age.** The gateway decides on cached keys, the ledger on a watermark,
  an administrator on a preview.

### What makes each component correct

* *Deployment*: what a profile says is applied is what both instances serve;
  anything interrupted can be undone; what is committed is what was reviewed;
  an apply that ended stays as it ended; every apply ends.
* *Configuration*: what others put into the gateway's file stays, an agent's tag
  leads to its own models only, and what is applied can be applied again.
* *Keys*: no key works that nobody accounts for; "revoked" is true; a budget
  change happens once; undoing never takes away a delivered key.
* *Verification*: one billed request per test; "verified" rests on all of its
  evidence; every test ends.
* *Refresh*: no call falls below the watermark unread; the heartbeat is honest;
  each rollup is built from what the table before it holds; every call arrives.
* *Agent health*: each day is claimed with its run; no check is made twice; the
  progress, the row and the file agree; every run ends.
* *Prices*: snapshots move forward; an override is saved over the prices that
  were reviewed and survives syncs; a requested sync is made.
* *Pipelines*: a run that says "done" has built everything from the same data,
  whatever the loop does meanwhile; an update uses its own pulls; what a load
  deletes for others comes back or is told.
* *Records*: nothing is lost, counted twice or put on somebody else's account
  between a collected file and the page; the audit faults what is wrong and
  nothing else.
* *Watches*: alarms are confirmed, told once per stop at most, with a start
  that is never too late; a spent budget is told; a spent key stops.

## 2. Modules

| Module | Lines of the code it stands for | State and actions |
|---|---|---|
| `ConnectionApply` | none: what the worker promises | Requests, the applied combination and what each instance serves; an apply is one step |
| `ConnectionStore` | `connection_store.py`, migration 015 | Rows of profiles and operations and the recovery pointer, with `Save`, `Enqueue`, `Stage`, which the next three modules use and extend |
| `ConnectionDeploy` | `connection_worker.py`: deployment | Files, instances, registry, baseline, snapshots; one action per file written, transaction or container recreated; the holder of the deployment lock is the record `job`. Implements `ConnectionApply` (`Atomic`) |
| `ConnectionDeploy_proofs` | | Theorems about it and about the refinement, section 6 |
| `ConnectionKeys` | `connection_worker.py`: issue, revoke, budget, recover | The keys at the gateway and their rows; every gateway call may fail before or after it took effect; `calls` are RPCs under way, whose caller may hang up |
| `ConnectionKeys_proofs` | | Theorems about it, section 6 |
| `ConnectionVerify` | `connection_worker.py`: verify, evidence, external_verify, drain | The call, its log line and its ledger row appear one by one; the drain loop polls |
| `ConnectionVerify_proofs` | | Theorems about it, section 6 |
| `GatewayRefresh` | `refresh_gateway.py`, `load_gateway.py`, `gateway_registry.py`, `build_*.py` | Calls in the gateway's log, four tables as sets of calls, one job under the registry lock |
| `GatewayRefresh_proofs` | | Theorems about it, section 6 |
| `AgentHealth` | `watch_agents.py`, migration 016, `connection_api.py` (agent health) | Rows of runs, the schedule, the file of each run, the service and a shell |
| `AgentHealth_proofs` | | Theorems about it, section 6 |
| `PriceSync` | `sync_model_catalog.py`, `model_pricing.py`, `pricing.py` | One model: its catalogue row, price versions by day, the lease, an administrator's preview |
| `GatewayWatch` | `watch_gateway.py` | The record in memory and the one on disk, a tick step by step |
| `GatewayWatch_proofs` | | Theorems about it, section 6 |
| `QuotaControl` | `gateway.py`, `quota_hook.py`, `watch_quota.py`, `main.py` (quota) | One key, copies in the instances, administrators' requests, the watch |
| `QuotaControl_proofs` | | Theorems about it, section 6 |
| `SourcePull` | `pull_web_apps.py`, `pull_tla_contract_usage.py`, `pull_monitoring.py`, how loads choose a folder | Folders of a day whose files are numbers of calls the server had when asked; a fetch at a time |
| `DataPipeline` | `update_dashboard.py`, `rebuild_db.py`, and the loads and builds as transactions | Extends `SourcePull`: one operator, the refresh loop, and the tables both write |
| `Database_proofs` | | Theorems about `PriceSync` and `DataPipeline`, which it extends both: hence `PriceInit`, `PriceNext` and `PriceSpec` in the first. Section 6 |
| `FileMerge` | `merge_monitoring.py`, `merge_latency_daily.py`, `merge_billing.py` | Functions of the files on disk, one `Stop` for every early exit |
| `OrgDirectory` | `load_org.py` | The organisation's files to units, people, accounts and seats |
| `LedgerRows` | `load_gateway.py` (`build_rows`, the comparison in SQL), `connect.py`, `gateway_registry.py` (identities) | A line of the gateway's ledger to a row or a reason to drop it |
| `SourceLoad` | `load_billing.py`, `load_monitoring.py`, `load_ralli.py`, `load_tla_contract.py`, `load_provider.py` | Files and a table to a table and whether the acceptance passed |
| `UsageRollup` | `build_usage_daily.py`, `build_usage_hourly.py`, `build_performance.py`, the views of 005 and 010 | Fact tables to what the dashboard reads |
| `ReadApi` | `store.py`, `gateway_identities.py`, `web/js/api.js`, the view of 009 | Tables to answers, and answers to the page; extends `UsageRollup` |
| `ConnectionConfig` | `connection_config.py`, preview and adoption in `connection_worker.py` | Profiles to routes, registry and chat tags; a sequence of deploys and edits by hand |
| `Audit` | `audit_db.py` | Groups of checks, each a function from its name to whether it holds; extends `ReadApi` |
| `Records` | none: the properties of the eight modules above | One behaviour is one computation: which, on what, with what result |
| `MC...` | | Values of constants that a cfg cannot write, bounds and symmetries |

The worker is one program in three models because its three parts share the
store and the lock and little else: an operation of another part appears in
each as somebody else's holding the lock (`OtherTakes`, `OtherReleases`) or not
at all. `GatewayRefresh` and `DataPipeline` look at the same loop from two sides:
the first has single calls, tags and registrations; the second counts, and puts
the loop next to the programs of an operator. `LedgerRows` and `UsageRollup` say
what the steps of both do to a record. What the splits hide is in section 7.

### Conventions

* A *step* is what cannot be interrupted in the code: one committed
  transaction, one `os.replace`, one container recreated, one HTTP call. A
  crash action may fall between any two and throws away what was in memory.
* An HTTP call whose answer may be lost is a choice between no effect, effect
  with answer, and effect without.
* Times are what is left of them (a lease, a deadline) or a number of ticks.
* Constants named `Max...` or `Bounds` bound the environment (requests, edits,
  faults, crashes, an operator's programs). They are not part of the code. At
  the bound the environment stops asking, so the runs do not look for
  deadlocks; that what was asked for is done is what the liveness properties say.
* In the modules on records a name, an id, an hour or an amount is a small
  number, two spellings of a name differ by a multiple of ten, and a value that
  may be missing (`NULL`, an empty cell) is a set with at most one member.
* `...` definitions with a suffix, such as `CheckPreview_NoHash`, are mutants:
  the code with a plausible error. `PROJECT.json` says which property finds
  which. They are not part of any specification.
* Variables marked "history" in their comment record what properties speak of
  and are read by no guard.

## 3. Runs

Every run is exhaustive within its bounds. `States` are distinct states.

| Run | Module | Bounds | States |
|---|---|---|---|
| `deploy` | `MCConnectionDeploy` | two agents, two operations, one crash | 142,230 |
| `deploy_edits` | `MCConnectionDeploy` | one agent, two secrets, two revisions, two operations, one edit from outside, one crash (both only beside a single operation: `OneUpset`) | 1,501,034 |
| `keys` | `MCConnectionKeys` | three operations: of any kind on one key with one crash, or with an edit at the gateway; or issuing and revoking two keys with one crash | 488,222 |
| `verify` | `ConnectionVerify` | two tests or claims, every flaw of a call, one failing step or crash | 901,848 |
| `refresh` | `MCGatewayRefresh` | two calls, an old and a new agent, four units of time, one failing step | 1,041,973 |
| `health` | `AgentHealth` | two days of two hours, runs of two checks, one run-now, one shell run, one moved hour, one crash, one refused and one unacknowledged transaction | 1,445,461 |
| `price` | `MCPriceSync` | one model, a price that changes once, two days, one override, one link or edit, one loss | 560,133 |
| `watch` | `GatewayWatch` | six ticks of two days, two stops at any step, one fault | 1,777,626 |
| `quota` | `MCQuotaControl` | two instances, two administrators, two edits, two calls, copies two ticks old, one fault; instances and administrators are alike | 1,993,574 |
| `pipeline` | `MCDataPipeline` | six short careers of an operator: up to three programs, one new call, one new day, one failing step, two gateway calls | 961,253 |
| `records` | `MCRecords` | every input of the case sets | 49,028 |
| `find_stuck` | `AgentHealth` | two refused statements | counterexample |

### What the runs show, and why the bounds suffice

**Deployment.** `deploy` has two agents because the routes of one are rendered
together with those of the other, and two operations so that one has something
to restore or recover. The crash may fall into an apply, the restore of a
failed apply, or a recovery; what runs after it may still fail at each step.
`AppliesAreAtomic` is the refinement: seen through the profile, the status of
each operation and what the instances serve, the twenty steps of an apply are
those of `ConnectionApply`. An apply commits with every instance on the
combination that was reviewed, fails with every instance back on what it served
before, or asks for recovery; and the way back, fixed when it starts, is what is
applied, unless a pending recovery was overtaken. `SnapshotCovers` and
`AppliedIsTrue` follow one apply through crashes and restores. `deploy_edits`
gives the only agent a second draft that moves to another secret, so that a
restore of `managed.env` can lose a secret that is in use (`SecretsInUse`), and
lets somebody edit a watched file, the routes or the registry between any two
steps (`RegistryAsReviewed`). `NoDriftOfItsOwn` speaks of drift that nobody
outside caused; it excludes one state, a secret import that crashed between its
file and the baseline (`connection_worker.py:204`), where the worker really does
take its own write for drift.

**Keys.** Three operations are an issuance, a change or a revocation of its key,
and a recovery or one that comes in between; two keys of one agent are what a
revocation can leave half done (`RevokedIsGone`). The run takes its bounds from
a set of three, chosen at the start: each combines what can interact and leaves
out what would only multiply states. What `KeysAccounted` says of budgets holds
for keys that nobody edited at the gateway; the rest holds beside such edits.
`InterruptedIssueEnds` says that drain ends every issuance a crash cut off.

**Verification.** Two operations are the worker's own call and a claim of an
external one that may be confused (`OwnCallIsKnown`), or a test and its replay.
The flaws are the ways evidence can fail: another route, no cost, a ledger that
disagrees. `Limit` is the number of polls before the deadline.

**Refresh.** Two calls are enough for one to be logged after a load has read
the other, and started before it. `NothingLostBelow` needs `MaxDelay < Overlap`:
in the code the overlap is an hour and the gateway logs seconds after a call.
With a longer delay a late call stays out, the comparison with the gateway's
totals fails from then on and the heartbeat is withheld, so the loss is
visible; that case is not among the runs. The new agent is registered at any
moment of a cycle, which is what `pending_backfill` is about.

**Agent health.** Two checks give a run a first, a last and a place between
them; two days let a claim be yesterday's. `ServiceCatchesUp`, a part of
`RunsEndForGood`, is claimed for executions in which no shell run took the place
of the service's, at most one statement is refused and no acknowledgement is
lost (`Undisturbed`): the first two are findings or hazards, and after a lost
acknowledgement a row runs until the next restart, whose time nobody bounds.

**Prices.** Two programs compete for the lease; one loss is a stall beyond it,
a failed fetch or a death. `HistoryReplays` compares `select_price` for every
day with a plain replay of the history. `RequestIsServed` gives up when a
worker died: the request is cleared when an attempt starts, which is the
divergence of `sync_model_catalog.py:56` in section 5.

**Watches.** Six ticks of two days are enough for two bad probes, an alarm, a
recovery and the next heartbeat, with stops at any step of a tick. What
`MailsAreTrue` says of the contents of mails holds while every tick was whole
(`Whole`); with stops and faults what remains is that the span of an outage is
never shortened, and `RepeatsAreRestarts`, which bounds repeated mails by the
stops. In `quota` the amounts and costs are chosen so that the spend lands
exactly on 90 %, 100 % and 110 % of a budget and jumps over a band; two instances
give each other's copies a chance to be stale. `SpentIsTold` excuses a tick that
lost something. Two administrators may each write between the reads and the
write of the other. `HistoryIsWhole` says what this costs: `overlaps` counts the
changes that landed while another request held what it had read; no more
confirmed lines than that are missing, a top-up adds as long as there was none,
and what is left of the history never contradicts itself or the budget.

**Pipelines.** A career is a sequence of programs an operator starts, one at a
time: an update that fails and is made again, pulls before an update or a
rebuild, rebuilds from any step and `load_ralli` alone. The loop runs beside
them; every step of either may be the one that fails. `DoneAgrees` is about
the loop's rollup that was computed before a load of the operator and committed
after it. `LoadsFitTogether` is about folders: the newest one is taken, a pull
by hand may have begun it and stopped, and the member list of the moment decides
where a call belongs. One new call, one new day and one failing step are what it
takes to have an old, a new and a half-written folder at once.
`DeletedRowsReturnOrAreTold` is the hole in the ledger that `load_ralli` can make
(section 5): the rows come back, or every cycle tells of a mismatch.

**Records.** One behaviour is one computation. A property says what the result
must be without saying how it is made: every line is counted once, a total is
the same at every layer, two people never share an account. The sets of inputs
are made so that spellings, pulls, branches and sources overlap in every way
their sizes allow: two or three files, rows, names and units each. `AuditAgrees`
has three parts. What the loads and builds accept passes the audit, except in six
checks whose conditions are spelled out. The same tables with one damage (a count
off by one in a daily row, an hour, a line or an account gone, a row too many or
in the future, a unit or a parent misplaced, a name undeclared) are faulted by the
check that counts it again; of the checks of tokens and calls by source, a wrong
count or a lost hour fails just the one of its source; what other checks say of it
is left open. And in the comparisons with provider, invoice and meter a number that
is missing never adds a fault. The checks that the model has no counterpart of are
named at the head of `Audit`.

`RoutesAreExact` follows a file of routes through deploys of two agents and two
edits by hand. The only memory of which routes are its own are the ids of the last
apply; the cases put back, copy, retag and drop them, and list no model any more.

Most properties have parts with names of their own, one of each module the types
of its variables (`TypeOK`): a run joins what speaks of one subject.

Every property of a passing run has a mutant: a plausible error in a definition
under which TLC finds the property violated in the same run. They are the
evidence that no property holds merely by the shape of its model.

## 4. Fairness

Liveness is checked under what the code's scheduling gives, and no more.

| Specification | Assumed | Because |
|---|---|---|
| `ConnectionDeploy!LiveSpec` | a started job goes on; the drain loop polls; it gets the lock if the lock is free again and again | every call in a job has a timeout; `drain` runs every two seconds (`scripts/connection_worker.py:49`) and *tries* the lock, hence strong fairness for `Begin` |
| `ConnectionKeys!LiveSpec` | a started job goes on; `drain` comes back to some interrupted issuance; of its endless retries, some are answered | `drain` raises when the gateway refuses and is called again two seconds later; an unreachable gateway for ever is the only way out |
| `ConnectionVerify!LiveSpec` | tests go on, polls happen, time passes, and administrators at some point stop asking for other operations | the lock is tried once per poll; against somebody who always holds it nothing could be promised |
| `GatewayRefresh!LiveSpec` | a cycle goes on, and one starts if the registry lock is free again and again | the loop tries every 300 seconds |
| `DataPipeline!LiveSpec` | the same of the loop; a pull or a step the operator started goes on | every request and every subprocess has a timeout; nothing makes the operator start anything |
| `AgentHealth!LiveSpec` | the service and a running shell go on | the loop ticks every five seconds and is restarted (`restart: unless-stopped`) |
| `PriceSync!PriceLiveSpec` | time passes and each of the two programs goes on | the request to the public catalogue has a timeout; the loop calls the sync in each cycle |

Crashes, faults and edits have no fairness and are bounded: a liveness property
says what happens once they stop. `GatewayWatch` and `QuotaControl` have no
liveness properties; their promises are about what a finished tick has done.
`Records` has none: its computations are single steps.

## 5. Findings

One run ends in a counterexample to what the repository says of itself.

* `find_stuck` (`scripts/watch_agents.py:533`). `tick()` catches an error of the
  database to interrupt the run it hit; when that statement fails too, the row
  stays `running`, the service lives on, and "run now" and the schedule are
  locked until it is restarted. The comment above promises otherwise.

The following were met while modelling. They are behaviours of the models, so
the properties of the passing runs are worded around them; none has a run.

* *Deployment.* `drain` may start an apply it selected before another operation
  began to need recovery (`connection_worker.py:808`), whereas
  `gateway-connection-application/spec.md:37` blocks applies meanwhile; a second
  recovery pointer then overwrites the first (`connection_store.py:124`). A
  secret may be imported while a recovery is pending (`:193`). With a second
  drain (`once` beside `serve`) an apply that has ended can be started again
  (`:439`, `:450`); the proofs of section 6 say that with one drain it cannot.
  An edit from outside that lands during a rollout becomes part of the new
  baseline (`:494`).
* *Configuration.* A redirect (`model_group_alias`) of a model that a wildcard
  covers is not refused, only one of an alias (`connection_config.py:188`): such a
  verification is not served by the route it expects. A route that a hand put
  back with an id the last apply owned is replaced without a word; one with an id
  owned before that stays.
* *Keys.* The API gives up an RPC after 35 seconds although the worker goes on:
  a key may be issued that nobody received (`:569`, `connection_api.py:64`).
  `recover` may let a replacement be issued before the old key is reconciled
  (`:549`).
* *Verification.* The call of a test that was interrupted before it was recorded
  is not known as the worker's own (`:805`).
* *Agent health.* A restart interrupts a run from a shell, which goes on, so two
  runs can be at work (`watch_agents.py:441`); an interrupted run may have a
  `result.json` (`:405`); moving the hour twice can put a day's run off twice
  (`:523`).
* *Prices.* A requested sync is cleared before the attempt, and lost with the
  worker (`sync_model_catalog.py:56`). A snapshot fetched before midnight and
  committed after it is dated to the next day (`model_pricing.py:154`).
* *Gateway watch.* `probe_http` does not catch `http.client.HTTPException`
  (`watch_gateway.py:151`): a tick that meets an answer that is not HTTP ends
  before it counts, so a gateway that answers garbage is never reported down. A
  new process repeats an alarm whose record was not saved (`:577`); two isolated
  bad probes around a restart count as consecutive (`:449`); bad states that
  alternate are never equal twice and never told (`:449`); after a lost record
  of a recovery the next outage is silent (`:441`).
* *Budgets.* Of two administrators at once, one loses the line of the history
  (`gateway.py:268`; its docstring says so, and `HistoryIsWhole` how much); a budget of zero is spent from the start and not mailed
  (`watch_quota.py:97`); a fall and a rise between two saves lose the second
  alarm (`:176`), and an unwritable file repeats a band at each tick (`:175`).
* *Refresh.* A call tagged with two codes, of which the second is registered
  later, stays in the ledger but counts as skipped, so that every later
  comparison fails (`load_gateway.py:871`).
* *Pipelines.* `connect.rebuild` refuses any database at the head of the
  migrations, because `ref_model_catalog` exists since 013 (`connect.py:307`): a
  rebuild from step 1, and with it the eighth step of an update, cannot succeed,
  whereas `README.md:49` and the docstring of `rebuild_db.py` describe it.
  `load_ralli` deletes every row of `fact_call`, the gateway's too, and takes no
  lock: if it commits between a load's reading of the watermark and its insert,
  only the newest gateway rows come back, and every later cycle tells of a
  mismatch. Its acceptance compares two counts (`load_ralli.py:150`): a call of
  nobody known that newer statistics count and an older log lacks can stand in
  for a call the load lost. `load_org` on a populated database fails by a foreign key. The
  hourly build commits before it compares; a daily build reads the sources again
  for its acceptance, and may meet what somebody committed meanwhile.
  `_latest_ralli` takes the newest folder whatever is in it, `load_org` falls back
  to an older one; a failed pull of members leaves a shorter list.
* *Records.* A cache hit with tokens among the gateway's rows makes the daily
  build refuse, since the acceptance ignores the condition of the build. The
  merge of the meter keeps the larger value also for percentiles, as a comment
  of it admits.
* *Read API.* Accounts and units of merged agents are not renamed, so they may
  name an agent that the list of agents does not have; adoption leaves out the
  merged agent's own users; `health` counts shared accounts among people.
* *Audit.* Coverage counts the gateway's tokens of an agent without a service
  account in two groups; rows before a registered agent's start count as lost; a
  partly measured cache counts what is missing as 0, although the message says it
  is not; time zones are compared with `<`, so exact data without any row to
  compare fails; its default interval is 300 seconds where `health` takes 120.

## 6. Proofs

Nine models are proved about, for any values of the constants their assumptions
admit (`StoreAssumption`, `DeployAssumption`, `KeysAssumption`,
`VerifyAssumption`, `RefreshAssumption`, `HealthAssumption`, `WatchAssumption`,
`QuotaAssumption`, `PriceAssumption`, `BoundsAssumption`, `PipelineAssumption`:
bounds are natural numbers, the sets hold what their names
say).

| Theorem | Module | States | Assumes |
|---|---|---|---|
| `TypeCorrect` | `ConnectionDeploy_proofs` | `Spec => []TypeOK` | |
| `SnapshotsCover` | `ConnectionDeploy_proofs` | `Spec => []SnapshotCovers` | |
| `PointerIsTrue` | `ConnectionDeploy_proofs` | `Spec => []RecoveryNamesUnresolved` | one drain |
| `EndedStaysEnded` | `ConnectionDeploy_proofs` | `Spec => TerminalIsFinal` | one drain |
| `RegistryIsAsReviewed` | `ConnectionDeploy_proofs` | `Spec => RegistryAsReviewed` | one drain |
| `AppliedIsWhatRuns` | `ConnectionDeploy_proofs` | `Spec => []AppliedIsTrue` | one drain |
| `AppliesImplementPromise` | `ConnectionDeploy_proofs` | `Spec => AppliesAreAtomic` | one drain |
| `RestStaysInOrder` | `ConnectionDeploy_proofs` | `Spec => []RestIsInOrder` | one drain |
| `RevokedKeysAreGone` | `ConnectionKeys_proofs` | `Spec => []RevokedIsGone` | |
| `KeysStayAccounted` | `ConnectionKeys_proofs` | `Spec => []KeysAccounted` | |
| `DeliveredKeysStay` | `ConnectionKeys_proofs` | `Spec => NeverUndoesDelivered` | |
| `VerdictsAreSupported` | `ConnectionVerify_proofs` | `Spec => []VerdictsAreTrue` | |
| `EverythingIsDoneOnce` | `ConnectionVerify_proofs` | `Spec => []DoneOnce` | one drain |
| `EndedTestsStay` | `ConnectionVerify_proofs` | `Spec => EndedStaysEnded` | one drain |
| `TablesAlwaysAgree` | `GatewayRefresh_proofs` | `Spec => []TablesAgree` | |
| `NothingIsEverLost` | `GatewayRefresh_proofs` | `Spec => []NothingLostBelow` | `MaxDelay < Overlap` |
| `CyclesCatchUp` | `GatewayRefresh_proofs` | `Spec => [][CatchesUp]_vars` | `MaxDelay < Overlap`, `OneTag` |
| `OnceIsOnce` | `AgentHealth_proofs` | `Spec => []WorkIsDoneOnce` | |
| `StoriesAlwaysAgree` | `AgentHealth_proofs` | `Spec => []StoriesAgree` | |
| `EndedRunsStay` | `AgentHealth_proofs` | `Spec => EndedStaysEnded` | |
| `ReaderIsToldTheTruth` | `GatewayWatch_proofs` | `Spec => []MailsAreTrue` | |
| `RepeatsNeedRestarts` | `GatewayWatch_proofs` | `Spec => []RepeatsAreRestarts` | |
| `HistoryNeverBreaks` | `QuotaControl_proofs` | `Spec => []HistoryChains` | |
| `HistoryIsComplete` | `QuotaControl_proofs` | `Spec => []HistoryIsWhole` | |
| `SpentIsAlwaysTold` | `QuotaControl_proofs` | `Spec => []SpentIsToldOnce` | |
| `VerdictsAreFresh` | `QuotaControl_proofs` | `Spec => VerdictsFollowTheKey` | |
| `PricesAreTheirHistory` | `Database_proofs` | `PriceSpec => []PricesFollowHistory` | |
| `OverridesAlwaysHold` | `Database_proofs` | `PriceSpec => OverridesHold` | |
| `RequestsAreKept` | `Database_proofs` | `PriceSpec => []RequestIsKept` | |
| `PipelineStays` | `Database_proofs` | `Spec => []PipelineInv` | |
| `FinishedRunsAgree` | `Database_proofs` | `Spec => []DoneAgrees` | |
| `LoadsFit` | `Database_proofs` | `Spec => []LoadsFitTogether` | |

*One drain* is `Drainers = {"serve"}`: the one loop that `docker-compose` starts.
With a second one `EndedStaysEnded` is false (section 5), and with it what rests
on it. *`OneTag`* says that a call names at most one agent: with two,
of which one is registered later, the comparison fails for ever (section 5).

An invariant that a run checks is seldom inductive. Each proof module defines
the strengthening that is, as a conjunction of named parts; TLC found each of
them to hold within the bounds of the run before it was proved.

### Deployment

* `TypeInv` is `TypeOK` with `JobOK`: a job that works on an operation holds the
  number of an operation. `TypeOK` alone is not inductive, since a step of a job
  indexes the operations with what the job holds.
* `SnapInv` adds that the apply whose files are being written, and every apply
  whose row says `running`, has a complete snapshot: the row becomes `running`
  in the step after the manifest was written, and only the steps before it
  write snapshots.
* `PointerInv` says where the recovery pointer may stand. `ModeOfStep` ties each
  step to the kind of job; `FreshRows`, that rows not yet created are empty;
  `PickIsOpen`, that what the one drain has selected is still queued or running,
  which is where a second drain would break the argument; `SagaIsOpen`, that the
  apply at work has not ended; `PointerIsApply` and `RecoveryIsOpen`, that the
  pointer names an apply, and that a recovery that has not yet cleared it finds
  its target still waiting. `recover()` clears the pointer first and closes the
  target second, so a crash between the two leaves no false pointer.
* `EndedStaysEnded` follows from `PointerInv`: each step that writes a status
  writes that of an apply the invariant says has not ended.
* `ReviewInv`: from the check of the preview to the registration the worker
  holds the registry lock, and the tables are those of the preview. The other
  side of it is a precondition of everybody else: the CLI and bootstrap write
  the tables only under the lock.
* `ApplyInv` is what the files and the instances have to do with the rows.
  `SnapRows` and `OldestFirst`: only the oldest open apply can have begun, since
  one drain takes them in their order. `SagaOnRecord`: what is in the snapshot
  and the row at each step of the saga. `CandIsReviewed`: the combination at
  work is the applied one with one profile changed. `Rolled` and `Undone`: what
  each step of a rollout and of a restore has achieved, instance by instance.
  `Settled`: with nothing begun and no recovery pending both instances serve the
  routes file, the edits of somebody else included. `WayBack`: unless a pending
  recovery was overtaken, there is one way back at a time, and it leads to what
  is applied. TLC found `ApplyInv` to hold in the runs `deploy` and
  `deploy_edits` before it was proved.
* The refinement: `Before`, the conjunction of the four invariants, holds in
  each state, and under it each step of `ConnectionDeploy` is a step of
  `ConnectionApply` or leaves its variables alone. Most steps write something
  the abstract state does not see; the lemmas are about those that do: an
  instance recreated on the way there (`Roll`) or back (`RollBack`), the
  transaction that commits, the two ways to fail and the call for recovery.
  `Settled` is what makes a way back a promise: what the snapshot holds is what
  was served when the apply started.
* `RestInv` adds what `RestIsInOrder` needs. `SecretAtHand`: the secret of the
  draft was there when the preview was checked, and nothing on the way to the
  recreated instances takes it away. `Covered`: every version of `managed.env`
  that is in use or may be put back has the secrets of what is applied.
  `Rebased`: between the new baseline and the status, the baseline is what is
  there. `NoDriftYet`: an apply that has saved but not yet touched the files
  goes back to no other ones, and outside a rollout the baseline is what is
  there, unless somebody else edited it. `NoCrashYet`: the same of
  `managed.env` while nothing has crashed, since then only the apply at work
  has a snapshot and no secret is imported under it. TLC found `RestInv` to
  hold in the runs `deploy` and `deploy_edits` before it was proved.

Each inductive step has one step per action of `Next`; lemmas on `Stage`,
`Enqueue`, `Save`, `Recreated` and the moves of a job are proved once and cited.

### Keys

`KeysInv` is `TypeOK`, `Books` and `Plan`. `Books` is about the tables and the
gateway: `PayloadOK`, what operations name; `RowsOK`, that a key whose issuance
was not begun does not exist and one that was delivered stays issued; `LogsOK`,
that the history of a key holds operations on its budget, each once;
`UpdatedMarked`, that an operation that says updated has left its mark. `Plan`
is about the job that holds the lock: `JobOK`, for each kind of job, which
operation, key and steps belong together; `ProgressOK`, what each step knows of
its key; `WantOK`, the metadata it is going to write; `WrittenOK`, what it finds
there afterwards while nobody edits keys at the gateway. The induction needs
`WrittenOK` because the read-back, the row and the status of a budget change are
three transactions, each of which trusts what the one before it saw. Recovery
walks the same steps on behalf of another operation, hence the cases of
`RecoverJob`.

### Verification

`VerifyInv` says what evidence a test has at each place. `EvidenceOK` is about
rows and `VerdictOK` and `PolledOK` about verdicts on their way to a row: the
handler's and those of any number of drains, which were reached before a lock
was taken and may be written after something else happened. They stay true
because evidence is only added (`LogsOK`). `ClaimsOK` keeps the agent's call and
the worker's apart. `RefreshInv` needs the one drain: what it has polled still
waits, and each refresh that was started is noted or its note was lost.

### Refresh

* `TablesInv` joins the types, `SpendOK` (no call starts in the future or runs
  beyond the delay), `LedgerOK` (tables and jobs hold only what was logged),
  `StageOK` (at each step of a cycle, which rollups were already rebuilt from
  the ledger as it is) and `HeartbeatIsHonest`. A cycle that fails leaves the
  rollups before its step ahead of those after it, never behind.
* `HoleOK` is about what is logged, counts, and is not in the ledger: unless its
  agent waits for a backfill, it started less than an overlap before every row
  that is in, so the next read looks at it. Two more conjuncts say it of the rows a
  job is about to insert, and of the end of a cycle, where the mark of the
  backfill is taken back. That a nonempty ledger has a call that started last
  (`LastStart`, by the well-foundedness of the naturals) gives the watermark its
  meaning.
* `CatchesUp` is what the liveness of the refresh rests on beside scheduling:
  with `HoleOK` a load reads every call that counts and is missing, so after it
  nothing is; and with `FactCounts` (what is in the ledger still counts, which is
  where `OneTag` is needed) the comparison with the gateway then finds nothing
  unless something was logged meanwhile. TLC found both to hold in the run
  `refresh` before they were proved.

### Agent health

`HealthInv` ties a process to the run it holds. `RowOK` is about one run, its row,
the checks made and its file; `HoldOK` says for each step of `execute` how far
these three are, which is what makes `done` and the results equal at each commit;
`HoldsOK` adds that the service only works on a running row, whereas a shell may
go on with a row that was declared interrupted, and that the two never hold the
same run. `DaysOK` orders the claims of the schedule. `OneActive` is the partial
unique index. `EndedRunsStay` needs `HoldOK`: `record_result` and `finish` write
the row whatever its status, and it is where they stand that excludes a done one.

### Gateway watch

`WatchInv` has two halves. `MailInv` holds always: `RepeatsOK` says what a stop has
bought that is not used yet (a repeated mail, a second heartbeat of the day), and
`SpanOK` of the record in memory and of the one on disk that the start of an
outage is never later than the last good probe. `WholeInv` holds while every
tick was whole: then the record, wherever it is, agrees with the last mail
(`BookTold`), the probes (`BookGood`, `BookCounts`), the start of the outage
(`BookSince`) and the heartbeats (`BookBeats`).

### Budgets

`CopiesOK` bounds how long a copy of the key may differ from it by how old the
copy is; a lifetime of the cache bounds the age. `ChainsOK` says of the key and of
what each request has read that lines and budget fit together; `CurrentOK`,
that what was read is still what there is as long as nothing was written under
another request; `LinesOK`, that neither the key nor what a request will write
from lacks more confirmed lines than there were such writes. `BandsOK` compares
the band on record with the band mailed: every difference was paid for by a
mail, a file or a process that was lost.

### Prices

`PriceInv` is `LeaseInv` and `DraftOK`. `VersionsOK` says of the snapshots that all
of them lie in the row a sync writes to, the linked model or its own, with the
price of the state of the catalogue they saw; `CatalogMovesForward`, that a later
one saw no earlier state. `AttemptsOK` is where the lease counts: an attempt has the time the
lease has left or has been overtaken; while it holds the lease, nothing that is
stored is newer than what it has read, and one that was overtaken finds out in
its commit. `DraftOK`: a preview with the current revision shows the prices that
are there. That `select_price` and the replay of the decisions agree is shown by
naming the version both pick, the last one of the right kind that begins no later
than the day; the replay is a recursive function over the list of versions, and
that it returns what is picked needs no induction over the list but the
well-foundedness of the naturals: there would be a first place where the two
differ. `StatusOK`, for `RequestsAreKept`, says that a queued or failed sync is
still requested, and that a running one has a program at work on it unless a
worker died. TLC found `PriceInv` to hold in 2,870,285 states (the bounds of
`price` and wider ones), `StatusOK` in those of the run.

### Pipelines

`PipelineInv` has four parts beside the types.

* `FoldersOK` and `PullsOK` say of an update under way which files are already
  those of its own pulls, file by file of what a pull has to fetch (`OwnPull`,
  `AppsSoFar`); when nothing is left to pull, both applications have the same
  day, all of it fetched after the update began (`AppsDone`, `UsageDone`), and the
  loads take that day because no later folder exists.
* `RollupsOK` is about the two programs that write the daily rollup. Between its
  `DELETE` and its commit a build keeps the other one waiting, by the rows it has
  deleted; so a run of the operator that has computed its rollup finds no
  uncommitted one of the loop beside it, and what it computed is still what the
  tables say. After its commit the loop may compute another, from the same tables.
* `EveryCallHasItsUnit` is inductive once it is known when the acceptance of
  `load_ralli` passes: it compares the number of calls lost with the number of
  calls nobody knows. `AcceptedCalls` turns equal numbers into equal sets where
  one set contains the other; where it does not (section 5) nothing can be said,
  and the property does not say it.

TLC found `PipelineInv` to hold in 19,067,426 states, with more careers than the
run has, before it was proved.

### Only model-checked

* *Liveness and `ENABLED`.* That applies, interrupted issuances, tests, cycles, runs
  and requested syncs end, and that deleted rows return (`ApplyResolves`,
  `InterruptedIssueEnds`, `EveryTestEnds`, `EveryCallReported`, `ServiceCatchesUp`,
  `RequestIsServed`, `DeletedRowsReturnOrAreTold`), holds under fairness and stays
  with TLC. Of some the safety half is proved: `RunsEndForGood` in its conjunct
  `EndedStaysEnded`, `TestsEndForGood` in what `EndedTestsStay` says,
  `EveryCallReported` in `CyclesCatchUp`, `RequestIsServed` in `RequestsAreKept`.
* *Induction over data.* What a merge, a sum or a climb through the organisation
  computes for every input (the seven properties of `Records`) would need an
  induction the installed provers cannot apply. TLC enumerates small inputs.

## 7. What is not modelled

* The worker is split in three. The split hides how a key or a test changes what
  a deployment sees: an apply does not read keys or tests, and they read only
  the applied revision. `ConnectionKeys` lets it change whenever the lock is
  free; in `ConnectionVerify` it stays, other operations only hold the lock.
* `DataPipeline` takes an operator who runs one program at a time, and lets no
  day begin and no folder grow inside a step of the loop. Careers with a rebuild
  have an empty registry, so that nothing is waiting for a backfill there.
* `ConnectionDeploy` takes the content of a file as the revisions it was rendered
  from; what a rendering is, `ConnectionConfig` says without crashes. Spelling of
  fields, YAML and instructions are not modelled.
* How a check judges the answer of an agent (`evaluate`), how the public
  catalogue is parsed, and the estimates of cost from prices.
* Reading JSON and CSV: a file is what its rows say. `pull_latency_distribution`
  and `pull_sku_catalog`, which leave files as the modelled pulls do.
* The tables of the migrations, connection settings, and the audits of schema
  and grants; of `audit_db.py`, the checks named at the head of `Audit`.
* Requests and sessions of the API, paging, and everything the page draws.
* The status page, the containers of third parties, launchers, benchmarks,
  diagnostics: they keep nothing anybody relies on, or are an environment of
  the modelled components.
* Security (authorisation, sessions, secrets' storage) is not a subject here.

## 8. Plan

Every safety property of the models that keep state is proved. What could come
next, in the order of what it would say:

1. Pipelines: the operator's programs beside each other, as nothing but habit
   keeps them apart, and careers with a registry while a rebuild runs.
2. The status page and the containers, if they come to keep state that another
   program relies on.
