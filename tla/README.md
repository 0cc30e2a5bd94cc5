# TradingOS: formal models

TLA+ models of the parts of TradingOS where several actors share state and money,
or the trust in a run's result, depends on the order of their steps. `PROJECT.json` is the
machine-readable index: components, runs, the line of code behind every definition,
hazards, findings and theorems. All paths below are relative to the repository.

## 1. The system

TradingOS is a FastAPI process (`src/api`) with background threads and asyncio tasks, a
Postgres database that several such processes may share (`docker-compose.yml` starts
`app` and `app-tls` on one database), a paper-trading worker and a tick publisher as
processes of their own, Redis, Qdrant, Temporal, Vault and two broker APIs (Kite, Upstox).

| Part | State it keeps | Operations | Talks to |
|---|---|---|---|
| Task engine (`orchestration/task_engine.py`, `dependency_resolver.py`) | rows of `organization_runs`, `tasks`, `task_dependencies`, `result_artefacts`; in memory: one scheduler loop per driven run, an executor thread per task and a dispatch thread per attempt | poll, claim, dispatch, complete, retry, reassign, escalate, time out, finalise, flag stalled runs | agents (dispatch), approvals, run manager |
| Run manager and planner (`run_manager.py`, `planner.py`) | run rows, the queue, the plan | create, queue, plan, validate, promote, cancel, reap and resume at start-up | task engine, LLM router |
| Decisions and events (`decisions.py`, `events.py`, `api/routers/streams.py`, `useOrganizationStream.ts`) | `organizational_decisions`, `organizational_events`; the console's last sequence | detect and resolve a conflict, number, audit, publish, backfill | task engine, audit chain, browser |
| Research graph (`agents/graph.py`, `agents/nodes`, `api/routers/agents.py`) | LangGraph checkpoint, agent runs, strategies, versions, backtest results | nodes and routing, trigger, pause, resume, cancel, retry | LLM router, sandbox, approvals |
| Approvals and strategies (`approvals.py`, `api/routers/strategies.py`) | `approval_requests`, `strategies.status`, suggestions | open, approve, reject, promote, suggest, review, regenerate | task engine (`settle_run_after_approval`) |
| Live execution (`engine/live`, `api/routers/orders.py`) | `orders` rows, tracking tasks, the listener task | gate, place with back-off, record, poll, cancel | circuit breaker, kill switch |
| Circuit breaker (`brokers/circuit_breaker.py`, `factory.py`) | circuit state, failure count, opening time, queued orders: objects in memory | place, probe, fail over, queue, alert | broker adapters |
| Kill switch (`engine/risk/kill_switch*.py`) | a flag in the memory of the API process; audit entries | trip, reset | order rows, positions |
| Paper trading (`engine/paper_trading`, `workers/paper_trading_worker.py`) | the append-only `paper_trades` ledger; pipelines per symbol in the worker's memory | daily job, multi-leg orders, intraday stop-loss, manual trades | broker quotes, paper kill switch |
| Go-live gate (`engine/go_live_gate.py`, `shadow_mode*`) | shadow order attempts, paper trades, backtests | attempt, count clean days, evaluate | brokers' sandboxes |
| Sandbox pool (`engine/sandbox`) | idle workers, jobs done per worker, overflow workers | check out, execute with time-out, check in, retire, respawn | backtest jobs |
| Scheduler (`agents/scheduler.py`, `scheduled_jobs.py`) | configuration rows, the live APScheduler job, run rows | fire, run now, edit, pause, rebuild | every job |
| Chat (`chat.py`, `webhooks.py`, `adhoc.py`) | messages, replay marks and rate-limit windows in Redis | deliver, deduplicate, limit, classify, answer | run manager, LLM router |
| LLM router, prompts, skills (`llm_router.py`, `prompt_registry.py`, `agents/tools`) | token counters, provider keys, prompt versions, enabled skills in memory and rows | complete with failover, activate, toggle, grant | every agent |
| Market data (`data/providers`, `data/ingest`) | Parquet partitions, freshness records, cache files | fetch with retry and failover, merge, record | HTTP providers, planner |
| Audit chain (`core/audit*.py`) | hash-linked `audit_log` rows, archive | append, archive, monitor | every writer |
| Access (`auth.py`, `mfa.py`, `users.py`, `core/vault_transit.py`, `risk_limits.py`) | refresh-token families, key copies, change requests | log in, rotate, revoke, sign, stage, confirm, reject | Vault |

What is hard in it, and what makes each part correct:

* **Task engine.** A dispatch cannot be interrupted: after its time-out it lives on as an
  orphan and may still succeed, fail, find stale data or open an approval. Every process
  that starts reaps the unfinished runs of all processes. Correct means: no task starts
  before its inputs exist; completed work is not undone; a failure
  reaches the dependents; a run is reported completed only when it is; the loop returns.
* **Run admission and plans.** Counting and inserting are two statements; a queued run must get its
  turn; planning takes minutes, during which the run may be cancelled or the process die. Correct
  means: no run is driven without a plan, none is left in planning, the cap and the order of the queue
  hold, and an accepted plan can be executed with its safety stages in order.
* **Live orders.** A time-out does not tell whether the broker took the order; the tracking
  task, a cancellation and the kill switch write the same row from what each read earlier;
  breaker and kill switch are memory that a restart clears. Correct means: an order known to
  be placed is not placed again; a terminal row states the broker's truth; the circuit and its
  count agree; calls end.
* **Research graph.** The checkpoint and the rows are written one after the other; runs are paused, resumed and
  cancelled from outside; ideas and code are retried. Correct means: only what was tested is offered for approval,
  a recommendation is not lost, the executor ends.
* **Approvals, refresh tokens, risk-limit changes, prompts, skills, scheduled jobs.** Read, check and write without a
  row lock, or memory first and the row later. Correct means: what overlapping requests can still break is exactly
  known, and nothing else breaks.
* **Paper trading.** Three writers derive a position from the ledger and append to it later; legs fill one by one.
* **Threads nobody waits for** (chat replies, backtests, suggestion reviews, scheduled runs). Whatever raises in them, what they
  owe must be brought to an end.
* **Sandbox pool, audit chain, event log, token budget, lake.** A slot, a link, a sequence number, a token or a row
  must not be lost or counted twice when a step in the middle fails.

## 2. Modules

| Module | Models | Main properties |
|---|---|---|
| `PrecedenceExecution` | abstract: tasks produce their artefacts one by one, never before their hard prerequisites | - |
| `TaskEngine` | one run with its tasks, threads, processes, approvals, crashes; implements `PrecedenceExecution` | `FailurePropagates`, `CompletedIsFinal`, `CompletionIsEarned`, `LoopReturns`, `WaitingHasCause`, `Precedence` |
| `RunAdmission` | several runs from the request through planning and the queue to the loop, with cancellation, crashes and restarts | `PlanBeforeRun`, `PlanningIsDriven`, `OvershootIsBounded`, `OldestFirst` |
| `PlanCheck` | the planner's validation, scaffolds and attempts, search by search | `PlanVerdictIsRight` |
| `Conflicts` | opposing artefacts, the decisions and escalations recorded for them by loops that close a run | `VetoReachesHuman` |
| `EventLog` | event numbering, lock order, publication, relay, backfill, the console's filter | `CommitsInSequence`, `WaitCycleNeedsApproval` |
| `LiveOrders` | signal and manual orders, circuit breakers, tracking, cancellation, kill switch, restarts | `CircuitMatchesFailures`, `TerminalRowIsTrue`, `NeverRepeatsAKnownOrder`, `CallsSettle` |
| `ResearchGraph` | the graph's nodes and routing, one executor thread or two that overlap, checkpoint, rows, human control | `DeployOnlyTested`, `ResumeLosesNothing`, `ExecutorEnds` |
| `StrategyLifecycle` | approval requests, their deciders, promotion, suggestions and regeneration of one strategy | `PaperTradingIsApproved`, `SuggestionsResolve` |
| `PaperAccount`, `PaperLegs` | the ledger with its three writers; a multi-leg order over several cycles and versions | `PaperBooksAgree`, `LegsWithinPlan` |
| `GoLiveGate` | shadow attempts, clean days and the four conditions | `GateNeedsCleanDays` |
| `SandboxPool` | backtest jobs, pooled and overflow workers, lines on their pipes | `PoolHolds`, `BacktestsEnd` |
| `JobScheduler` | configuration row, live job and runs of one scheduled job | `SchedulerHolds` |
| `ChatIntake` | webhook deliveries, replay guard, rate limits, the answering thread | `PutBeforeAgentOnce`, `RepliesResolve` |
| `LlmRouter` | provider chain, keys, token budget, retries of the handlers | `BudgetOvershootBounded` |
| `PromptRegistry`, `SkillCatalog` | active prompt version; skills in the memory of each process and in rows | `ExactlyOneActivePrompt`, `DisabledSkillsDoNotRun` |
| `MarketData`, `BhavcopyCache` | ingestion, failover, interrupted writes and freshness; the day cache of NSE files | `LakeHolds`, `MissingOnlyIfEarlyOrTorn` |
| `AuditChain` | chain, archive and divergence monitor | `AuditTrailHolds` |
| `Sessions`, `TransitKeys`, `RiskLimits` | refresh-token families; signing keys in several caches; dual control | `RotationHolds`, `SignedIsAccepted`, `LimitsUnderDualControl` |
| `TaskEngineProofs`, `LiveOrdersProofs`, `RunAdmissionProofs`, `ResearchGraphProofs` | TLAPS proofs of the four large modules; `RunAdmissionProofs` also about `PlanCheck` | see section 5 |
| `AccessProofs` | proofs about `Sessions`, `TransitKeys`, `RiskLimits`, `PromptRegistry`, `SkillCatalog` | see section 5 |
| `WorkerProofs` | proofs about `StrategyLifecycle`, `ChatIntake`, `SandboxPool`, `JobScheduler` | see section 5 |
| `RecordProofs` | proofs about `AuditChain`, `EventLog`, `Conflicts`, `LlmRouter` | see section 5 |
| `TradingProofs` | proofs about `MarketData`, `BhavcopyCache`, `PaperAccount`, `PaperLegs`, `GoLiveGate` | see section 5 |
| `MCTaskEngine`, `MCLiveOrders`, `MCRunAdmission` | values of the constants for TLC | - |
| `MCPlatform`, `MCWorkers` | the smaller components side by side, for TLC | - |

Operators named `Mut...`, and operators named after another with an underscore (`Merged_Replaces`),
are deliberate bugs next to the definition they alter; no specification uses them. `PROJECT.json` pairs each property with
one that violates it, a conjunction with one for each half.

`MCPlatform` and `MCWorkers` compose components that share no state. A variable `unit`, chosen in the
initial state, names the one that moves; the others stand still, so the reachable states are the
disjoint union of the components' and each is explored completely on its own. `MCWorkers` is kept apart because its components
have fairness conditions. Interactions between components are inside the modules: approvals and the reaper in
`TaskEngine`, breaker, kill switch and tracking in `LiveOrders`, graph, rows and approvals in `ResearchGraph`,
the audit lock and the event lock in `EventLog`, ingestion and the research cycle in `MarketData`, chat and runs in `ChatIntake`.

### TaskEngine

The state is the database (`run`, `task`, `retry`, `agent`, `dep`, `versions`, the counts
`opened` and `pending` of the run's approval requests) and, per process, the program counter
`loop` of `run_scheduler_loop`, the ids it has still to execute (`batch`), the tasks whose
executor waits (`waiting`), and the dispatch threads that have been given up (`orphans`).

| Code | Action |
|---|---|
| `run_scheduler_loop` | `LoopStart`, `Poll`, `Execute`, `BatchDone`, then `FinalizeRead`, `FinalizeCommit`; an exception that leaves it is `LoopError` |
| `_run_dispatch_and_complete` | `DispatchOk`; its handlers are `DispatchError`, `DispatchStale`, `DispatchUnavailable`; each may belong to an orphan |
| `_handle_task_timeout` | `Timeout` |
| the research graph's approval request | `OpenApproval` |
| `approve`/`reject` and `settle_run_after_approval` | `Decide` |
| `cancel_run`, `check_stalled_runs` | `CancelRun`, `CheckStalledRuns` |
| `reap_incomplete_runs`, `_resume_reaped_run` | `Start`, `ResumeReapedRun` |

Granularity. A transaction is one step: each emits an event, and `events.emit` takes the
run's advisory transaction lock `org-event-seq:<run>`, so two of them do not overlap after their first
event; the claim and the completion are conditional UPDATEs. `_finalize` reads, then resolves
conflicts and writes memory, then commits; its read and its commit are kept apart.

Abstractions. All dependencies are hard; every agent declares every capability; approval requests
are counted, not told apart; timestamps and timings are left out, as are soft dependencies,
artefacts nobody dispositioned, and a database failure inside a failure handler. The run
is planned when the model starts. A run reaped while it is still `planning` is planned again
(`Replan`, `ReplanEnds`); since `organizational_plans.run_id` is unique, that ends in an exception and
`failed`, or in `cannot_plan`, never in a second set of tasks.

### LiveOrders

Per order: the program counter and attempt of its call and the broker that acknowledged it
(`call`), the broker's book, the row, the tracking task (`poll`), the cancel request (`loaded`,
`cancel`). Per breaker: state, failure count, whether the cooldown has passed, whether there is a
fallback. The kill switch: flag, how far `trip()` has come, the rows it found, the last audit
entry. A step runs to the next `await`, or to the next transaction where the kill-switch
endpoint (a thread) can come between.

| Code | Action |
|---|---|
| `handle_tick`, the checks of POST `/orders` | `Gate` |
| `BrokerCircuitBreaker.place_order` | `Route`, `PrimaryReply`, `FallbackReply` |
| `_place_with_backoff` | `Reraise`, `Backoff` |
| `_create_order_row`, tail of POST `/orders` | `Record` |
| `_track_until_terminal`, `_update_order_row` | `PollRead`, `PollWrite` |
| DELETE `/orders/{id}` | `CancelLoad`, `CancelSend`, `CancelWrite` |
| `kill_switch_service.trip`, `reset` | `TripFlag`, `TripRead`, `TripCommit`, `reset` |
| brokers, clock, process (external) | `Replies`, `BrokerMoves`, `Cool`, `Relisten`, `Restart` |

Abstractions. OPEN stands for PARTIALLY_FILLED too and CANCELLED for REJECTED; the latency
guard, the compliance check, agent control and an unknown strategy are one nondeterministic
input of the gate. The repository never instantiates `LiveExecutionPipeline`; the model wires it
to the switch of the API process, as the kill-switch service intends. Configurations
without a breaker (a single plain adapter), PATCH `/orders`, position flattening and concurrent `trip()` calls are left
out. `CancelWrite` follows SQLAlchemy: a column is written only if it differs from what the
session loaded. The broker's later moves of an order without a row are not modelled, because
nothing in the program reads them.

### RunAdmission

The state is the run rows (`status`, `created_at`) and the plan rows (`plans`), the requests in flight
(`request`, with the slot `create_run` found, and the process that serves each), the detached
thread of each run (`thread`, `attempt`), and the start-up hook's promotion (`promoting`, `picked`).
`revived` is history: runs that left a terminal status.

| Code | Action |
|---|---|
| `create_run`: the count, then the commit and the dispatch | `CreateCount`, `CreateCommit` |
| `_plan_run` and `generate_plan` | `PlanStart`, `PlanRejected`, `RecordCannotPlan`, `Persist`, `PlanRefresh`; its handler is `PlanRaises` |
| `run_scheduler_loop`, by its first and last transaction | `LoopStart`, `LoopEnd` |
| `settle_run_after_approval`, `check_stalled_runs`, `cancel_run` | `SettleRunAfterApproval`, `CheckStalledRuns`, `CancelRun` |
| `reap_incomplete_runs`, `_resume_reaped_run` | `Start`, `ResumeReapedRun` |
| `promote_queued`: count and select, then write and dispatch | `PromoteCount`, `PromoteWrite` |

Abstractions. What the model answers is a choice; which tasks hold a run open is `TaskEngine`'s, so
settling and finalising may happen whenever their condition on the run row holds. `created_at` is a
logical clock, which keeps the order of requests and no more. A crash between a commit and the start of the
thread it dispatches is a crash after both. `queue_position` is display data.

### ResearchGraph

One root `AgentRun`. `db` holds the rows (strategies, versions, results, approvals), `cp` what LangGraph has saved, and `x` the
executor threads, each with a program counter over the graph's nodes. `StreamStep` is the node with LangGraph's checkpoint,
`PersistStep` the step's transaction (`_persist_strategy_progress`), `PauseCheck` the look at `pause_requested`; pauses,
cancellations, resumes and crashes come between any two of them. `resume_run` is two steps, `ResumeRequest`, which finds
the row Paused, and `ResumeRun`, which writes it and starts a thread: two requests may both find it so, and then two executors
drive one `thread_id`, and a request may write after the run was cancelled. `overlapped` marks the runs that were resumed when they were not
Paused any more; of those only `ExecutorEnds` is claimed. What a model or a backtest answers is a
choice; an idea is the number of the output that proposed it, so that "the legs of this idea" is an equation. `StepLimit` is
LangGraph's recursion limit scaled down with the retry counters: the graph can still reach it from a full round of code
retries and one rejection.

### The smaller modules

Common conventions. A request that reads and later writes without a lock has two actions and a record of what it read;
whoever must not be lost when a process dies is a row, whatever dies with it is a function of threads or processes.
Where the code cannot keep a promise under overlap, a history variable (`overlapped`, `late`, `contested`, `collided`, `excused`,
`lost`, `recronned`, `legOverlap`, `turned`, `stranded`, `torn`, `disturbed`) marks exactly the executions in which that happened, and the property covers all others; the
divergence itself is in section 4. External systems (Vault, NSE, brokers, chat platforms, PostgreSQL's locks and deadlock
detection, the sandboxed strategy code) are marked external in the map and may answer, fail, hang or repeat at will.

* `PlanCheck` runs the planner's loops and its recursion step by step: `path` is the stack of `visit`, `reach` the closure that
  `_assert_safety_order` computes pass by pass, `at` the position in a loop. The property states acyclicity and order independently of these searches:
  in every set of tasks one depends on none of the others, and a task is behind another if it is in every set closed under prerequisites. The
  instance has all plans of three tasks over five capabilities, up to the names of the tasks, the plans of four tasks with at most one
  prerequisite each, and the plans refused at first sight.
* `AuditChain` models a hash as the pair it is computed from. The monitor may run beside writers and the archive pass; tampering
  behind the application is an action.
* `PaperAccount` keeps `replay_ledger`'s running totals and not the ledger's rows. Average cost and realised profit are exact fractions, so that the money
  can be compared exactly; the code computes them in floats.
* `Conflicts` takes an artefact as its type and the one view the comparison looks at; of several rows of a type any may be
  the first. Detection and commit are two steps, so that two loops can both look before either commits.
* `StrategyLifecycle` keeps what a decider or a promoter has read (`decider`) apart from what it writes later. `contested` marks a decision
  written over another one of the same request, and a promotion committed although a request was opened or decided since its check. `stranded` names the
  suggestions whose thread died, with its process or by an exception that no handler covers.
* `PaperLegs` takes a version's legs as a function from symbols to signed quantities, the legs of one version being distinct symbols; a new
  version has any other such function. What the latest entry ordered of a symbol is `legSize`.
* `SkillCatalog` has a registry for each process over one set of rows. A caller that gives no agent's name needs no grant
  (`registry.py:82-88`), so a disabled row is all that holds it back.
* `MarketData` writes a partition in place: `WriteInterrupted` leaves some months merged and others not, or a file that cannot be read
  (`torn`). The partitions of a symbol are one value.
* `ChatIntake` covers the 24 hours a replay key lives (`webhook_replay.py:10`); a redelivery after that is a new update to the code.
* `SandboxPool` models a pipe as a sequence of lines, so that a late answer or a `print` of the strategy is read by the next job if
  nothing prevents it.
* `EventLog` has two advisory locks, taken in one order by audited events and in the other by approvals: the human decisions, and the
  engine's own transaction when a research task opens an approval request. A wait cycle ends in a rollback. Frames are published before the commit and ingested by the console in any interleaving with its backfill.

## 3. Runs

| Run | Instance | Shows |
|---|---|---|
| `engine` | one process, `a`, `b` -> `c`, two agents, one retry, two approvals, two agent switches, one crash and restart | failures propagate, completed stays completed, completion is earned, fair loops return |
| `engine_siblings` | two processes, `a` -> `b`, two starts, cancellation | a task that waits has something to wait for; the engine implements `PrecedenceExecution` |
| `live_orders` | one signal, one manual order, threshold 2, two retries, one poll, one trip, one cancellation, one restart, with and without fallback | circuit and count agree, terminal rows are true, a known order is not repeated, calls settle |
| `admission` | one process, three interchangeable runs, cap 1, two requests at a time, two attempts, one restart, cancellation | plan before run, planning is driven, bounded overshoot, oldest first |
| `research` | two ideas, two code retries, one rejection, one pause, step limit 12 anew for each executor, two requests to resume at once where the run paused before `risk_manager` | only tested versions are offered, nothing is lost on resume, executors end, two of one run included |
| `platform` | fifteen components, one per behaviour | one property per component, two for the event log |
| `workers` | four components, one per behaviour | suggestions, scheduled runs, backtests and replies end; approval, pool and replay protection hold |
| `engine_orphan`, `live_duplicate`, `admission_queue`, `research_legs`, `console` | the smallest instances that show it | findings 1-5 |

Why the bounds are enough. In `engine` two prerequisites run in a pool of two while the third
task waits, so a join, a partial failure, a retry that runs out, a reassignment that finds another agent and one
that finds none all occur; one restart separates the code's two kinds of reaped task (safe and
unsafe). `engine_siblings` has two starts so that the second process can come up, or the first come
back, while the other is driving. In `live_orders` threshold 2 with two retries lets one order open the
circuit, be diverted, and probe it again after the cooldown. In `admission` two overlapping
requests exceed a cap of one while a third run queues, and one restart finds runs in every status and
promotes what is queued; the three runs are symmetric, since nothing but `created_at` tells them apart. In `research` a first attempt can
reach the recommendation, a rejected idea is followed by another and a failed check by a second version, which a resumed executor
with its fresh step budget brings to the end; a run can be paused, cancelled or lost anywhere in between. Overlapping resumes are explored from the
node where their rows collide most (`OverlapNodes`), and the ideas of `research` are F&O ideas with or without legs (`AssetClasses`; both classes are in `research_legs`); the theorems allow any number of pauses and requests, anywhere.
In `platform` and `workers` every set of concurrent requests has two members, the least that overlaps, and the bound on rows leaves
room for a third after two have collided: three refresh tokens give a row, two successors or a successor's successor; three keys a version
below the floor; three audit ids a link lost in the middle; three fills at two prices a reversal after a partial close (a cycle sells two shares it read before one was sold by hand) and an average that is not whole; a
chain of two providers with two attempts a retry and a failover, for one symbol (symbols
meet only where the job ends; the theorem is about any number), over three days, so that a record of yesterday's job can be told from one of today's; two processes with one skill (skills do not
interact), two versions of two legs; one approval beside two other transactions; three days with `MinCleanDays` 2 a streak that is broken
and one that is not; four artefacts an opposition that hides another; a pool of one with two workers an overflow; three deliveries a redelivery
of an update that was refused. Threads and requests that are alike take the next free slot (`FreeJob`, `FreeDecider`). Counters that the code does not bound are bounded by constants in the guards.
Deadlock is not checked where finished work in a process that never restarts is a proper end; in `LiveOrders` `reset` is always possible.

Fairness. `TaskEngine!Fairness`: the statements of a live scheduler loop are executed, and
`future.result(timeout=...)` returns after `timeout_seconds`. Nothing is assumed of a
dispatch, an administrator or a crash. `LiveOrders!FairSpec`: a placement under way goes on, because
the HTTP client has a ten-second time-out and asyncio wakes a sleeping coroutine. Nothing is assumed of
tracking tasks, cancellations, humans or the brokers' later behaviour; `CallsSettle` speaks of signal orders.
`RunAdmission!FairSpec`, used by the violated liveness property only: a thread of a live process goes on (the
planner's model calls and the tasks have time-outs), a request and the start-up hook end. `ResearchGraph!Spec`: each executor thread goes on, since
every call inside a node has a time-out. `MCWorkers!Fairness`: a thread that was started takes its next step, the read of a worker's
pipe included because it has a time-out; nothing is assumed of the sandboxed code, the chat platforms or any human.

## 4. Findings

Each is a run that must be violated; `PROJECT.json` quotes the line of the code's own documentation.

1. `engine_orphan`. The handlers of a failed dispatch write the task's status without looking
   at it, so an orphan that raises after its time-out resurrects the failed task, which the
   comment at `task_engine.py:154-156` excludes.
2. `live_duplicate`. A placement that timed out after the broker took it is retried, against
   `circuit_breaker.py:4-6`.
3. `admission_queue`. `promote_queued` runs at start-up only: a queued run stays queued after the run
   ahead of it has ended, against FR-009 (`specs/001-ceo-led-trading-org/spec.md:227`).
4. `research_legs`. The option legs staged for a rejected F&O idea are stored with a later equity idea's version
   (`api/routers/agents.py:811`).
5. `console`. The console ingests live frames while its backfill is under way and then drops the backfilled events, against
   `useOrganizationStream.ts:13-15`.

Traces the models also contain, without a run of their own:

* Engine. `mark_unsatisfiable` is not transitive: a failure of `a` in `a -> b -> c` leaves `c` waiting and the run parked
  (`dependency_resolver.py:174` against `task_engine.py:101-103`). A process that starts re-arms a task another process is running
  (`run_manager.py:248` against `task_engine.py:6-7`), and a completed task may be executed again. A cancelled run is overwritten by
  `LoopStart`, by `_finalize` or by `cannot_plan` (`task_engine.py:80`, `planner.py:434`). The reaper fails an unsafe task without telling
  its dependents; `settle_run_after_approval` completes a run that has an escalated task.
* Conflicts. Only the first opposition is recorded: market against sentiment hides a risk `Reject` or a compliance `Block`, and no human is
  told; two loops may record one twice (`task_engine.py:450-451`: "any conflict gets a recorded `resolve_conflict` decision").
* Live. An order that passed the gate, or waits for its retry, is placed after the kill switch tripped, its row created after the sweep
  (`orders.py:305`); `trip()` marks rows without telling the broker; a restart clears a tripped switch (`kill_switch.py:28-32`); an
  exception of one tick ends the listener (`tick_listener.py:64`).
* Plans. Of a safety stage that is planned twice only the last task is checked (`planner.py:245` keeps one key per capability).
* Admission. The cap is exceeded by two overlapping requests, or by a cancelled run that its loop sets back to running; a process that dies between its
  plan's commit and the loop's first write leaves a run that is closed as failed instead of resumed (FR-019). With two
  processes a promoter with a stale selection plans a finished run again, which is why the theorems assume one process.
* Overlapping resumes. Two `POST /resume` of one paused run both find it Paused (`agents.py:1890-1915` takes no lock) and start two executors on one
  `thread_id`. Paused before `risk_manager`, one of them persists a risk `Reject` while the other goes on to the deployment: an approval request for a
  rejected version. A resume that commits after a cancellation revives the run, and one that comes late starts from an old snapshot of the tracking
  with the current checkpoint. The 400 for a run that is not Paused (`agents.py:1894-1897`) holds only one at a time.
* Approvals. Two deciders of one request may both pass the pending check, and the later commit re-decides it, a rejection over an
  approval or the reverse, against `approvals.py:43` ("a decided request is never silently re-decided"); a promotion that looked before a
  rejection, or before a new request, commits after it, against `approvals.py:57-58` ("a later rejection is never overridable").
* Locks. A research task that opens an approval request writes the audit entry (`agents.py:1010`) before the event (`agents.py:1030`), so
  its transaction and an audited event of another task of the run can wait for each other without any human in the cycle; PostgreSQL ends one of them.
* Suggestions. What is raised between the two try blocks (`agents.py:1616-1673`: the commit of the verdict, the `AgentRun` row, the account's capital and
  portfolio), or by the handlers' own commits, leaves a suggestion Reviewing, against `agents.py:1774` ("must always resolve the suggestion, even on failure").
* Research and strategies. A run resumed in the engine has no `org_run_id`; the escalation after five rejections is out of reach of
  recursion limit 25. A suggestion becomes Applied although its code was blocked (`agents.py:1515`), and a regeneration's
  verdict is written to whichever version is current.
* Paper trading. The worker never sees the paper kill switch trip in the API process (`paper_kill_switch.py:33-40`); the daily job sells a
  quantity it read before the stop-loss sold it; overlapping cycles take a leg past its plan. A regenerated version may carry a held
  symbol with the other side (`agents.py:1403-1432`); its exit takes the new plan's side (`daily_signal_job.py:278-281`) and adds to the position it should close. A held leg whose
  symbol the new version drops is never left.
* Threads. A sandbox thread that raises outside its handler leaves the job Running (`strategies.py:538`); overflow workers are not bounded
  (`pool.py:177`) and a failing respawn loses a slot (`pool.py:187`). A chat callback that raises overwrites Completed, and a
  `create_run` that raises leaves a message Pending (`adhoc.py:104`); an update marked seen and then refused by the rate
  limit is lost, its redelivery being taken for a replay, while one that comes after the key's 24 hours is handled again. A database error while the
  thread watches its run (`adhoc.py:190-204`) or asks whether the agent is enabled (`chat.py:146-157`) leaves the reply Pending.
* Orders. An order the broker acknowledged whose row cannot be written (`execution_agent.py:137-144`) has no row; the caller gets an exception and nothing tracks it.
* Skills. A skill disabled through one process stays enabled in the other until that one restarts (`docker-compose.yml` starts `app` and `app-tls`), against
  `registry.py:3-5`.
* Administration. A cron change while a job is off re-activates it (`scheduler.py:762`); overlapping toggles leave memory and row of a skill
  apart, and a boot without the database enables all skills (`registry.py:140`). The go-live gate counts trades of earlier
  versions (`go_live_gate.py:135`), and `/status` speaks of 5 clean days where the gate asks for 10.
* Data. A dataset is fresh although unresolvable symbols were skipped; a record of yesterday's job still counts (`freshness.py:187`) although its
  data end the day before yesterday. Two writers of one partition lose rows. `write_parquet` overwrites the file in place (`writer.py:38`): a crash in the middle
  loses the month, and every later job raises at that file; a crash between two months can leave a hole that the next job, which starts after the
  last day, never fills. A day asked for before
  NSE publishes it is cached as missing for good.

## 5. Proofs

TLAPS, for every value of the constants that satisfies the named assumptions.

`TaskEngineProofs` (assumptions: `DepsAssumption`, `SubsetsAssumption`, `NamesAssumption`,
`NumbersAssumption`).

* `TypeCorrect`: `TypeOK` needs `CommitHasVerdict`, since `FinalizeCommit` writes the verdict into the run.
* `RowsCorrect`, `InputsCorrect`: by `IInv`. `InputsBeforeWork` is not inductive: the dispatch is started on what the
  dependency rows say, so `IInv` ties the rows to the artefacts (`RowsMatchArtefacts`) and every task that is ready, running or
  worked on, also by an orphan, to satisfied rows (`WorkedOnIsSatisfied`). The second survives because a row that is
  satisfied never changes again; `CompletionStep` is the one action that creates an artefact,
  and `OtherSteps` covers the rest.
* `FailuresPropagate`: for any number of processes, by `IInv` and case analysis on who writes a final status (`Tells`: whoever does
  tells the dependents, or restarts the process, which the property excepts).
* `CompletionsLast`: for one process (`Procs = {Primary}`), by `OneThread`: a task has at most one thread, the executor's or an
  orphan, and while it has one the task is running, failed or cancelled, so nothing late can meet a completed one. With two processes it is false: the second one's reaper
  re-arms a task the first is about to complete (section 4).
* `CompletionsEarned`: for one process and a run nobody cancels. `_finalize` commits what it read in an earlier transaction; `Earned` says
  that a verdict `completed` in its hands is still true, as completions last and no approval is opened once all tasks are completed. Both hypotheses are
  needed: `CancelRun` takes tasks from under a verdict, and another process may re-arm one.
* `WaitsAreJustified`: for every acyclic plan, any number of processes, restarts, orphans and cancellations. When no task is ready and some are left, one is
  running or one waits for a prerequisite that ended without a result. Of the tasks that are left take one that depends on none of the others (that
  is what acyclic means here, and what `PlansJudgedRight` below shows of every accepted plan): its prerequisites are over, a completed one has a result
  (`CompletedHasResult`), and a task one of whose rows has failed is itself over (`RowsBlock`).
* `EnginePrecedence`: the engine implements `PrecedenceExecution` with `done` mapped to the tasks that have an artefact;
  the step that produces an artefact does so for a live dispatch, whose inputs exist by `InputsBeforeWork`.

`LiveOrdersProofs` (assumptions: `ActorsAssumption`, `LimitsAssumption`).

* `Inductive`: `Spec => []IInv`. `RoomLeft` keeps the counters in their types; `AckComesFirst` says nothing is known of an order
  before a broker acknowledged it, so that the row, the poll and the cancellation start from
  nothing; `InHandIsTrue` says that a terminal status in the hands of a tracking task or a
  cancellation is still true when it is written (a terminal status at the broker is final);
  `FallbackUnseen` and `ManualBreakerIsNew` do the same for failed-over and manual orders.
* `LiveTypeCorrect`, `CircuitCorrect`, `TerminalRowsAreTrue`, `ManualNeverFailsOver`,
  `FailedOverRowsAreBlind` are its conjuncts, `NeverRepeats` an action property that follows from
  `AckComesFirst`. `ManualNeverFailsOver` needs a failure threshold above one.

`RunAdmissionProofs` (assumptions: `RunsAssumption`, `ProcsAssumption`, `LimitsAssumption`; `PlanAssumption` for the plans).

* `AdmissionTypeCorrect`: for any set of processes; needs `PickedIsRun`, since `PromoteWrite` writes the row of what was selected.
* `PlanFirst`, `PlanningDriven`, `QueueInOrder`: for one process (`Procs = {Primary}`) and any number of runs, requests, restarts and
  cancellations, by `IInv`. `PlanBeforeRun` is not inductive: `LoopStart` writes `running` without looking, so `ThreadHasPlan` says
  that a thread on its way to the loop has a plan, also one that has just planned a run that is still
  `planning`; `RequestComesFirst` says that nothing but its request knows of a run without a row; `PromotionIsAlone` that while the
  process is down or its hook promotes no request is in flight, so that what was selected stays the oldest.
  `RunByRun` restates `IInv` as a predicate of one run, and `OneRunStep` reduces every step that touches one row and one thread to it.
* `OvershootBound`: for one process, by `CapInv`. The active runs alone are no inductive measure, since a request counts first and inserts
  later; `Counted` adds the runs that a request or the promoter has already let in, and its cardinality grows only when the count
  was below the cap.

* `PlansJudgedRight`: for plans of any size, by `PlanInv`. The visited tasks are grounded (a set of them always has a first one), the stack is
  a chain of distinct tasks each a prerequisite of the one below, so a task met again closes a cycle and a search that ends leaves an executable plan; `Reaches` lies
  between the direct prerequisites and what is behind a task, and a pass without growth has made it closed, hence equal to `Behind`;
  `HasContext` survives the second validation. `PlanAssumption` describes the constants of `planner.py`: a scaffold closed under its own
  prerequisites, and capabilities of the ad-hoc scaffold that are no strategy capabilities.

`ResearchGraphProofs` (assumption: `BoundsAssumption`).

* `DeploysOnlyTested`, `ResumesLoseNothing`: by `ResearchInv`, which says nothing of a run marked `overlapped` until it is retried, and of any other that one
  thread at most drives it (`OneDriver`): a request that found the run Paused resumes it only while it still is, and then the last executor is gone. `RowsFit` says which rows go with a state of the graph: a node that works
  on an idea has its strategy, one that works on code has its current version, one that works on a backtest has the result of that
  version. `NodeEffect` says what each node may change of this and `Edge` where it leads; one lemma for each kind of node shows that `PersistProgress`
  turns rows that fit the state before the node into rows that fit the state after it. `ExecutorFits` is the reason why nothing is
  lost: between steps the rows fit the thread's state, and while a step waits for its transaction they still fit the one before;
  `RootFits` carries that to the checkpoint of a paused or completed run. `Tested` says it of everything up for approval.

`AccessProofs` (assumptions: `SessionsAssumption`, `KeysAssumption`, `RiskLimitsAssumption`, `PromptAssumption`).

* `RefreshRotation`: two exchanges of one row that are under way know of each other (`RivalsKnow`), and an exchange within a killed
  family was under way when it was killed or descends from one that was (`KilledIsLate`). Both need the lineage of the rows (`LineageOK`).
* `TokensAccepted`: a copy of the keys that is still used is what Vault once had (`CopyIsOld`), and floor and latest version only rise.
* `DualControl`: what one request alone has read is still pending (`UncontestedIsPending`); requests that share a change are the contested ones.
* `OneActivePrompt`: the invariant is the property with the shape of the rows.
* `DisabledSkills`: a request that will write the row of a skill has already set its process's memory to what it will write, and is alone
  with that skill in that process unless the pair is excused (`WriterIsAlone`); the property is inductive with it in the form `OffIsNotOn`, which
  does not ask who calls.

`WorkerProofs` (assumptions: `LifecycleBounds`, `ChatBounds`, `PoolBounds`, `SchedulerBounds`).

* `PaperNeedsApproval`: only the latest request can be pending, so a decision is on the latest one or is contested, and whoever promotes saw the latest
  request approved (`LifecycleInv`); if nothing was contested, it still is.
* `DeliveredOnce`: at most one request for each update is past the replay check, and only before the rows are inserted (`OnePastReplay`).
* `PoolIsSafe`: a job has its worker alone (`SeatsOK`); as long as nothing was printed, a worker's pipes hold the job it was sent or its
  answer and nothing else (`PipesHold`); `PoolCounts` states the sum with the finite sets it counts, hence `IsFiniteSet(Workers)`.
* `ScheduleFollowsConfig`: `LiveFollowsConfig`, the safety half of `SchedulerHolds`, since what a PUT under way will make of the job
  is what its committed row says (`PutsAgree`).
* `ScheduledRunsEnd`, `BacktestsComeToAnEnd`, `RepliesAreResolved`: the liveness properties of scheduled runs, backtests and replies, for any number of them. Each rests on a
  safety invariant that says who attends to what is open (`RunsAttended`: a run that is open has a thread; `JobsAttended`; `RepliesAttended`), on the fact that every step of that
  thread brings it further along a fixed order of phases, and on weak fairness of that one thread, whatever all the others do. What the prover
  cannot derive, that a thread under way can take a step (ENABLED), is the hypothesis (`RunsCanEnd`, `JobsCanMove`, `AnswersCanMove`). It can be read
  off the guards, and TLC finds it true in every state of the instance of `workers`.

`RecordProofs` (assumptions: `AuditAssumption`, `EventBounds`, `ConflictBounds`, `LlmBounds`; the first two keep the name of an open lock, `"free"`, apart
from the transactions).

* `TamperEvident`: the lock's holder is the only writer with a flushed row, and that row continues from the last committed one (`TxOK`), so commits and
  rollbacks keep the chain (`ChainOK`, which is `verify_chain` row by row). The monitor's verdict is right because what it read first
  bounds what it reads later (`MonList`, `MonCheck`).
* `OnlyApprovalsBlock`: transactions of one kind take the locks in one order (`OrdersOK`), so the holder of the first waits at most for one of the other kind. `SequenceHasNoGaps`: who has the run's
  lock has the next number (`LocksOK`).
* `VetoesReachHumans`: a loop about to commit holds what there is to find, since artefacts no longer change when loops close, or a resolution
  is already on record (`FoundIt`).
* `BudgetHolds`: `OvershootShared` counts the threads whose call may still be charged; once the budget is used up each call takes
  its thread out of that set.

`TradingProofs` (assumptions: `MarketDataBounds`, `PaperBounds`, `LegBounds`, `GateBounds`).

* `LakeIsSafe`: a writer alone with its partition has read what is there (`ReadIsCurrent`); the symbols a job is done with reach the day it started on
  except where it failed, noted a gap or a file was torn (`JobCovers`), and a fresh record says so of that day (`FreshIsCovered`). `Symbols # {}`: with no symbol at all an empty job counts as fresh and covers nothing.
* `MissingRows`: an empty file stands for a day that was asked for too early (`EmptyIsEarly`).
* `BooksAgree`: realised profit is what was received plus what the open position cost (`LedgerBalances`), because adding, closing and reversing each keep that equation
  (`AveragingBalances` for the new average); and with the order under way, the ledger will show what the pipeline believes (`OrderCompletesPosition`). The
  equation is exact for exact fractions; the code's floats (`position_accounting.py:67`) satisfy it up to their rounding, about which nothing is claimed.
* `LegsStayInPlan`: the orders still to send name each leg once and none would take its leg past the size of its entry (`Fitting`); a leg that is open or on order
  has the side its version plans, unless a version turned it (`LegsApart`).
* `GateIsSafe`: the two histories, one of days and one of outcomes, say the same (`HistoriesAgree`).

The small modules' assumptions otherwise only say that bounds are natural numbers. Finiteness is assumed where a cardinality is bounded
(`Runs`, `Workers`, `LlmThreads`, the legs of a plan). Facts of least and greatest elements of sets of numbers (the last row of a log, the first
pair of a chain, the last clean day) are proved from `WFMin` of `WellFoundedInduction`, which takes no operator.

`TypeOK`, `RowsMatchArtefacts`, `InputsBeforeWork`, `ManualOrderNeverFailsOver` and `FailedOverRowIsBlind` are proved and no longer among the
runs' properties, which are left to what the proofs do not cover or only support.

Model-checked only: the liveness properties `LoopReturns`, `CallsSettle`, `ExecutorEnds` and `SuggestionsResolve`, whose arguments count retries, steps or rows down to
a bound that is a constant, which is an induction over a temporal formula; that a thread under way has an enabled step; and the
engine's and the admission's properties with more than one process or with cancellation where the theorems assume otherwise. Every safety property of a
passing run is a theorem.

## 6. Plan

What is left is proof.

1. More than one process: what of `CompletedIsFinal` and `PlanBeforeRun` survives a second process (a weaker property that excepts what its reaper
   touched), for every plan.
2. The four liveness properties above, once a prover can do induction over a temporal formula, and the enabledness hypotheses once it knows ENABLED.
3. A bound on the rounding error of the books, the code's floats being fractions only approximately.

## 7. Not modelled

Numerical code (backtests, optimisation, Greeks, slippage, margin, equity, correlation) works on floats and
data frames, out of TLC's reach. Features, memory, observability, front end (but for the one hook with a protocol),
text UI, schema and the remaining API routers are I/O or single-row reads and writes without a protocol between
actors. Cryptography, Vault, Redis, Qdrant, Temporal and the brokers are external; the Monte Carlo worker is one activity whose
retries are Temporal's. PATCH `/orders`, position flattening, editing a strategy's name and description, and prompts and artefact contents are
left out of otherwise modelled components. `PROJECT.json` lists each part with its reason.
