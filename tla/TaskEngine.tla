------------------------------ MODULE TaskEngine ------------------------------
(***************************************************************************)
(* The orchestration task engine of TradingOS driving ONE organisation run *)
(* whose plan is already persisted: src/orchestration/task_engine.py,      *)
(* dependency_resolver.py, the settling and reaping half of run_manager.py *)
(* and the cancel endpoint of api/routers/organization.py.                 *)
(*                                                                         *)
(* Actors: the scheduler loop of each API process, the executor thread     *)
(* that waits for a task with a timeout, the dispatch thread that runs the *)
(* task's agent (it outlives a timeout as an orphan), a human deciding     *)
(* approvals and cancelling, the periodic stall check, and process crashes *)
(* and starts. All of them share the rows of one Postgres database; a step *)
(* is one committed transaction (see README.md for the transactions whose  *)
(* read and write are kept apart).                                         *)
(***************************************************************************)
EXTENDS Naturals, FiniteSets

CONSTANTS
    Tasks,        \* tasks of the plan
    Deps,         \* hard TaskDependency rows, <<prerequisite, dependent>>
    Safe,         \* tasks whose capability is concurrency-safe
    Research,     \* strategy_research tasks, which may open an approval
    Agents,       \* agents declaring the capability of every task
    FirstAgent,   \* the agent the plan assigns
    Procs,        \* API processes sharing the database (app, app-tls)
    Primary,      \* the process that planned the run
    PoolSize,     \* org_task_pool_size
    MaxRetries,   \* Task.max_retries
    MaxStarts,    \* bound: process starts
    MaxToggles,   \* bound: agent enable/disable operations
    MaxApprovals, \* bound: approval requests the run opens
    Cancellable   \* bound: whether a human may cancel the run

ASSUME DepsAssumption == Deps \subseteq Tasks \X Tasks
ASSUME SubsetsAssumption == Safe \subseteq Tasks /\ Research \subseteq Tasks
ASSUME NamesAssumption == FirstAgent \in Agents /\ Primary \in Procs
ASSUME NumbersAssumption ==
    /\ PoolSize \in Nat \ {0}
    /\ MaxRetries \in Nat
    /\ MaxStarts \in Nat /\ MaxToggles \in Nat /\ MaxApprovals \in Nat
    /\ Cancellable \in BOOLEAN

VARIABLES
    run,      \* OrganizationRun.status
    task,     \* Task.status
    retry,    \* Task.retry_count
    agent,    \* Task.assigned_agent
    dep,      \* TaskDependency.state
    versions, \* number of committed ResultArtefact rows of each task
    enabled,  \* agents that are administratively enabled
    opened,   \* approval requests opened so far for this run
    pending,  \* the ones still pending
    up,       \* processes that are running
    loop,     \* program counter of run_scheduler_loop in each process
    driver,   \* who called the loop: "plan" (_plan_run) or "resume"
    batch,    \* ready_ids the loop has still to execute
    waiting,  \* tasks whose executor waits on a dispatch thread
    orphans,  \* dispatch threads whose executor gave up on them
    verdict,  \* what _finalize read and is about to commit
    starts, toggles

db == <<task, retry, agent, dep, versions>>
approvals == <<opened, pending>>
threads == <<batch, waiting, orphans, verdict>>
env == <<enabled, starts, toggles>>
vars == <<run, db, approvals, up, loop, driver, threads, env>>

RunStatus == {"planning", "running", "waiting", "stalled",
              "completed", "failed", "cannot_plan", "cancelled"}
TaskStatus == {"planned", "ready", "running", "waiting_for_dependency",
               "blocked", "completed", "failed", "retrying",
               "escalated", "cancelled"}
DependencyState == {"unsatisfied", "satisfied", "failed"}

ACTIVE_STATUSES == {"planning", "running", "waiting", "stalled"}
TERMINAL_RUN_STATUSES == {"completed", "failed", "cannot_plan", "cancelled"}
TERMINAL_TASK_STATUSES ==
    {"completed", "failed", "blocked", "escalated", "cancelled"}
NONTERMINAL == TaskStatus \ TERMINAL_TASK_STATUSES

-----------------------------------------------------------------------------
(***************************************************************************)
(* dependency_resolver.py                                                  *)
(***************************************************************************)
HardDeps(t) == {d \in Deps : d[2] = t}

\* Mutant: a row that has not failed counts as satisfied.
MutSatisfiedUnlessFailed(dp, t) == \A d \in HardDeps(t) : dp[d] # "failed"

Satisfied(dp, t) == \A d \in HardDeps(t) : dp[d] = "satisfied"

READY_CANDIDATES == {"planned", "ready", "waiting_for_dependency", "retrying"}

ReadyTasks == {t \in Tasks : task[t] \in READY_CANDIDATES /\ Satisfied(dep, t)}

AfterReadyTasks ==
    [t \in Tasks |-> IF t \in ReadyTasks THEN "ready"
                     ELSE IF task[t] \in READY_CANDIDATES
                          THEN "waiting_for_dependency" ELSE task[t]]

\* evaluate_on_completion: the rows the completed task satisfies ...
DepsAfterCompletion(t) ==
    [d \in Deps |-> IF d[1] = t /\ dep[d] = "unsatisfied"
                    THEN "satisfied" ELSE dep[d]]

\* ... and the dependents it wakes.
Woken(t) ==
    {u \in Tasks : /\ <<t, u>> \in Deps
                   /\ dep[<<t, u>>] = "unsatisfied"
                   /\ task[u] \notin TERMINAL_TASK_STATUSES
                   /\ Satisfied(DepsAfterCompletion(t), u)}

TasksAfterCompletion(t) ==
    [u \in Tasks |-> IF u = t THEN "completed"
                     ELSE IF u \in Woken(t) THEN "ready" ELSE task[u]]

\* mark_unsatisfiable: the unsatisfied rows of the failed prerequisite fail ...
DepsAfterFailure(t) ==
    [d \in Deps |-> IF d[1] = t /\ dep[d] # "satisfied"
                    THEN "failed" ELSE dep[d]]

\* ... and its direct dependents are blocked (they alone: not transitive).
BlockedBy(t) ==
    {u \in Tasks : /\ <<t, u>> \in Deps
                   /\ dep[<<t, u>>] # "satisfied"
                   /\ task[u] \notin TERMINAL_TASK_STATUSES}

\* Mutant: the rows fail and nobody is blocked.
MutRowsOnly(t, s) == [task EXCEPT ![t] = s]

TasksAfterFailure(t, s) ==
    [u \in Tasks |-> IF u = t THEN s
                     ELSE IF u \in BlockedBy(t) THEN "blocked" ELSE task[u]]

\* Task t ends for good with status s and its dependents are told.
EndUnsatisfiably(t, s) ==
    /\ task' = TasksAfterFailure(t, s)
    /\ dep' = DepsAfterFailure(t)

-----------------------------------------------------------------------------
Init ==
    /\ run = "planning"
    /\ task = [t \in Tasks |-> "planned"]
    /\ retry = [t \in Tasks |-> 0]
    /\ agent = [t \in Tasks |-> FirstAgent]
    /\ dep = [d \in Deps |-> "unsatisfied"]
    /\ versions = [t \in Tasks |-> 0]
    /\ enabled = Agents
    /\ opened = 0 /\ pending = 0
    /\ up = {Primary}
    /\ loop = [p \in Procs |-> IF p = Primary THEN "start" ELSE "off"]
    /\ driver = [p \in Procs |-> "plan"]
    /\ batch = [p \in Procs |-> {}]
    /\ waiting = [p \in Procs |-> {}]
    /\ orphans = [p \in Procs |-> [t \in Tasks |-> 0]]
    /\ verdict = [p \in Procs |-> "none"]
    /\ starts = 0 /\ toggles = 0

Goto(p, l) == loop' = [loop EXCEPT ![p] = l]

-----------------------------------------------------------------------------
(***************************************************************************)
(* run_scheduler_loop                                                      *)
(***************************************************************************)
\* The loop's first transaction: whatever the status was, the run is running.
LoopStart(p) ==
    /\ loop[p] = "start"
    /\ run' = "running"
    /\ Goto(p, "poll")
    /\ UNCHANGED <<db, approvals, up, driver, threads, env>>

Poll(p) ==
    /\ loop[p] = "poll"
    /\ task' = AfterReadyTasks
    /\ batch' = [batch EXCEPT ![p] = ReadyTasks]
    /\ Goto(p, IF ReadyTasks = {} THEN "finalize" ELSE "execute")
    /\ UNCHANGED <<run, retry, agent, dep, versions, approvals, up, driver,
                   waiting, orphans, verdict, env>>

\* Safe tasks go to the pool; the others run alone, once the pool is joined.
MayExecute(p, t) ==
    IF t \in Safe
    THEN Cardinality(waiting[p]) < PoolSize
    ELSE batch[p] \cap Safe = {} /\ waiting[p] = {}

\* _execute_task: the conditional UPDATE ready -> running, then the dispatch
\* thread; a task that is no longer ready is skipped.
Execute(p, t) ==
    /\ loop[p] = "execute"
    /\ t \in batch[p]
    /\ MayExecute(p, t)
    /\ batch' = [batch EXCEPT ![p] = @ \ {t}]
    /\ \/ /\ task[t] = "ready"
          /\ task' = [task EXCEPT ![t] = "running"]
          /\ waiting' = [waiting EXCEPT ![p] = @ \cup {t}]
       \/ /\ task[t] # "ready"
          /\ UNCHANGED <<task, waiting>>
    /\ UNCHANGED <<run, retry, agent, dep, versions, approvals, up, loop,
                   driver, orphans, verdict, env>>

BatchDone(p) ==
    /\ loop[p] = "execute"
    /\ batch[p] = {} /\ waiting[p] = {}
    /\ Goto(p, "poll")
    /\ UNCHANGED <<run, db, approvals, up, driver, threads, env>>

-----------------------------------------------------------------------------
(***************************************************************************)
(* The dispatch thread, _run_dispatch_and_complete: it ends in one of four *)
(* ways, and may do so after its executor has given up on it.              *)
(***************************************************************************)
Live(p, t) == t \in waiting[p] \/ orphans[p][t] > 0

ThreadEnds(p, t) ==
    \/ /\ t \in waiting[p]
       /\ waiting' = [waiting EXCEPT ![p] = @ \ {t}]
       /\ UNCHANGED orphans
    \/ /\ orphans[p][t] > 0
       /\ orphans' = [orphans EXCEPT ![p][t] = @ - 1]
       /\ UNCHANGED waiting

\* dispatch returned: artefact and completion are committed together, or both
\* are rolled back because the task is no longer running.
DispatchOk(p, t) ==
    /\ ThreadEnds(p, t)
    /\ \/ /\ task[t] = "running"
          /\ task' = TasksAfterCompletion(t)
          /\ dep' = DepsAfterCompletion(t)
          /\ versions' = [versions EXCEPT ![t] = @ + 1]
       \/ /\ task[t] # "running"
          /\ UNCHANGED <<task, dep, versions>>
    /\ UNCHANGED <<run, retry, agent, approvals, up, loop, driver, batch,
                   verdict, env>>

\* Mutant: the attempt is not counted.
MutErrorUncounted(p, t) ==
    /\ ThreadEnds(p, t)
    /\ task' = [task EXCEPT ![t] = "retrying"]
    /\ UNCHANGED <<run, retry, agent, dep, versions, approvals, up, loop,
                   driver, batch, verdict, env>>

\* _handle_task_failure: no look at the task's present status.
DispatchError(p, t) ==
    /\ ThreadEnds(p, t)
    /\ \/ /\ retry[t] < MaxRetries
          /\ retry' = [retry EXCEPT ![t] = @ + 1]
          /\ task' = [task EXCEPT ![t] = "retrying"]
          /\ UNCHANGED dep
       \/ /\ retry[t] >= MaxRetries
          /\ EndUnsatisfiably(t, "failed")
          /\ UNCHANGED retry
    /\ UNCHANGED <<run, agent, versions, approvals, up, loop, driver, batch,
                   verdict, env>>

\* _handle_data_stale: no look at the task's present status either.
DispatchStale(p, t) ==
    /\ ThreadEnds(p, t)
    /\ EndUnsatisfiably(t, "blocked")
    /\ UNCHANGED <<run, retry, agent, versions, approvals, up, loop, driver,
                   batch, verdict, env>>

\* _handle_agent_unavailable: another enabled agent takes the task, or it
\* escalates to a human.
DispatchUnavailable(p, t) ==
    /\ agent[t] \notin enabled
    /\ ThreadEnds(p, t)
    /\ \/ \E a \in enabled \ {agent[t]} :
             /\ agent' = [agent EXCEPT ![t] = a]
             /\ task' = [task EXCEPT ![t] = "ready"]
             /\ UNCHANGED dep
       \/ /\ enabled \ {agent[t]} = {}
          /\ EndUnsatisfiably(t, "escalated")
          /\ UNCHANGED agent
    /\ UNCHANGED <<run, retry, versions, approvals, up, loop, driver, batch,
                   verdict, env>>

\* A strategy_research dispatch recommends Paper Trading: its graph commits an
\* approval request of this run while the dispatch is still going on.
OpenApproval(p, t) ==
    /\ t \in Research
    /\ Live(p, t)
    /\ opened < MaxApprovals
    /\ opened' = opened + 1
    /\ pending' = pending + 1
    /\ UNCHANGED <<run, db, up, loop, driver, threads, env>>

\* Mutant: the timeout forgets mark_unsatisfiable.
MutTimeoutSilent(p, t) ==
    /\ t \in waiting[p]
    /\ waiting' = [waiting EXCEPT ![p] = @ \ {t}]
    /\ orphans' = [orphans EXCEPT ![p][t] = @ + 1]
    /\ task' = [task EXCEPT ![t] = IF @ = "running" THEN "failed" ELSE @]
    /\ UNCHANGED <<run, retry, agent, dep, versions, approvals, up, loop,
                   driver, batch, verdict, env>>

\* _handle_task_timeout: the executor gives up; the thread goes on alone.
Timeout(p, t) ==
    /\ t \in waiting[p]
    /\ waiting' = [waiting EXCEPT ![p] = @ \ {t}]
    /\ orphans' = [orphans EXCEPT ![p][t] = @ + 1]
    /\ \/ task[t] = "running" /\ EndUnsatisfiably(t, "failed")
       \/ task[t] # "running" /\ UNCHANGED <<task, dep>>
    /\ UNCHANGED <<run, retry, agent, versions, approvals, up, loop, driver,
                   batch, verdict, env>>

-----------------------------------------------------------------------------
(***************************************************************************)
(* _finalize: reads, then (after conflict resolution and, for a failed     *)
(* run, a write to organisational memory) commits. The loop returns        *)
(* whatever _finalize answers.                                             *)
(***************************************************************************)
\* Mutant: escalated and blocked tasks do not count against the run.
MutVerdictFailedOnly ==
    IF \E t \in Tasks : task[t] \in NONTERMINAL
    THEN IF \E t \in Tasks : task[t] = "ready" THEN "keep" ELSE "waiting"
    ELSE IF \E t \in Tasks : task[t] = "failed" THEN "failed"
    ELSE IF pending > 0 THEN "waiting" ELSE "completed"

\* Mutant: pending approvals are not looked at.
MutVerdictNoApproval ==
    IF \E t \in Tasks : task[t] \in NONTERMINAL
    THEN IF \E t \in Tasks : task[t] = "ready" THEN "keep" ELSE "waiting"
    ELSE IF \E t \in Tasks : task[t] \in {"failed", "blocked", "escalated"}
    THEN "failed" ELSE "completed"

Verdict ==
    IF \E t \in Tasks : task[t] \in NONTERMINAL
    THEN IF \E t \in Tasks : task[t] = "ready" THEN "keep" ELSE "waiting"
    ELSE IF \E t \in Tasks : task[t] \in {"failed", "blocked", "escalated"}
    THEN "failed"
    ELSE IF pending > 0 THEN "waiting" ELSE "completed"

FinalizeRead(p) ==
    /\ loop[p] = "finalize"
    /\ verdict' = [verdict EXCEPT ![p] = Verdict]
    /\ Goto(p, "commit")
    /\ UNCHANGED <<run, db, approvals, up, driver, batch, waiting, orphans, env>>

FinalizeCommit(p) ==
    /\ loop[p] = "commit"
    /\ run' = IF verdict[p] = "keep" THEN run ELSE verdict[p]
    /\ verdict' = [verdict EXCEPT ![p] = "none"]
    /\ Goto(p, "off")
    /\ UNCHANGED <<db, approvals, up, driver, batch, waiting, orphans, env>>

\* The except clause of _plan_run, which closes the run.
ClosedOut(r) == IF r \in {"cannot_plan", "failed"} THEN r ELSE "failed"

\* An exception leaves the loop (the database refuses a transaction): _plan_run
\* closes the run as failed, _resume_reaped_run only logs.
LoopError(p) ==
    /\ loop[p] \in {"poll", "finalize"}
    /\ run' = IF driver[p] = "plan" THEN ClosedOut(run) ELSE run
    /\ Goto(p, "off")
    /\ UNCHANGED <<db, approvals, up, driver, threads, env>>

-----------------------------------------------------------------------------
(***************************************************************************)
(* Humans and the periodic jobs.                                           *)
(***************************************************************************)
\* approve / reject followed by settle_run_after_approval.
Decide ==
    /\ pending > 0
    /\ pending' = pending - 1
    /\ run' = IF /\ run \notin TERMINAL_RUN_STATUSES
                 /\ pending = 1
                 /\ \A t \in Tasks : task[t] \in TERMINAL_TASK_STATUSES
              THEN "completed" ELSE run
    /\ UNCHANGED <<db, opened, up, loop, driver, threads, env>>

\* cancel_run: also over blocked, escalated and running tasks.
CancelRun ==
    /\ Cancellable
    /\ run \notin {"completed", "failed", "cancelled"}
    /\ run' = "cancelled"
    /\ task' = [t \in Tasks |->
                  IF task[t] \in {"completed", "failed", "cancelled"}
                  THEN task[t] ELSE "cancelled"]
    /\ UNCHANGED <<retry, agent, dep, versions, approvals, up, loop, driver,
                   threads, env>>

CheckStalledRuns ==
    /\ up # {}
    /\ run = "waiting"
    /\ pending = 0
    /\ run' = "stalled"
    /\ UNCHANGED <<db, approvals, up, loop, driver, threads, env>>

ToggleAgent(a) ==
    /\ toggles < MaxToggles
    /\ toggles' = toggles + 1
    /\ enabled' = IF a \in enabled THEN enabled \ {a} ELSE enabled \cup {a}
    /\ UNCHANGED <<run, db, approvals, up, loop, driver, threads, starts>>

-----------------------------------------------------------------------------
(***************************************************************************)
(* Crash and start of an API process. reap_incomplete_runs runs in every   *)
(* process that starts, whatever the other processes are doing.            *)
(***************************************************************************)
Crash(p) ==
    /\ p \in up
    /\ starts < MaxStarts  \* bound: only crashes that a start can follow
    /\ up' = up \ {p}
    /\ Goto(p, "off")
    /\ batch' = [batch EXCEPT ![p] = {}]
    /\ waiting' = [waiting EXCEPT ![p] = {}]
    /\ orphans' = [orphans EXCEPT ![p] = [t \in Tasks |-> 0]]
    /\ verdict' = [verdict EXCEPT ![p] = "none"]
    /\ UNCHANGED <<run, db, approvals, driver, env>>

\* Mutant: the reaper re-arms every task the dead process had started.
MutReapCompleted ==
    [t \in Tasks |-> IF task[t] \notin {"running", "completed"} THEN task[t]
                     ELSE IF t \in Safe THEN "ready" ELSE "failed"]

\* A running task is re-armed if its capability is safe and failed otherwise;
\* a failed one's dependents are not told.
AfterReap ==
    [t \in Tasks |-> IF task[t] # "running" THEN task[t]
                     ELSE IF t \in Safe THEN "ready" ELSE "failed"]

Start(p) ==
    /\ p \notin up
    /\ starts < MaxStarts
    /\ starts' = starts + 1
    /\ up' = up \cup {p}
    /\ \/ /\ run \in ACTIVE_STATUSES
          /\ task' = AfterReap
          /\ Goto(p, "resume")
       \/ /\ run \notin ACTIVE_STATUSES
          /\ UNCHANGED <<task, loop>>
    /\ UNCHANGED <<run, retry, agent, dep, versions, approvals, driver,
                   threads, enabled, toggles>>

\* _resume_reaped_run: the status is read in one transaction, what it calls
\* starts in another.
ResumeReapedRun(p) ==
    /\ loop[p] = "resume"
    /\ driver' = [driver EXCEPT ![p] = "resume"]
    /\ Goto(p, IF run = "planning" THEN "replan"
               ELSE IF run \in ACTIVE_STATUSES THEN "start" ELSE "off")
    /\ UNCHANGED <<run, db, approvals, up, threads, env>>

\* _plan_run for a run that was caught between its plan and its first loop.
Replan(p) ==
    /\ loop[p] = "replan"
    /\ Goto(p, IF run = "planning" THEN "replanning" ELSE "off")
    /\ UNCHANGED <<run, db, approvals, up, driver, threads, env>>

\* generate_plan does not look for the plan that is there: it records that it
\* cannot plan, or it stores a second plan, which the unique run_id refuses.
ReplanEnds(p) ==
    /\ loop[p] = "replanning"
    /\ run' \in {"cannot_plan", ClosedOut(run)}
    /\ Goto(p, "off")
    /\ UNCHANGED <<db, approvals, up, driver, threads, env>>

-----------------------------------------------------------------------------
LoopStep(p) ==
    \/ LoopStart(p) \/ Poll(p) \/ BatchDone(p)
    \/ FinalizeRead(p) \/ FinalizeCommit(p) \/ ResumeReapedRun(p) \/ Replan(p)

TaskStep(p, t) ==
    \/ Execute(p, t) \/ Timeout(p, t) \/ OpenApproval(p, t)
    \/ DispatchOk(p, t) \/ DispatchError(p, t)
    \/ DispatchStale(p, t) \/ DispatchUnavailable(p, t)

Next ==
    \/ \E p \in Procs : LoopStep(p) \/ LoopError(p) \/ ReplanEnds(p)
    \/ \E p \in Procs : Crash(p) \/ Start(p)
    \/ \E p \in Procs, t \in Tasks : TaskStep(p, t)
    \/ \E a \in Agents : ToggleAgent(a)
    \/ Decide \/ CancelRun \/ CheckStalledRuns

Spec == Init /\ [][Next]_vars

(***************************************************************************)
(* The loop's own statements are executed by a live thread, and an         *)
(* executor waits at most timeout_seconds. Nothing makes a dispatch end,   *)
(* an administrator act or a process crash.                                *)
(***************************************************************************)
Fairness ==
    \A p \in Procs :
        /\ WF_vars(LoopStep(p))
        /\ \A t \in Tasks : WF_vars(Execute(p, t)) /\ WF_vars(Timeout(p, t))

FairSpec == Spec /\ Fairness

-----------------------------------------------------------------------------
TypeOK ==
    /\ run \in RunStatus
    /\ task \in [Tasks -> TaskStatus]
    /\ retry \in [Tasks -> 0..MaxRetries]
    /\ agent \in [Tasks -> Agents]
    /\ dep \in [Deps -> DependencyState]
    /\ versions \in [Tasks -> Nat]
    /\ enabled \in SUBSET Agents
    /\ opened \in Nat /\ pending \in Nat
    /\ up \in SUBSET Procs
    /\ loop \in [Procs -> {"off", "resume", "replan", "replanning", "start", "poll",
                           "execute", "finalize", "commit"}]
    /\ driver \in [Procs -> {"plan", "resume"}]
    /\ batch \in [Procs -> SUBSET Tasks]
    /\ waiting \in [Procs -> SUBSET Tasks]
    /\ orphans \in [Procs -> [Tasks -> Nat]]
    /\ verdict \in [Procs -> {"none", "keep", "waiting", "failed", "completed"}]
    /\ starts \in Nat /\ toggles \in Nat

Produced(t) == versions[t] > 0

\* What _finalize is about to commit has been read.
CommitHasVerdict == \A p \in Procs : loop[p] = "commit" => verdict[p] # "none"

\* A task that is ready, running or worked on has all its rows satisfied.
WorkedOnIsSatisfied ==
    \A t \in Tasks :
        (task[t] \in {"ready", "running"} \/ \E p \in Procs : Live(p, t))
            => Satisfied(dep, t)

\* A dispatch thread, orphaned or not and in whatever process, works only on a
\* task all of whose prerequisites have a committed artefact: whatever retries,
\* reassignments, timeouts and restarts happened before (ready_tasks, the claim
\* in _execute_task, evaluate_on_completion).
InputsBeforeWork ==
    \A p \in Procs, t \in Tasks :
        Live(p, t) => \A d \in HardDeps(t) : Produced(d[1])

\* A dependency row says satisfied only if its prerequisite's artefact exists,
\* and no row stays unsatisfied once the artefact exists: the completion, the
\* artefact and the rows are one transaction (evaluate_on_completion).
RowsMatchArtefacts ==
    \A d \in Deps :
        /\ dep[d] = "satisfied" => Produced(d[1])
        /\ Produced(d[1]) => dep[d] # "unsatisfied"

\* The inductive invariant behind the proofs in TaskEngineProofs.
IInv == TypeOK /\ CommitHasVerdict /\ RowsMatchArtefacts /\ WorkedOnIsSatisfied

\* As long as no process has been restarted (the reaper tells nobody), a task
\* that failed or escalated leaves no direct dependent waiting for it, whoever
\* declared it failed (mark_unsatisfiable, FR-017).
FailurePropagates ==
    starts = 0 =>
        \A d \in Deps :
            (task[d[1]] \in {"failed", "escalated"} /\ dep[d] # "satisfied")
                => task[d[2]] \in TERMINAL_TASK_STATUSES

\* Of any tasks that are left one waits for none of the others: what the planner makes
\* sure of (PlanCheck, Executable).
Acyclic ==
    \A rest \in (SUBSET Tasks) \ {{}} : \E t \in rest : \A d \in HardDeps(t) : d[1] \notin rest

\* Nobody waits for nothing: when no task is ready and some are left, one is being
\* worked on or one that is left waits for a prerequisite that ended without a result.
\* No row is lost on the way, whichever of completion, late failure, re-arming and
\* restart came first (ready_tasks, evaluate_on_completion, mark_unsatisfiable).
WaitingHasCause ==
    Acyclic /\ ReadyTasks = {} /\ (\E t \in Tasks : task[t] \in NONTERMINAL) =>
        \/ \E t \in Tasks : task[t] = "running"
        \/ \E d \in Deps : /\ task[d[2]] \in NONTERMINAL
                           /\ task[d[1]] \in TERMINAL_TASK_STATUSES \ {"completed"}

\* No step takes a task out of completed: a late failure, a stale dataset, a
\* timeout or a restart never undoes a completion.
CompletedIsFinal ==
    [][\A t \in Tasks : task[t] = "completed" => task'[t] = "completed"]_vars

\* No step takes a task out of failed: the result of an orphaned dispatch does
\* not resurrect a task already declared failed.
FailedIsFinal ==
    [][\A t \in Tasks : task[t] = "failed" => task'[t] = "failed"]_vars

\* A run is reported completed only when it has earned it, although _finalize
\* decides on what it read before committing: one that opened no approval request
\* has all tasks of its plan completed, and stays so, and the step that completes a
\* run leaves none of its approval requests pending (FR-052).
CompletionIsEarned ==
    /\ [](run = "completed" /\ opened = 0 => \A t \in Tasks : task[t] = "completed")
    /\ [][run # "completed" /\ run' = "completed" => pending' = 0]_vars

\* However the dispatches behave, even if none ever ends, a scheduler loop that
\* started returns: timeouts and the retry budget bound it.
LoopReturns == \A p \in Procs : loop[p] = "start" ~> loop[p] = "off"

\* The engine implements precedence-respecting execution: the artefacts appear
\* one by one, each after those of its prerequisites.
P == INSTANCE PrecedenceExecution WITH done <- {t \in Tasks : Produced(t)}

\* The abstract specification as a property of the engine.
Precedence == P!Spec
=============================================================================
