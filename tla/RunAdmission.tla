---------------------------- MODULE RunAdmission ----------------------------
(***************************************************************************)
(* The life of organisation runs from the request to the scheduler loop    *)
(* and back: orchestration/run_manager.py and generate_plan of planner.py, *)
(* with the cancel endpoint of api/routers/organization.py. What the loop  *)
(* does with the tasks of a run is TaskEngine's; here it only ends.        *)
(*                                                                         *)
(* Actors: concurrent create requests, the detached planning and resuming  *)
(* threads, the start-up hook of each API process, users who cancel or     *)
(* approve, the stall check, and crashes.                                  *)
(***************************************************************************)
EXTENDS Naturals, FiniteSets

CONSTANTS
    Runs,          \* the objectives that are submitted
    Procs,         \* API processes sharing the database
    Primary,       \* the process that is up first
    Cap,           \* org_max_concurrent_runs
    MaxAttempts,   \* _MAX_PLAN_ATTEMPTS
    MaxRequests,   \* bound: create requests served at the same time
    MaxStarts,     \* bound: process starts
    Cancellable    \* bound: whether users cancel runs

ASSUME RunsAssumption == IsFiniteSet(Runs) /\ "none" \notin Runs
ASSUME ProcsAssumption == Primary \in Procs
ASSUME LimitsAssumption ==
    /\ Cap \in Nat \ {0} /\ MaxAttempts \in Nat \ {0} /\ MaxRequests \in Nat \ {0}
    /\ MaxStarts \in Nat /\ Cancellable \in BOOLEAN

VARIABLES
    status,     \* OrganizationRun.status, "absent" before the row exists
    created_at, \* OrganizationRun.created_at as taken by the request
    clock,      \* datetime.now(), as far as created_at can tell
    plans,      \* runs that have their OrganizationalPlan row
    request,    \* per run: how far create_run is, and whether it found a slot
    server,     \* per run: the process that serves its request
    thread,     \* per process and run: where its detached thread is
    attempt,    \* ... and the planning attempt it is in
    promoting,  \* per process: how far promote_queued is
    picked,     \* ... and the run it has selected
    up, starts,
    revived     \* runs that left a terminal status (history)

vars == <<status, created_at, clock, plans, request, server, thread, attempt,
          promoting, picked, up, starts, revived>>
requests == <<created_at, clock, request, server>>
threads == <<thread, attempt>>
promotion == <<promoting, picked>>
procs == <<up, starts>>

RunStatus == {"absent", "queued", "planning", "running", "waiting", "stalled",
              "completed", "failed", "cannot_plan", "cancelled"}
ACTIVE_STATUSES == {"planning", "running", "waiting", "stalled"}
TERMINAL_RUN_STATUSES == {"completed", "failed", "cannot_plan", "cancelled"}
ThreadState == {"off", "resume", "plan", "model", "planned", "loop", "drive",
                "reloop", "redrive"}

Active == {r \in Runs : status[r] \in ACTIVE_STATUSES}
Queued == {r \in Runs : status[r] = "queued"}

TypeOK ==
    /\ status \in [Runs -> RunStatus]
    /\ created_at \in [Runs -> Nat] /\ clock \in Nat
    /\ plans \subseteq Runs
    /\ request \in [Runs -> {"none", "free", "full", "over"}]
    /\ server \in [Runs -> Procs]
    /\ thread \in [Procs -> [Runs -> ThreadState]]
    /\ attempt \in [Procs -> [Runs -> 0..MaxAttempts]]
    /\ promoting \in [Procs -> {"off", "count", "write"}]
    /\ picked \in [Procs -> Runs \cup {"none"}]
    /\ up \subseteq Procs /\ starts \in 0..MaxStarts
    /\ revived \subseteq Runs

Init ==
    /\ status = [r \in Runs |-> "absent"]
    /\ created_at = [r \in Runs |-> 0] /\ clock = 0
    /\ plans = {}
    /\ request = [r \in Runs |-> "none"] /\ server = [r \in Runs |-> Primary]
    /\ thread = [p \in Procs |-> [r \in Runs |-> "off"]]
    /\ attempt = [p \in Procs |-> [r \in Runs |-> 0]]
    /\ promoting = [p \in Procs |-> "off"] /\ picked = [p \in Procs |-> "none"]
    /\ up = {Primary} /\ starts = 0
    /\ revived = {}

Serving(p) == p \in up /\ promoting[p] = "off"
Served == \E p \in Procs : Serving(p)
InPlanRun == {"plan", "model", "planned", "loop", "drive"}

(* A transaction that writes the status of a run, and what history notes.  *)
Write(r, s) ==
    /\ status' = [status EXCEPT ![r] = s]
    /\ revived' = IF status[r] \in TERMINAL_RUN_STATUSES /\ s \in ACTIVE_STATUSES
                  THEN revived \cup {r} ELSE revived
Leave == UNCHANGED <<status, revived>>

Goto(p, r, l) == thread' = [thread EXCEPT ![p][r] = l]

(***************************************************************************)
(* create_run: the active runs are counted in one statement, the row is    *)
(* committed by a later one.                                               *)
(***************************************************************************)

\* Mutant: one run too many is let in.
MutHasSlot == Cardinality(Active) <= Cap

HasSlot == Cardinality(Active) < Cap

CreateCount(p, r) ==
    /\ Serving(p) /\ request[r] = "none"
    /\ Cardinality({q \in Runs : request[q] \in {"free", "full"}}) < MaxRequests
    /\ request' = [request EXCEPT ![r] = IF HasSlot THEN "free" ELSE "full"]
    /\ server' = [server EXCEPT ![r] = p]
    /\ clock' = clock + 1 /\ created_at' = [created_at EXCEPT ![r] = clock + 1]
    /\ Leave /\ UNCHANGED <<plans, threads, promotion, procs>>

CreateCommit(r) ==
    /\ request[r] \in {"free", "full"}
    /\ Write(r, IF request[r] = "full" THEN "queued" ELSE "planning")
    /\ request' = [request EXCEPT ![r] = "over"]
    /\ IF request[r] = "full" THEN UNCHANGED thread ELSE Goto(server[r], r, "plan")
    /\ UNCHANGED <<created_at, clock, server, plans, attempt, promotion, procs>>

(***************************************************************************)
(* _plan_run and generate_plan. The session keeps the status it loaded, so *)
(* its writes do not notice that another transaction changed it.           *)
(***************************************************************************)

PlanStart(p, r) ==
    /\ thread[p][r] = "plan"
    /\ IF status[r] = "planning"
       THEN Goto(p, r, "model") /\ attempt' = [attempt EXCEPT ![p][r] = 1]
       ELSE Goto(p, r, "off") /\ UNCHANGED attempt
    /\ Leave /\ UNCHANGED <<requests, plans, promotion, procs>>

\* The model's answer cannot be parsed or does not validate.
PlanRejected(p, r) ==
    /\ thread[p][r] = "model" /\ attempt[p][r] < MaxAttempts
    /\ attempt' = [attempt EXCEPT ![p][r] = @ + 1]
    /\ Leave /\ UNCHANGED <<requests, plans, thread, promotion, procs>>

\* _record_cannot_plan: the model declines, or the attempts are used up.
RecordCannotPlan(p, r) ==
    /\ thread[p][r] = "model"
    /\ Write(r, "cannot_plan")
    /\ Goto(p, r, "planned") /\ attempt' = [attempt EXCEPT ![p][r] = 0]
    /\ UNCHANGED <<requests, plans, promotion, procs>>

\* _persist: run_id is unique, so a run has room for one plan only.
Persist(p, r) ==
    /\ thread[p][r] = "model" /\ r \notin plans
    /\ plans' = plans \cup {r}
    /\ Goto(p, r, "planned") /\ attempt' = [attempt EXCEPT ![p][r] = 0]
    /\ Leave /\ UNCHANGED <<requests, promotion, procs>>

\* Mutant: the exception is logged and the run is left as it is.
MutPlanRaisesLogs(p, r) ==
    /\ thread[p][r] \in InPlanRun
    /\ Goto(p, r, "off") /\ attempt' = [attempt EXCEPT ![p][r] = 0]
    /\ Leave /\ UNCHANGED <<requests, plans, promotion, procs>>

\* An exception: a second plan, a memory or prompt store that fails, or a
\* transaction of the loop. The run is closed unless it has failed already.
PlanRaises(p, r) ==
    /\ thread[p][r] \in InPlanRun
    /\ IF status[r] \in {"cannot_plan", "failed"} THEN Leave ELSE Write(r, "failed")
    /\ Goto(p, r, "off") /\ attempt' = [attempt EXCEPT ![p][r] = 0]
    /\ UNCHANGED <<requests, plans, promotion, procs>>

\* Mutant: the loop is entered whatever generate_plan did.
MutPlanRefreshAlways(p, r) ==
    /\ thread[p][r] = "planned"
    /\ Goto(p, r, "loop")
    /\ Leave /\ UNCHANGED <<requests, plans, attempt, promotion, procs>>

\* session.refresh(run): only a run that is still planning goes on.
PlanRefresh(p, r) ==
    /\ thread[p][r] = "planned"
    /\ Goto(p, r, IF status[r] = "planning" THEN "loop" ELSE "off")
    /\ Leave /\ UNCHANGED <<requests, plans, attempt, promotion, procs>>

(***************************************************************************)
(* run_scheduler_loop, by its first and its last transaction.              *)
(***************************************************************************)

LoopStart(p, r) ==
    /\ thread[p][r] \in {"loop", "reloop"}
    /\ Write(r, "running")
    /\ Goto(p, r, IF thread[p][r] = "loop" THEN "drive" ELSE "redrive")
    /\ UNCHANGED <<requests, plans, attempt, promotion, procs>>

\* _finalize writes the outcome, or leaves the run for a task that became
\* ready; a resumed loop may also end in an exception that is only logged.
LoopEnd(p, r) ==
    /\ thread[p][r] \in {"drive", "redrive"}
    /\ Leave \/ \E s \in {"waiting", "failed", "completed"} : Write(r, s)
    /\ Goto(p, r, "off")
    /\ UNCHANGED <<requests, plans, attempt, promotion, procs>>

(***************************************************************************)
(* Users and the stall check.                                              *)
(***************************************************************************)

\* settle_run_after_approval, when nothing else holds the run open.
SettleRunAfterApproval(r) ==
    /\ Served /\ status[r] \in {"running", "waiting", "stalled"}
    /\ Write(r, "completed")
    /\ UNCHANGED <<requests, plans, threads, promotion, procs>>

CheckStalledRuns(r) ==
    /\ Served /\ status[r] = "waiting"
    /\ Write(r, "stalled")
    /\ UNCHANGED <<requests, plans, threads, promotion, procs>>

CancelRun(r) ==
    /\ Cancellable /\ Served
    /\ status[r] \notin {"absent", "completed", "failed", "cancelled"}
    /\ Write(r, "cancelled")
    /\ UNCHANGED <<requests, plans, threads, promotion, procs>>

(***************************************************************************)
(* Crash and start. The start-up hook resumes every active run in a thread *)
(* and then promotes queued runs, before the process serves requests.      *)
(***************************************************************************)

Crash(p) ==
    /\ p \in up /\ starts < MaxStarts  \* bound: only crashes that a start can follow
    /\ up' = up \ {p}
    /\ request' = [r \in Runs |-> IF server[r] = p /\ request[r] \in {"free", "full"}
                                  THEN "over" ELSE request[r]]
    /\ thread' = [thread EXCEPT ![p] = [r \in Runs |-> "off"]]
    /\ attempt' = [attempt EXCEPT ![p] = [r \in Runs |-> 0]]
    /\ promoting' = [promoting EXCEPT ![p] = "off"]
    /\ picked' = [picked EXCEPT ![p] = "none"]
    /\ Leave /\ UNCHANGED <<created_at, clock, server, plans, starts>>

\* reap_incomplete_runs.
Start(p) ==
    /\ p \notin up /\ starts < MaxStarts
    /\ up' = up \cup {p} /\ starts' = starts + 1
    /\ thread' = [thread EXCEPT ![p] = [r \in Runs |-> IF r \in Active THEN "resume" ELSE "off"]]
    /\ promoting' = [promoting EXCEPT ![p] = "count"]
    /\ Leave /\ UNCHANGED <<requests, plans, attempt, picked>>

\* _resume_reaped_run.
ResumeReapedRun(p, r) ==
    /\ thread[p][r] = "resume"
    /\ Goto(p, r, IF status[r] = "planning" THEN "plan"
                  ELSE IF status[r] \in ACTIVE_STATUSES THEN "reloop" ELSE "off")
    /\ Leave /\ UNCHANGED <<requests, plans, attempt, promotion, procs>>

\* Mutant: the newest queued run is taken.
MutOldest(r) == r \in Queued /\ \A q \in Queued : created_at[q] <= created_at[r]

Oldest(r) == r \in Queued /\ \A q \in Queued : created_at[r] <= created_at[q]

\* promote_queued: the count and the selection ...
PromoteCount(p) ==
    /\ promoting[p] = "count"
    /\ \/ /\ HasSlot
          /\ \E r \in Runs : /\ Oldest(r)
                             /\ picked' = [picked EXCEPT ![p] = r]
          /\ promoting' = [promoting EXCEPT ![p] = "write"]
       \/ /\ ~HasSlot \/ Queued = {}
          /\ promoting' = [promoting EXCEPT ![p] = "off"]
          /\ UNCHANGED picked
    /\ Leave /\ UNCHANGED <<requests, plans, threads, procs>>

\* ... and the commit, with the dispatch of the planning thread.
PromoteWrite(p) ==
    /\ promoting[p] = "write"
    /\ Write(picked[p], "planning")
    /\ Goto(p, picked[p], "plan")
    /\ promoting' = [promoting EXCEPT ![p] = "count"]
    /\ picked' = [picked EXCEPT ![p] = "none"]
    /\ UNCHANGED <<requests, plans, attempt, procs>>

-----------------------------------------------------------------------------
ThreadStep(p, r) ==
    \/ PlanStart(p, r) \/ PlanRejected(p, r) \/ RecordCannotPlan(p, r)
    \/ Persist(p, r) \/ PlanRaises(p, r) \/ PlanRefresh(p, r)
    \/ LoopStart(p, r) \/ LoopEnd(p, r) \/ ResumeReapedRun(p, r)

Next ==
    \/ \E p \in Procs, r \in Runs : CreateCount(p, r) \/ ThreadStep(p, r)
    \/ \E r \in Runs : CreateCommit(r) \/ SettleRunAfterApproval(r)
    \/ \E r \in Runs : CheckStalledRuns(r) \/ CancelRun(r)
    \/ \E p \in Procs : PromoteCount(p) \/ PromoteWrite(p) \/ Crash(p) \/ Start(p)

Spec == Init /\ [][Next]_vars

(* A thread of a live process goes on; requests and the start-up hook end. *)
FairSpec ==
    /\ Spec
    /\ \A p \in Procs : WF_vars(PromoteCount(p)) /\ WF_vars(PromoteWrite(p))
    /\ \A p \in Procs, r \in Runs : WF_vars(ThreadStep(p, r))
    /\ \A r \in Runs : WF_vars(CreateCommit(r))

-----------------------------------------------------------------------------
(* A run is running, waiting, stalled or completed only if its plan exists:*)
(* whatever the planner, cancellations, the reaper and the queue do, no run *)
(* is driven without one (FR-008).                                         *)
PlanBeforeRun ==
    \A r \in Runs : status[r] \in {"running", "waiting", "stalled", "completed"} => r \in plans

(* While a process is up, a run that is planning has a thread that will    *)
(* plan it or close it: no exception, restart or promotion leaves it behind.*)
PlanningIsDriven ==
    \A r \in Runs : status[r] = "planning" =>
        \/ up = {}
        \/ \E p \in up : thread[p][r] # "off"

(* The cap is exceeded by at most the number of requests that were served  *)
(* at the same time, less one, apart from runs that a stale loop revived;  *)
(* with serial requests and no revival the cap is exact (FR-009).          *)
OvershootIsBounded == Cardinality(Active \ revived) <= Cap + MaxRequests - 1

(* Queued runs leave the queue for planning in the order of created_at.    *)
OldestFirst ==
    [][\A r \in Queued : status'[r] = "planning" =>
         \A q \in Queued : created_at[r] <= created_at[q]]_vars

(* Violated. A queued run is started when a slot frees (FR-009).           *)
QueuedRunStarts ==
    \A r \in Runs : status[r] = "queued" /\ HasSlot ~> status[r] # "queued"

-----------------------------------------------------------------------------
(***************************************************************************)
(* The inductive invariant behind the proofs in RunAdmissionProofs, for    *)
(* one process (with several, a stale promoter can restart a finished run).*)
(***************************************************************************)

(* Nothing but its request knows of a run before its row is committed.     *)
RequestComesFirst ==
    \A r \in Runs : request[r] \in {"none", "free", "full"} =>
        /\ status[r] = "absent"
        /\ \A p \in Procs : thread[p][r] = "off" /\ picked[p] # r

(* A thread about to drive a run has a plan, and its run is not planning   *)
(* any more once the loop has started.                                     *)
ThreadHasPlan ==
    \A p \in Procs, r \in Runs :
        /\ thread[p][r] \in {"loop", "drive", "reloop", "redrive"} => r \in plans
        /\ thread[p][r] = "planned" /\ status[r] = "planning" => r \in plans
        /\ thread[p][r] \in {"drive", "redrive"} => status[r] # "planning"

(* While the process is down or its start-up hook promotes, no request is  *)
(* in flight, and what the hook has selected stays the oldest.             *)
PromotionIsAlone ==
    \A p \in Procs :
        /\ ~Serving(p) => \A r \in Runs : request[r] \in {"none", "over"}
        /\ promoting[p] # "off" => p \in up
        /\ promoting[p] = "write" =>
             /\ picked[p] \in Runs
             /\ \A q \in Queued : created_at[picked[p]] <= created_at[q]

IInv ==
    /\ TypeOK /\ RequestComesFirst /\ ThreadHasPlan /\ PromotionIsAlone
    /\ PlanBeforeRun /\ PlanningIsDriven
=============================================================================
