---------------------------- MODULE JobScheduler ----------------------------
(* One scheduled job: its configuration row, its entry in the running
   APScheduler, and its runs.  Two processes serve the API; only one of them runs
   a scheduler.  A PUT first commits the row and then touches the live job, and
   requests run in a thread pool.                                             *)
EXTENDS Naturals, Sequences, FiniteSets

CONSTANTS
  Puts,       \* PUT /scheduled-jobs/{id} requests in flight
  MaxRuns,    \* bound on ScheduledJobRun rows
  MaxEdits    \* bound on PUTs

ASSUME SchedulerBounds == MaxRuns \in Nat /\ MaxEdits \in Nat

VARIABLES
  config,      \* scheduled_job_config.enabled: "none" without a row
  liveJob,     \* the job in the scheduler: "active", "paused", "down"
  put,         \* PUTs between commit and the live change
  edits,       \* PUTs so far
  jobRuns,     \* rows: trigger source, status, and whether a thread is at it
  agentOn,     \* AgentControlState of the scheduler_agent
  recronned,   \* history: a cron expression was changed while the job was off
  elsewhere,   \* history: a PUT overlapped another or was served by the sibling
  restarted    \* history: the process died

schedulerVars == <<config, liveJob, put, edits, jobRuns, agentOn, recronned, elsewhere, restarted>>

NoPut == [phase |-> "idle", cron |-> FALSE, enabled |-> "keep"]

SchedulerInit ==
  /\ config = "none" /\ liveJob = "active"
  /\ put = [w \in Puts |-> NoPut] /\ edits = 0
  /\ jobRuns = <<>> /\ agentOn = TRUE
  /\ recronned = FALSE /\ elsewhere = FALSE /\ restarted = FALSE

(* get_effective_schedule: no row means enabled. *)
EffectivelyEnabled == config # "off"

(* Mutant: the scheduler starts with every job active. *)
BuiltJob_AllActive == "active"

BuiltJob == IF EffectivelyEnabled THEN "active" ELSE "paused"

-----------------------------------------------------------------------------
(* PUT /scheduled-jobs/{id} *)

(* The body has a cron expression, enabled, or both; the row is upserted.  The
   sibling process has no scheduler to tell. *)
CommitConfig(w, cron, enabled, sibling) ==
  /\ put[w].phase = "idle" /\ edits < MaxEdits
  /\ cron \/ enabled # "keep"
  /\ sibling \/ liveJob # "down"
  /\ edits' = edits + 1
  /\ config' = IF enabled # "keep" THEN enabled ELSE IF config = "none" THEN "on" ELSE config
  /\ put' = IF sibling THEN put
            ELSE [put EXCEPT ![w] = [phase |-> "live", cron |-> cron, enabled |-> enabled]]
  /\ recronned' = (recronned \/ (cron /\ enabled = "keep" /\ ~EffectivelyEnabled))
  /\ elsewhere' = (elsewhere \/ sibling \/ \E o \in Puts : put[o].phase = "live")
  /\ UNCHANGED <<liveJob, jobRuns, agentOn, restarted>>

(* reschedule_job computes a next run time, which is also how a paused job is
   resumed; then resume_job or pause_job, if enabled was given. *)
ApplyScheduleChange(w) ==
  /\ put[w].phase = "live"
  /\ liveJob' = CASE put[w].enabled = "on"  -> "active"
                  [] put[w].enabled = "off" -> "paused"
                  [] OTHER -> IF put[w].cron THEN "active" ELSE liveJob
  /\ put' = [put EXCEPT ![w] = NoPut]
  /\ UNCHANGED <<config, edits, jobRuns, agentOn, recronned, elsewhere, restarted>>

-----------------------------------------------------------------------------
(* Runs *)

StartRun(source) == jobRuns' = Append(jobRuns, [source |-> source, status |-> "Running", thread |-> TRUE])

(* The trigger fires; APScheduler runs one instance of a job at a time. *)
CronFires ==
  /\ liveJob = "active" /\ Len(jobRuns) < MaxRuns
  /\ \A r \in DOMAIN jobRuns : jobRuns[r].thread => jobRuns[r].source = "manual"
  /\ StartRun("cron")
  /\ UNCHANGED <<config, liveJob, put, edits, agentOn, recronned, elsewhere, restarted>>

(* Run now: a job of its own, paused or not, next to a cron run. *)
DispatchManualRun ==
  /\ liveJob # "down" /\ Len(jobRuns) < MaxRuns
  /\ StartRun("manual")
  /\ UNCHANGED <<config, liveJob, put, edits, agentOn, recronned, elsewhere, restarted>>

FinishRun(r, status) == jobRuns' = [jobRuns EXCEPT ![r].status = status, ![r].thread = FALSE]

SchedulerGate == agentOn

(* Mutant: what the job function raises ends the thread. *)
TrackedRaises_Escapes(r) ==
  /\ jobRuns[r].thread /\ SchedulerGate
  /\ jobRuns' = [jobRuns EXCEPT ![r].thread = FALSE]
  /\ UNCHANGED <<config, liveJob, put, edits, agentOn, recronned, elsewhere, restarted>>

(* An exception past the job's own handler is a failed run. *)
TrackedRaises(r) ==
  /\ jobRuns[r].thread /\ SchedulerGate
  /\ FinishRun(r, "Failed")
  /\ UNCHANGED <<config, liveJob, put, edits, agentOn, recronned, elsewhere, restarted>>

Tracked(r) ==
  /\ jobRuns[r].thread
  /\ IF SchedulerGate THEN \E s \in {"Completed", "Failed", "Skipped"} : FinishRun(r, s)
     ELSE FinishRun(r, "Skipped")
  /\ UNCHANGED <<config, liveJob, put, edits, agentOn, recronned, elsewhere, restarted>>

SetSchedulerAgent ==
  /\ agentOn' = ~agentOn
  /\ UNCHANGED <<config, liveJob, put, edits, jobRuns, recronned, elsewhere, restarted>>

(* The process dies with its threads; at the next start the jobs are built from
   the configuration. *)
SchedulerDies ==
  /\ liveJob # "down" /\ ~restarted /\ liveJob' = "down" /\ restarted' = TRUE
  /\ put' = [w \in Puts |-> NoPut]
  /\ jobRuns' = [r \in DOMAIN jobRuns |-> [jobRuns[r] EXCEPT !.thread = FALSE]]
  /\ UNCHANGED <<config, edits, agentOn, recronned, elsewhere>>

BuildScheduler ==
  /\ liveJob = "down" /\ liveJob' = BuiltJob
  /\ recronned' = FALSE /\ elsewhere' = FALSE
  /\ UNCHANGED <<config, put, edits, jobRuns, agentOn, restarted>>

RunStep(r) == r \in DOMAIN jobRuns /\ (Tracked(r) \/ TrackedRaises(r))

SchedulerNext ==
  \/ \E w \in Puts, cron \in BOOLEAN, enabled \in {"keep", "on", "off"}, sibling \in BOOLEAN :
       CommitConfig(w, cron, enabled, sibling)
  \/ \E w \in Puts : ApplyScheduleChange(w)
  \/ CronFires \/ DispatchManualRun
  \/ \E r \in DOMAIN jobRuns : RunStep(r)
  \/ SetSchedulerAgent \/ SchedulerDies \/ BuildScheduler

(* A thread that was started ends. *)
RunFairness(r) == WF_schedulerVars(RunStep(r))
SchedulerFairness == \A r \in 1 .. MaxRuns : RunFairness(r)

SchedulerSpec == SchedulerInit /\ [][SchedulerNext]_schedulerVars /\ SchedulerFairness

-----------------------------------------------------------------------------
PutsSettled == liveJob # "down" /\ \A w \in Puts : put[w].phase = "idle"

(* Through any sequence of PUTs and restarts the live job is paused exactly when
   the configuration says disabled -- as long as no request overlapped another or
   was served by the sibling process, and no cron expression was changed while
   the job was off. *)
LiveFollowsConfig ==
  PutsSettled /\ ~elsewhere /\ ~recronned => (liveJob = "active") = EffectivelyEnabled

(* Every run that was started is closed, whatever the job raises and whoever
   switches the scheduler agent off meanwhile, unless the process dies. *)
JobRunsEnd ==
  \A r \in 1 .. MaxRuns :
    r \in DOMAIN jobRuns
      ~> restarted \/ (r \in DOMAIN jobRuns /\ jobRuns[r].status # "Running")

(* The schedule is the configured one and what it starts is brought to an end. *)
SchedulerHolds == []LiveFollowsConfig /\ JobRunsEnd
=============================================================================
