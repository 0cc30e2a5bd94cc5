----------------------------- MODULE MCWorkers -----------------------------
(* The parts that answer a request at once and do the work in a thread of their own,
   which share no state: every behaviour exercises one of them, the unit, and leaves
   the others as they were. *)
EXTENDS StrategyLifecycle, JobScheduler, SandboxPool, ChatIntake

VARIABLE unit

Units == {"strategies", "scheduler", "sandbox", "chat"}

Init ==
  /\ unit \in Units
  /\ LifecycleInit /\ SchedulerInit /\ PoolInit /\ ChatInit

Next ==
  /\ UNCHANGED unit
  /\ \/ unit = "strategies" /\ UNCHANGED <<schedulerVars, poolVars, chatVars>> /\ LifecycleNext
     \/ unit = "scheduler" /\ UNCHANGED <<lifecycleVars, poolVars, chatVars>> /\ SchedulerNext
     \/ unit = "sandbox" /\ UNCHANGED <<lifecycleVars, schedulerVars, chatVars>> /\ PoolNext
     \/ unit = "chat" /\ UNCHANGED <<lifecycleVars, schedulerVars, poolVars>> /\ ChatNext

(* The fairness of the components, each for its own unit. *)
Fairness ==
  /\ \A j \in Jobs : WF_lifecycleVars(unit = "strategies" /\ RegenStep(j))
  /\ \A r \in 1 .. MaxRuns : WF_schedulerVars(unit = "scheduler" /\ RunStep(r))
  /\ \A j \in BtJobs : WF_poolVars(unit = "sandbox" /\ ThreadStep(j))
  /\ \A m \in Msgs : WF_chatVars(unit = "chat" /\ AnswerStep(m))

Spec == Init /\ [][Next]_<<unit, lifecycleVars, schedulerVars, poolVars, chatVars>> /\ Fairness
=============================================================================
