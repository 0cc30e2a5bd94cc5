--------------------------- MODULE TaskEngineProofs ---------------------------
(***************************************************************************)
(* Proofs about TaskEngine, for every plan, every set of processes and     *)
(* every bound: type correctness, the inputs of every dispatch, the        *)
(* implementation of PrecedenceExecution, the propagation of failures and  *)
(* that no task waits for nothing; and, with one process, that completions *)
(* last and are earned.                                                    *)
(***************************************************************************)
EXTENDS TaskEngine, TLAPS

TypeInv == TypeOK /\ CommitHasVerdict

\* TypeOK alone is not inductive: committing what _finalize read keeps run in
\* its type only because a verdict has been read.
LEMMA TypeInvariant == Spec => []TypeInv
<1> USE DepsAssumption, SubsetsAssumption, NamesAssumption, NumbersAssumption
<1>1. Init => TypeInv
  BY DEF Init, TypeInv, TypeOK, CommitHasVerdict, RunStatus, TaskStatus,
         DependencyState
<1>2. TypeInv /\ [Next]_vars => TypeInv'
  <2> SUFFICES ASSUME TypeInv, [Next]_vars PROVE TypeInv'
    OBVIOUS
  <2>a. \A s \in {"planned", "ready", "running", "waiting_for_dependency",
                  "blocked", "completed", "failed", "retrying", "escalated",
                  "cancelled"} : s \in TaskStatus
    BY DEF TaskStatus
  <2>b. \A s \in {"unsatisfied", "satisfied", "failed"} : s \in DependencyState
    BY DEF DependencyState
  <2>c. \A s \in {"planning", "running", "waiting", "stalled", "completed",
                  "failed", "cannot_plan", "cancelled"} : s \in RunStatus
    BY DEF RunStatus
  <2> USE <2>a, <2>b, <2>c
  <2> USE DEF TypeInv, TypeOK, CommitHasVerdict, Goto, approvals, db, threads, env
  <2>1. ASSUME NEW p \in Procs, LoopStart(p) PROVE TypeInv'
    BY <2>1 DEF LoopStart
  <2>2. ASSUME NEW p \in Procs, Poll(p) PROVE TypeInv'
    BY <2>2 DEF Poll, AfterReadyTasks, ReadyTasks
  <2>3. ASSUME NEW p \in Procs, BatchDone(p) PROVE TypeInv'
    BY <2>3 DEF BatchDone
  <2>4. ASSUME NEW p \in Procs, FinalizeRead(p) PROVE TypeInv'
    BY <2>4 DEF FinalizeRead, Verdict
  <2>5. ASSUME NEW p \in Procs, FinalizeCommit(p) PROVE TypeInv'
    BY <2>5 DEF FinalizeCommit
  <2>6. ASSUME NEW p \in Procs, ResumeReapedRun(p) PROVE TypeInv'
    BY <2>6 DEF ResumeReapedRun
  <2>24. ASSUME NEW p \in Procs, Replan(p) PROVE TypeInv'
    BY <2>24 DEF Replan
  <2>25. ASSUME NEW p \in Procs, ReplanEnds(p) PROVE TypeInv'
    BY <2>25 DEF ReplanEnds, ClosedOut
  <2>7. ASSUME NEW p \in Procs, LoopError(p) PROVE TypeInv'
    BY <2>7 DEF LoopError, ClosedOut
  <2>8. ASSUME NEW p \in Procs, Crash(p) PROVE TypeInv'
    BY <2>8 DEF Crash
  <2>9. ASSUME NEW p \in Procs, Start(p) PROVE TypeInv'
    <3>1. task' \in [Tasks -> TaskStatus]
      BY <2>9 DEF Start, AfterReap
    <3>2. CASE run \in ACTIVE_STATUSES
      <4>1. loop' = [loop EXCEPT ![p] = "resume"]
        BY <2>9, <3>2 DEF Start
      <4>2. CommitHasVerdict'
        BY <2>9, <4>1 DEF Start
      <4> QED BY <2>9, <3>1, <4>1, <4>2 DEF Start
    <3>3. CASE run \notin ACTIVE_STATUSES
      BY <2>9, <3>1, <3>3 DEF Start
    <3> QED BY <3>2, <3>3
  <2>10. ASSUME NEW p \in Procs, NEW t \in Tasks, Execute(p, t) PROVE TypeInv'
    <3>1. batch' \in [Procs -> SUBSET Tasks]
      BY <2>10 DEF Execute
    <3>2. task' = [task EXCEPT ![t] = "running"] \/ task' = task
      BY <2>10 DEF Execute
    <3>3. \/ waiting' = [waiting EXCEPT ![p] = @ \cup {t}]
          \/ waiting' = waiting
      BY <2>10 DEF Execute
    <3>4. task' \in [Tasks -> TaskStatus]
      BY <3>2
    <3>5. waiting' \in [Procs -> SUBSET Tasks]
      <4>1. waiting[p] \cup {t} \in SUBSET Tasks
        OBVIOUS
      <4> QED BY <3>3, <4>1
    <3> QED BY <2>10, <3>1, <3>4, <3>5 DEF Execute
  <2>11. ASSUME NEW t \in Tasks, NEW s \in TaskStatus, EndUnsatisfiably(t, s)
         PROVE  task' \in [Tasks -> TaskStatus] /\ dep' \in [Deps -> DependencyState]
    BY <2>11 DEF EndUnsatisfiably, TasksAfterFailure, DepsAfterFailure
  <2>12. ASSUME NEW p \in Procs, NEW t \in Tasks, ThreadEnds(p, t)
         PROVE  /\ waiting' \in [Procs -> SUBSET Tasks]
                /\ orphans' \in [Procs -> [Tasks -> Nat]]
    <3>1. CASE waiting' = [waiting EXCEPT ![p] = @ \ {t}] /\ UNCHANGED orphans
      BY <3>1
    <3>2. CASE /\ orphans[p][t] > 0 /\ UNCHANGED waiting
               /\ orphans' = [orphans EXCEPT ![p][t] = @ - 1]
      BY <3>2
    <3> QED BY <2>12, <3>1, <3>2 DEF ThreadEnds
  <2>13. ASSUME NEW p \in Procs, NEW t \in Tasks, Timeout(p, t) PROVE TypeInv'
    <3>1. task' \in [Tasks -> TaskStatus] /\ dep' \in [Deps -> DependencyState]
      BY <2>11, <2>13 DEF Timeout
    <3> QED BY <2>13, <3>1 DEF Timeout
  <2>14. ASSUME NEW p \in Procs, NEW t \in Tasks, OpenApproval(p, t) PROVE TypeInv'
    BY <2>14 DEF OpenApproval
  <2>15. ASSUME NEW p \in Procs, NEW t \in Tasks, DispatchOk(p, t) PROVE TypeInv'
    <3>1. /\ task' \in [Tasks -> TaskStatus] /\ dep' \in [Deps -> DependencyState]
          /\ versions' \in [Tasks -> Nat]
      <4>1. CASE task[t] = "running"
        <5>1. TasksAfterCompletion(t) \in [Tasks -> TaskStatus]
          BY DEF TasksAfterCompletion
        <5>2. DepsAfterCompletion(t) \in [Deps -> DependencyState]
          BY DEF DepsAfterCompletion
        <5>3. [versions EXCEPT ![t] = @ + 1] \in [Tasks -> Nat]
          OBVIOUS
        <5> QED BY <2>15, <4>1, <5>1, <5>2, <5>3 DEF DispatchOk
      <4>2. CASE task[t] # "running"
        BY <2>15, <4>2 DEF DispatchOk
      <4> QED BY <4>1, <4>2
    <3>2. ThreadEnds(p, t)
      BY <2>15 DEF DispatchOk
    <3> QED BY <2>15, <2>12, <3>1, <3>2 DEF DispatchOk
  <2>16. ASSUME NEW p \in Procs, NEW t \in Tasks, DispatchError(p, t) PROVE TypeInv'
    <3>1. /\ task' \in [Tasks -> TaskStatus] /\ dep' \in [Deps -> DependencyState]
          /\ retry' \in [Tasks -> 0..MaxRetries]
      <4>1. CASE retry[t] < MaxRetries
        <5>1. [retry EXCEPT ![t] = @ + 1] \in [Tasks -> 0..MaxRetries]
          BY <4>1
        <5>2. [task EXCEPT ![t] = "retrying"] \in [Tasks -> TaskStatus]
          OBVIOUS
        <5>3. /\ retry' = [retry EXCEPT ![t] = @ + 1]
              /\ task' = [task EXCEPT ![t] = "retrying"]
              /\ dep' = dep
          BY <2>16, <4>1 DEF DispatchError
        <5> QED BY <5>1, <5>2, <5>3
      <4>2. CASE retry[t] >= MaxRetries
        BY <2>11, <2>16, <4>2 DEF DispatchError
      <4> QED BY <4>1, <4>2
    <3>2. ThreadEnds(p, t)
      BY <2>16 DEF DispatchError
    <3> QED BY <2>16, <2>12, <3>1, <3>2 DEF DispatchError
  <2>17. ASSUME NEW p \in Procs, NEW t \in Tasks, DispatchStale(p, t) PROVE TypeInv'
    <3>1. task' \in [Tasks -> TaskStatus] /\ dep' \in [Deps -> DependencyState]
      BY <2>11, <2>17 DEF DispatchStale
    <3> QED BY <2>17, <2>12, <3>1 DEF DispatchStale
  <2>23. ASSUME NEW p \in Procs, NEW t \in Tasks, DispatchUnavailable(p, t)
         PROVE  TypeInv'
    <3>1. /\ task' \in [Tasks -> TaskStatus] /\ dep' \in [Deps -> DependencyState]
          /\ agent' \in [Tasks -> Agents]
      <4>1. CASE enabled \ {agent[t]} = {}
        BY <2>11, <2>23, <4>1 DEF DispatchUnavailable
      <4>2. CASE enabled \ {agent[t]} # {}
        <5>1. PICK x \in enabled :
                 /\ agent' = [agent EXCEPT ![t] = x]
                 /\ task' = [task EXCEPT ![t] = "ready"]
                 /\ dep' = dep
          BY <2>23, <4>2 DEF DispatchUnavailable
        <5>2. x \in Agents
          OBVIOUS
        <5> QED BY <5>1, <5>2
      <4> QED BY <4>1, <4>2
    <3>2. ThreadEnds(p, t)
      BY <2>23 DEF DispatchUnavailable
    <3> QED BY <2>23, <2>12, <3>1, <3>2 DEF DispatchUnavailable
  <2>18. ASSUME NEW a \in Agents, ToggleAgent(a) PROVE TypeInv'
    BY <2>18 DEF ToggleAgent
  <2>19. CASE Decide
    BY <2>19 DEF Decide
  <2>20. CASE CancelRun
    BY <2>20 DEF CancelRun
  <2>21. CASE CheckStalledRuns
    BY <2>21 DEF CheckStalledRuns
  <2>22. CASE UNCHANGED vars
    BY <2>22 DEF vars
  <2> QED
    BY <2>1, <2>2, <2>3, <2>4, <2>5, <2>6, <2>7, <2>8, <2>9, <2>10,
       <2>13, <2>14, <2>15, <2>16, <2>17, <2>18, <2>19, <2>20, <2>21, <2>22,
       <2>23, <2>24, <2>25
       DEF Next, LoopStep, TaskStep
<1> QED BY <1>1, <1>2, PTL DEF Spec

\* TypeOK is an invariant: no handler, whatever the order in which the
\* processes run them, writes a status outside the enums of enums.py or counts
\* a retry beyond max_retries.
THEOREM TypeCorrect == Spec => []TypeOK
<1>1. TypeInv => TypeOK
  BY DEF TypeInv
<1> QED BY <1>1, TypeInvariant, PTL

-----------------------------------------------------------------------------
\* A thread that ends makes no task live.
LEMMA EndingThread ==
    ASSUME TypeOK, NEW p \in Procs, NEW t \in Tasks, ThreadEnds(p, t)
    PROVE  \A q \in Procs, u \in Tasks : Live(q, u)' => Live(q, u)
<1>1. CASE waiting' = [waiting EXCEPT ![p] = @ \ {t}] /\ UNCHANGED orphans
  BY <1>1 DEF Live, TypeOK
<1>2. CASE /\ UNCHANGED waiting
           /\ orphans[p][t] > 0
           /\ orphans' = [orphans EXCEPT ![p][t] = @ - 1]
  BY <1>2 DEF Live, TypeOK
<1> QED BY <1>1, <1>2 DEF ThreadEnds

\* mark_unsatisfiable neither loses nor invents a satisfied row, and makes no
\* task ready or running.
LEMMA EndingUnsatisfiably ==
    ASSUME TypeOK, NEW t \in Tasks, NEW s \in {"failed", "blocked", "escalated"},
           EndUnsatisfiably(t, s)
    PROVE  /\ \A d \in Deps : (dep[d] = "satisfied") <=> (dep'[d] = "satisfied")
           /\ \A d \in Deps : dep'[d] = "unsatisfied" => dep[d] = "unsatisfied"
           /\ \A u \in Tasks : task'[u] \in {"ready", "running"} => task'[u] = task[u]
<1>1. \A d \in Deps : dep'[d] = IF d[1] = t /\ dep[d] # "satisfied"
                                THEN "failed" ELSE dep[d]
  BY DEF EndUnsatisfiably, DepsAfterFailure
<1>2. \A u \in Tasks : task'[u] = IF u = t THEN s
                                  ELSE IF u \in BlockedBy(t) THEN "blocked" ELSE task[u]
  BY DEF EndUnsatisfiably, TasksAfterFailure
<1> QED BY <1>1, <1>2

\* The shape of every step but a completion: rows and artefacts agree as
\* before, and a task that is ready, running or worked on was so already, or
\* its rows are satisfied.
Keeps ==
    /\ versions' = versions
    /\ \A d \in Deps : (dep[d] = "satisfied") <=> (dep'[d] = "satisfied")
    /\ \A d \in Deps : dep'[d] = "unsatisfied" => dep[d] = "unsatisfied"
    /\ \A u \in Tasks : task'[u] \in {"ready", "running"} =>
          task[u] \in {"ready", "running"} \/ (\E q \in Procs : Live(q, u))
             \/ Satisfied(dep, u)
    /\ \A q \in Procs, u \in Tasks : Live(q, u)' =>
          Live(q, u) \/ task[u] = "ready"

\* Such a step preserves the two invariants on rows.
LEMMA KeepsEnough ==
    ASSUME RowsMatchArtefacts, WorkedOnIsSatisfied, Keeps
    PROVE  RowsMatchArtefacts' /\ WorkedOnIsSatisfied'
<1>1. RowsMatchArtefacts'
  BY DEF RowsMatchArtefacts, Keeps, Produced
<1>2. ASSUME NEW u \in Tasks, Satisfied(dep, u) PROVE Satisfied(dep, u)'
  BY <1>2 DEF Satisfied, HardDeps, Keeps
<1>3. ASSUME NEW u \in Tasks,
             task'[u] \in {"ready", "running"} \/ \E q \in Procs : Live(q, u)'
      PROVE  Satisfied(dep, u)
  BY <1>3 DEF Keeps, WorkedOnIsSatisfied
<1> QED BY <1>1, <1>2, <1>3 DEF WorkedOnIsSatisfied

\* The step of a completing dispatch keeps the two invariants on rows: the
\* task was running, so its own rows are satisfied, and the dependents it wakes
\* are those whose last row it satisfies.
LEMMA CompletionStep ==
    ASSUME TypeOK, RowsMatchArtefacts, WorkedOnIsSatisfied,
           NEW p \in Procs, NEW t \in Tasks, DispatchOk(p, t), task[t] = "running"
    PROVE  RowsMatchArtefacts' /\ WorkedOnIsSatisfied'
<1>1. \A q \in Procs, u \in Tasks : Live(q, u)' => Live(q, u)
  BY EndingThread DEF DispatchOk
<1>2. /\ dep' = DepsAfterCompletion(t)
      /\ task' = TasksAfterCompletion(t)
      /\ versions' = [versions EXCEPT ![t] = @ + 1]
  BY DEF DispatchOk
<1>3. \A d \in Deps : dep'[d] = IF d[1] = t /\ dep[d] = "unsatisfied"
                                THEN "satisfied" ELSE dep[d]
  BY <1>2 DEF DepsAfterCompletion
<1>4. \A s \in Tasks : versions'[s] = IF s = t THEN versions[s] + 1 ELSE versions[s]
  BY <1>2 DEF TypeOK
<1>5. RowsMatchArtefacts'
  <2> SUFFICES ASSUME NEW d \in Deps
               PROVE  /\ dep'[d] = "satisfied" => versions'[d[1]] > 0
                      /\ versions'[d[1]] > 0 => dep'[d] # "unsatisfied"
    BY DEF RowsMatchArtefacts, Produced
  <2>1. d[1] \in Tasks /\ versions[d[1]] \in Nat
    BY DepsAssumption DEF TypeOK
  <2>2. CASE d[1] = t
    BY <2>1, <2>2, <1>3, <1>4
  <2>3. CASE d[1] # t
    BY <2>1, <2>3, <1>3, <1>4 DEF RowsMatchArtefacts, Produced
  <2> QED BY <2>2, <2>3
<1>6. ASSUME NEW u \in Tasks, Satisfied(dep, u) PROVE Satisfied(dep, u)'
  BY <1>6, <1>3 DEF Satisfied, HardDeps
<1>7. ASSUME NEW u \in Tasks, task'[u] \in {"ready", "running"}
      PROVE  Satisfied(dep, u)'
  <2>1. CASE u \in Woken(t)
    BY <2>1, <1>2 DEF Woken, Satisfied
  <2>2. CASE u \notin Woken(t)
    BY <2>2, <1>2, <1>7, <1>6 DEF TasksAfterCompletion, WorkedOnIsSatisfied
  <2> QED BY <2>1, <2>2
<1>8. ASSUME NEW u \in Tasks, NEW q \in Procs, Live(q, u)'
      PROVE  Satisfied(dep, u)'
  BY <1>8, <1>1, <1>6 DEF WorkedOnIsSatisfied
<1> QED BY <1>5, <1>7, <1>8 DEF WorkedOnIsSatisfied

-----------------------------------------------------------------------------
\* Every step other than a completing dispatch has the shape Keeps.
LEMMA OtherSteps ==
    ASSUME TypeOK, [Next]_vars,
           ~ \E p \in Procs, t \in Tasks : DispatchOk(p, t) /\ task[t] = "running"
    PROVE  Keeps
<1> DEFINE Frame == /\ UNCHANGED <<task, dep, versions, waiting, orphans>>
<1>1. Frame => Keeps
  BY DEF Keeps, Live
<1> HIDE DEF Frame
<1>2. ASSUME NEW p \in Procs, LoopStep(p) \/ LoopError(p) \/ ReplanEnds(p), ~ Poll(p)
      PROVE  Frame
  BY <1>2 DEF LoopStep, LoopStart, BatchDone, FinalizeRead, FinalizeCommit,
              ResumeReapedRun, Replan, ReplanEnds, LoopError, db, threads, Frame
<1>3. ASSUME NEW p \in Procs, Poll(p) PROVE Keeps
  <2>1. UNCHANGED <<dep, versions, waiting, orphans>>
    BY <1>3 DEF Poll
  <2>2. \A u \in Tasks : task'[u] \in {"ready", "running"} =>
            task[u] \in {"ready", "running"} \/ Satisfied(dep, u)
    BY <1>3 DEF Poll, AfterReadyTasks, ReadyTasks
  <2> QED BY <2>1, <2>2 DEF Keeps, Live
<1>4. ASSUME NEW p \in Procs, Crash(p) PROVE Keeps
  <2>1. UNCHANGED <<task, dep, versions>>
    BY <1>4 DEF Crash, db
  <2>2. \A q \in Procs, u \in Tasks : Live(q, u)' => Live(q, u)
    BY <1>4 DEF Crash, Live, TypeOK
  <2> QED BY <2>1, <2>2 DEF Keeps
<1>5. ASSUME NEW p \in Procs, Start(p) PROVE Keeps
  <2>1. UNCHANGED <<dep, versions, waiting, orphans>>
    BY <1>5 DEF Start, threads
  <2>2. \A u \in Tasks : task'[u] \in {"ready", "running"} =>
            task[u] \in {"ready", "running"}
    BY <1>5 DEF Start, AfterReap
  <2> QED BY <2>1, <2>2 DEF Keeps, Live
<1>6. ASSUME NEW p \in Procs, NEW t \in Tasks, Execute(p, t) PROVE Keeps
  <2>1. UNCHANGED <<dep, versions, orphans>>
    BY <1>6 DEF Execute
  <2>2. CASE task[t] = "ready"
    <3>1. /\ task' = [task EXCEPT ![t] = "running"]
          /\ waiting' = [waiting EXCEPT ![p] = @ \cup {t}]
      BY <1>6, <2>2 DEF Execute
    <3>2. \A u \in Tasks : task'[u] \in {"ready", "running"} =>
              task[u] \in {"ready", "running"}
      BY <3>1, <2>2 DEF TypeOK
    <3>3. \A q \in Procs, u \in Tasks : Live(q, u)' => Live(q, u) \/ task[u] = "ready"
      BY <3>1, <2>1, <2>2 DEF Live, TypeOK
    <3> QED BY <2>1, <3>2, <3>3 DEF Keeps
  <2>3. CASE task[t] # "ready"
    BY <1>6, <2>1, <2>3, <1>1 DEF Execute, Frame
  <2> QED BY <2>2, <2>3
<1>7. ASSUME NEW p \in Procs, NEW t \in Tasks, Timeout(p, t) PROVE Keeps
  <2>1. versions' = versions
    BY <1>7 DEF Timeout
  <2>2. \A q \in Procs, u \in Tasks : Live(q, u)' => Live(q, u)
    BY <1>7 DEF Timeout, Live, TypeOK
  <2>3. CASE task[t] = "running"
    BY <1>7, <2>1, <2>2, <2>3, EndingUnsatisfiably DEF Timeout, Keeps
  <2>4. CASE task[t] # "running"
    BY <1>7, <2>1, <2>2, <2>4 DEF Timeout, Keeps
  <2> QED BY <2>3, <2>4
<1>8. ASSUME NEW p \in Procs, NEW t \in Tasks, DispatchOk(p, t) PROVE Keeps
  <2>1. UNCHANGED <<task, dep, versions>>
    BY <1>8 DEF DispatchOk
  <2>2. \A q \in Procs, u \in Tasks : Live(q, u)' => Live(q, u)
    BY <1>8, EndingThread DEF DispatchOk
  <2> QED BY <2>1, <2>2 DEF Keeps
<1>9. ASSUME NEW p \in Procs, NEW t \in Tasks, DispatchError(p, t) PROVE Keeps
  <2>1. versions' = versions /\ \A q \in Procs, u \in Tasks : Live(q, u)' => Live(q, u)
    BY <1>9, EndingThread DEF DispatchError
  <2>2. CASE retry[t] < MaxRetries
    <3>1. dep' = dep /\ task' = [task EXCEPT ![t] = "retrying"]
      BY <1>9, <2>2, NumbersAssumption DEF DispatchError, TypeOK
    <3>2. \A u \in Tasks : task'[u] \in {"ready", "running"} => task'[u] = task[u]
      BY <3>1 DEF TypeOK
    <3> QED BY <2>1, <3>1, <3>2 DEF Keeps
  <2>3. CASE ~(retry[t] < MaxRetries)
    BY <1>9, <2>1, <2>3, EndingUnsatisfiably DEF DispatchError, Keeps
  <2> QED BY <2>2, <2>3
<1>10. ASSUME NEW p \in Procs, NEW t \in Tasks, DispatchStale(p, t) PROVE Keeps
  <2>1. versions' = versions /\ \A q \in Procs, u \in Tasks : Live(q, u)' => Live(q, u)
    BY <1>10, EndingThread DEF DispatchStale
  <2> QED BY <1>10, <2>1, EndingUnsatisfiably DEF DispatchStale, Keeps
<1>11. ASSUME NEW p \in Procs, NEW t \in Tasks, DispatchUnavailable(p, t) PROVE Keeps
  <2>1. versions' = versions /\ \A q \in Procs, u \in Tasks : Live(q, u)' => Live(q, u)
    BY <1>11, EndingThread DEF DispatchUnavailable
  <2>2. CASE EndUnsatisfiably(t, "escalated")
    BY <2>1, <2>2, EndingUnsatisfiably DEF Keeps
  <2>3. CASE dep' = dep /\ task' = [task EXCEPT ![t] = "ready"]
    <3>1. Live(p, t)
      BY <1>11 DEF DispatchUnavailable, ThreadEnds, Live
    <3>2. \A u \in Tasks : u # t => task'[u] = task[u]
      BY <2>3 DEF TypeOK
    <3> QED BY <2>1, <2>3, <3>1, <3>2 DEF Keeps
  <2> QED BY <1>11, <2>2, <2>3 DEF DispatchUnavailable
<1>12. ASSUME NEW p \in Procs, NEW t \in Tasks, OpenApproval(p, t) PROVE Frame
  BY <1>12 DEF OpenApproval, db, threads, Frame
<1>13. ASSUME NEW a \in Agents, ToggleAgent(a) PROVE Frame
  BY <1>13 DEF ToggleAgent, db, threads, Frame
<1>14. CASE Decide
  BY <1>14, <1>1 DEF Decide, db, threads, Frame
<1>15. CASE CancelRun
  BY <1>15 DEF CancelRun, threads, Keeps, Live
<1>16. CASE CheckStalledRuns
  BY <1>16, <1>1 DEF CheckStalledRuns, db, threads, Frame
<1>17. CASE UNCHANGED vars
  BY <1>17, <1>1 DEF vars, db, threads, Frame
<1> QED
  BY <1>1, <1>2, <1>3, <1>4, <1>5, <1>6, <1>7, <1>8, <1>9, <1>10, <1>11,
     <1>12, <1>13, <1>14, <1>15, <1>16, <1>17 DEF Next, TaskStep, LoopStep

\* The inductive invariant.
LEMMA Invariant == Spec => []IInv
<1>1. Init => RowsMatchArtefacts /\ WorkedOnIsSatisfied
  BY DepsAssumption DEF Init, RowsMatchArtefacts, WorkedOnIsSatisfied, Produced, Live
<1>2. TypeOK /\ RowsMatchArtefacts /\ WorkedOnIsSatisfied /\ [Next]_vars
        => RowsMatchArtefacts' /\ WorkedOnIsSatisfied'
  <2>1. ASSUME TypeOK, RowsMatchArtefacts, WorkedOnIsSatisfied,
               NEW p \in Procs, NEW t \in Tasks, DispatchOk(p, t), task[t] = "running"
        PROVE  RowsMatchArtefacts' /\ WorkedOnIsSatisfied'
    BY <2>1, CompletionStep
  <2> QED BY <2>1, OtherSteps, KeepsEnough
<1>3. TypeInv /\ RowsMatchArtefacts /\ WorkedOnIsSatisfied => IInv
  BY DEF TypeInv, IInv
<1>4. TypeInv => TypeOK
  BY DEF TypeInv
<1> QED BY <1>1, <1>2, <1>3, <1>4, TypeInvariant, PTL DEF Spec

\* For every plan and any number of processes, restarts, retries, orphans and
\* cancellations, a dependency row never disagrees with the artefact it stands
\* for (evaluate_on_completion, mark_unsatisfiable).
THEOREM RowsCorrect == Spec => []RowsMatchArtefacts
<1>1. IInv => RowsMatchArtefacts
  BY DEF IInv
<1> QED BY <1>1, Invariant, PTL

\* For every plan and any number of processes, no agent is dispatched on a task
\* before every prerequisite of the task has produced its artefact.
THEOREM InputsCorrect == Spec => []InputsBeforeWork
<1>1. IInv => InputsBeforeWork
  BY DEF IInv, InputsBeforeWork, WorkedOnIsSatisfied, RowsMatchArtefacts,
         Satisfied, HardDeps
<1> QED BY <1>1, Invariant, PTL

\* The engine implements PrecedenceExecution: artefacts appear one by one, each
\* after those of the task's prerequisites.
THEOREM EnginePrecedence == Spec => Precedence
<1> DEFINE d == {t \in Tasks : Produced(t)}
<1>1. Init => P!Init
  BY DEF Init, P!Init, Produced
<1>2. IInv /\ [Next]_vars => [P!Next]_d
  <2> SUFFICES ASSUME IInv, [Next]_vars PROVE P!Next \/ d' = d
    BY DEF P!Next
  <2>1. ASSUME NEW p \in Procs, NEW t \in Tasks, DispatchOk(p, t),
               task[t] = "running"
        PROVE  P!Next \/ d' = d
    <3>1. \A s \in Tasks : versions'[s] = IF s = t THEN versions[s] + 1 ELSE versions[s]
      BY <2>1 DEF DispatchOk, IInv, TypeOK
    <3>2. versions[t] \in Nat
      BY DEF IInv, TypeOK
    <3>3. d' = d \cup {t}
      BY <3>1, <3>2 DEF Produced
    <3>4. P!Prerequisites(t) \subseteq d
      BY <2>1 DEF P!Prerequisites, IInv, WorkedOnIsSatisfied, RowsMatchArtefacts,
                  Satisfied, HardDeps
    <3> QED BY <3>3, <3>4 DEF P!Next, P!Produce
  <2>2. CASE ~ \E p \in Procs, t \in Tasks : DispatchOk(p, t) /\ task[t] = "running"
    <3>1. versions' = versions
      BY <2>2, OtherSteps DEF IInv, Keeps
    <3> QED BY <3>1 DEF Produced
  <2> QED BY <2>1, <2>2
<1> QED BY <1>1, <1>2, Invariant, PTL DEF Spec, Precedence, P!Spec

-----------------------------------------------------------------------------
(* What a step does to failures: whoever ends unsatisfiably tells its dependents, and a task
   comes back from a terminal status only when nothing it depends on failed. *)
Tells ==
    /\ starts' = starts
    /\ \A d \in Deps : dep[d] = "satisfied" => dep'[d] = "satisfied"
    /\ \A u \in Tasks : task'[u] \in {"failed", "escalated"} =>
          \/ task[u] \in {"failed", "escalated"}
          \/ \A d \in Deps : d[1] = u => dep'[d] = "satisfied" \/ task'[d[2]] \in TERMINAL_TASK_STATUSES
    /\ \A u \in Tasks : task[u] \in TERMINAL_TASK_STATUSES =>
          task'[u] \in TERMINAL_TASK_STATUSES \/ Satisfied(dep, u)

LEMMA TellsEnough ==
    ASSUME FailurePropagates, Tells
    PROVE  FailurePropagates'
<1> SUFFICES ASSUME starts' = 0, NEW d \in Deps, task'[d[1]] \in {"failed", "escalated"}, dep'[d] # "satisfied"
             PROVE  task'[d[2]] \in TERMINAL_TASK_STATUSES
  BY DEF FailurePropagates, TERMINAL_TASK_STATUSES
<1>1. d[1] \in Tasks /\ d[2] \in Tasks /\ dep[d] # "satisfied" /\ starts = 0
  BY DepsAssumption DEF Tells
<1>2. CASE task[d[1]] \in {"failed", "escalated"}
  <2>1. task[d[2]] \in TERMINAL_TASK_STATUSES
    BY <1>1, <1>2 DEF FailurePropagates
  <2>2. ~Satisfied(dep, d[2])
    BY <1>1 DEF Satisfied, HardDeps
  <2> QED BY <1>1, <2>1, <2>2 DEF Tells
<1>3. CASE task[d[1]] \notin {"failed", "escalated"}
  BY <1>1, <1>3 DEF Tells
<1> QED BY <1>2, <1>3

(* mark_unsatisfiable leaves every dependent terminal. *)
LEMMA EndTells ==
    ASSUME TypeOK, NEW t \in Tasks, NEW s \in {"failed", "blocked", "escalated"}, EndUnsatisfiably(t, s),
           starts' = starts
    PROVE  Tells
<1>1. \A d \in Deps : (dep[d] = "satisfied") <=> (dep'[d] = "satisfied")
  BY EndingUnsatisfiably
<1>2. \A u \in Tasks : task'[u] = IF u = t THEN s
                                  ELSE IF u \in BlockedBy(t) THEN "blocked" ELSE task[u]
  BY DEF EndUnsatisfiably, TasksAfterFailure
<1>3. \A u \in Tasks : task[u] \in TERMINAL_TASK_STATUSES => task'[u] \in TERMINAL_TASK_STATUSES
  BY <1>2 DEF TERMINAL_TASK_STATUSES
<1>4. ASSUME NEW d \in Deps, d[1] = t
      PROVE  dep'[d] = "satisfied" \/ task'[d[2]] \in TERMINAL_TASK_STATUSES
  <2>1. d = <<t, d[2]>> /\ d[2] \in Tasks
    BY <1>4, DepsAssumption
  <2>2. dep[d] # "satisfied" /\ d[2] # t /\ task[d[2]] \notin TERMINAL_TASK_STATUSES => d[2] \in BlockedBy(t)
    BY <2>1 DEF BlockedBy
  <2>3. s \in TERMINAL_TASK_STATUSES /\ "blocked" \in TERMINAL_TASK_STATUSES
    BY DEF TERMINAL_TASK_STATUSES
  <2> QED BY <1>1, <1>2, <1>3, <2>1, <2>2, <2>3
<1>5. \A u \in Tasks : u # t /\ task'[u] \in {"failed", "escalated"} => task[u] \in {"failed", "escalated"}
  BY <1>2
<1> QED BY <1>1, <1>3, <1>4, <1>5 DEF Tells

LEMMA StepTells ==
    ASSUME IInv, [Next]_vars, starts' = starts
    PROVE  Tells
<1> DEFINE Still == UNCHANGED <<task, dep>>
<1>0. TypeOK /\ WorkedOnIsSatisfied
  BY DEF IInv
<1>1. Still => Tells
  BY DEF Tells
<1> HIDE DEF Still
(* One task moves to a status that is neither failed nor escalated, and it is not brought
   back from a terminal one unless its rows are satisfied. *)
<1>a. ASSUME NEW t \in Tasks, NEW s \in TaskStatus, s \notin {"failed", "escalated"},
             task' = [task EXCEPT ![t] = s], dep' = dep,
             task[t] \notin TERMINAL_TASK_STATUSES \/ Satisfied(dep, t)
      PROVE  Tells
  <2>1. \A u \in Tasks : task'[u] = IF u = t THEN s ELSE task[u]
    BY <1>a, <1>0 DEF TypeOK
  <2> QED BY <1>a, <2>1 DEF Tells
<1>b. ASSUME NEW p \in Procs, NEW t \in Tasks, ThreadEnds(p, t)
      PROVE  Satisfied(dep, t)
  BY <1>b, <1>0 DEF ThreadEnds, Live, WorkedOnIsSatisfied
<1>2. ASSUME NEW p \in Procs, LoopStep(p) \/ LoopError(p) \/ ReplanEnds(p) \/ Crash(p), ~ Poll(p)
      PROVE  Still
  BY <1>2 DEF LoopStep, LoopStart, BatchDone, FinalizeRead, FinalizeCommit,
              ResumeReapedRun, Replan, ReplanEnds, LoopError, Crash, db, Still
<1>3. ASSUME NEW p \in Procs, Poll(p) PROVE Tells
  <2>1. dep' = dep /\ \A u \in Tasks : task'[u] \in {"ready", "waiting_for_dependency"} \/ task'[u] = task[u]
    BY <1>3 DEF Poll, AfterReadyTasks
  <2>2. \A u \in Tasks : task[u] \in TERMINAL_TASK_STATUSES => task'[u] = task[u]
    BY <1>3 DEF Poll, AfterReadyTasks, ReadyTasks, READY_CANDIDATES, TERMINAL_TASK_STATUSES
  <2> QED BY <2>1, <2>2 DEF Tells
<1>5. ASSUME NEW p \in Procs, Start(p) PROVE FALSE
  BY <1>5, <1>0 DEF Start, TypeOK
<1>6. ASSUME NEW p \in Procs, NEW t \in Tasks, Execute(p, t) PROVE Tells
  <2>1. CASE task[t] = "ready"
    <3>1. dep' = dep /\ task' = [task EXCEPT ![t] = "running"]
      BY <1>6, <2>1 DEF Execute
    <3>2. "running" \in TaskStatus /\ task[t] \notin TERMINAL_TASK_STATUSES
      BY <2>1 DEF TaskStatus, TERMINAL_TASK_STATUSES
    <3> QED BY <3>1, <3>2, <1>a
  <2>2. CASE task[t] # "ready"
    BY <1>6, <2>2, <1>1 DEF Execute, Still
  <2> QED BY <2>1, <2>2
<1>7. ASSUME NEW p \in Procs, NEW t \in Tasks, Timeout(p, t) PROVE Tells
  <2>1. CASE EndUnsatisfiably(t, "failed")
    BY <1>0, <2>1, EndTells
  <2>2. CASE UNCHANGED <<task, dep>>
    BY <2>2, <1>1 DEF Still
  <2> QED BY <1>7, <2>1, <2>2 DEF Timeout
<1>8. ASSUME NEW p \in Procs, NEW t \in Tasks, DispatchOk(p, t) PROVE Tells
  <2>1. CASE task[t] = "running"
    <3>1. /\ dep' = DepsAfterCompletion(t) /\ task' = TasksAfterCompletion(t)
      BY <1>8, <2>1 DEF DispatchOk
    <3>2. \A d \in Deps : dep[d] = "satisfied" => dep'[d] = "satisfied"
      BY <3>1 DEF DepsAfterCompletion
    <3>3. \A u \in Tasks : task'[u] \in {"completed", "ready"} \/ task'[u] = task[u]
      BY <3>1 DEF TasksAfterCompletion
    <3>4. \A u \in Tasks : task[u] \in TERMINAL_TASK_STATUSES => task'[u] \in TERMINAL_TASK_STATUSES
      BY <3>1 DEF TasksAfterCompletion, Woken, TERMINAL_TASK_STATUSES
    <3> QED BY <3>2, <3>3, <3>4 DEF Tells
  <2>2. CASE task[t] # "running"
    BY <1>8, <2>2, <1>1 DEF DispatchOk, Still
  <2> QED BY <2>1, <2>2
<1>9. ASSUME NEW p \in Procs, NEW t \in Tasks, DispatchError(p, t) PROVE Tells
  <2>1. CASE EndUnsatisfiably(t, "failed")
    BY <1>0, <2>1, EndTells
  <2>2. CASE dep' = dep /\ task' = [task EXCEPT ![t] = "retrying"]
    <3>1. Satisfied(dep, t) /\ "retrying" \in TaskStatus
      BY <1>9, <1>b DEF DispatchError, TaskStatus
    <3> QED BY <2>2, <3>1, <1>a
  <2> QED BY <1>9, <2>1, <2>2 DEF DispatchError
<1>10. ASSUME NEW p \in Procs, NEW t \in Tasks, DispatchStale(p, t) PROVE Tells
  BY <1>10, <1>0, EndTells DEF DispatchStale
<1>11. ASSUME NEW p \in Procs, NEW t \in Tasks, DispatchUnavailable(p, t) PROVE Tells
  <2>1. CASE EndUnsatisfiably(t, "escalated")
    BY <1>0, <2>1, EndTells
  <2>2. CASE dep' = dep /\ task' = [task EXCEPT ![t] = "ready"]
    <3>1. Satisfied(dep, t) /\ "ready" \in TaskStatus
      BY <1>11, <1>b DEF DispatchUnavailable, TaskStatus
    <3> QED BY <2>2, <3>1, <1>a
  <2> QED BY <1>11, <2>1, <2>2 DEF DispatchUnavailable
<1>12. ASSUME NEW p \in Procs, NEW t \in Tasks, OpenApproval(p, t) PROVE Still
  BY <1>12 DEF OpenApproval, db, Still
<1>13. ASSUME NEW a \in Agents, ToggleAgent(a) PROVE Still
  BY <1>13 DEF ToggleAgent, db, Still
<1>14. CASE Decide \/ CheckStalledRuns \/ UNCHANGED vars
  BY <1>14, <1>1 DEF Decide, CheckStalledRuns, vars, db, Still
<1>15. CASE CancelRun
  <2>1. dep' = dep /\ \A u \in Tasks : task'[u] = IF task[u] \in {"completed", "failed", "cancelled"} THEN task[u] ELSE "cancelled"
    BY <1>15 DEF CancelRun
  <2>2. \A u \in Tasks : task[u] \in TERMINAL_TASK_STATUSES => task'[u] \in TERMINAL_TASK_STATUSES
    BY <2>1 DEF TERMINAL_TASK_STATUSES
  <2> QED BY <2>1, <2>2 DEF Tells
<1> QED
  BY <1>1, <1>2, <1>3, <1>5, <1>6, <1>7, <1>8, <1>9, <1>10, <1>11,
     <1>12, <1>13, <1>14, <1>15 DEF Next, TaskStep, LoopStep

(* Without a restart, a task that failed or escalated leaves no direct dependent waiting for
   it, for every plan and any number of processes, orphans and reassignments
   (mark_unsatisfiable and everyone who calls it). *)
THEOREM FailuresPropagate == Spec => []FailurePropagates
<1>1. Init => FailurePropagates
  BY DepsAssumption DEF Init, FailurePropagates
<1>2. IInv /\ FailurePropagates /\ [Next]_vars => FailurePropagates'
  <2> SUFFICES ASSUME IInv, FailurePropagates, [Next]_vars PROVE FailurePropagates'
    OBVIOUS
  <2>1. CASE starts' = starts
    BY <2>1, StepTells, TellsEnough
  <2>2. CASE starts' # starts
    <3>1. PICK p \in Procs : Start(p)
      BY <2>2 DEF Next, LoopStep, LoopStart, Poll, BatchDone, FinalizeRead, FinalizeCommit,
                  ResumeReapedRun, Replan, ReplanEnds, LoopError, Crash, TaskStep, Execute, Timeout,
                  OpenApproval, DispatchOk, DispatchError, DispatchStale, DispatchUnavailable,
                  ToggleAgent, Decide, CancelRun, CheckStalledRuns, vars, env
    <3>2. starts' = starts + 1 /\ starts \in Nat
      BY <3>1 DEF Start, IInv, TypeOK
    <3>3. starts' # 0
      BY <3>2
    <3> QED BY <3>3 DEF FailurePropagates
  <2> QED BY <2>1, <2>2
<1> QED BY <1>1, <1>2, Invariant, PTL DEF Spec

-----------------------------------------------------------------------------
(* One process: each task has one dispatch thread at most. *)

OneThread(p) ==
    /\ \A t \in Tasks :
         /\ t \in waiting[p] => task[t] \in {"running", "cancelled"} /\ orphans[p][t] = 0
         /\ orphans[p][t] > 0 => task[t] \in {"failed", "cancelled"} /\ orphans[p][t] = 1
    /\ p \notin up => loop[p] = "off" /\ \A t \in Tasks : ~Live(p, t)

(* A thread that ends was the only one of its task. *)
LEMMA LastThread ==
    ASSUME TypeOK, NEW p \in Procs, OneThread(p), NEW t \in Tasks, ThreadEnds(p, t)
    PROVE  /\ t \notin waiting'[p] /\ orphans'[p][t] = 0
           /\ \A u \in Tasks : u # t => (u \in waiting'[p] <=> u \in waiting[p]) /\ orphans'[p][u] = orphans[p][u]
           /\ p \in up
           /\ task[t] # "completed"
<1>0. Live(p, t)
  BY DEF ThreadEnds, Live
<1>1. CASE t \in waiting[p] /\ waiting' = [waiting EXCEPT ![p] = @ \ {t}] /\ UNCHANGED orphans
  BY <1>0, <1>1 DEF OneThread, TypeOK
<1>2. CASE orphans[p][t] > 0 /\ orphans' = [orphans EXCEPT ![p][t] = @ - 1] /\ UNCHANGED waiting
  <2>1. t \notin waiting[p] /\ orphans[p][t] = 1 /\ task[t] # "completed"
    BY <1>2 DEF OneThread, TypeOK
  <2>2. \A u \in Tasks : orphans'[p][u] = IF u = t THEN orphans[p][u] - 1 ELSE orphans[p][u]
    BY <1>2 DEF TypeOK
  <2> QED BY <1>0, <1>2, <2>1, <2>2 DEF OneThread
<1> QED BY <1>1, <1>2 DEF ThreadEnds

(* The end of a thread, whatever becomes of its own task, as long as the tasks that other
   threads work on keep their status. *)
LEMMA ThreadGone ==
    ASSUME TypeOK, NEW p \in Procs, OneThread(p), NEW t \in Tasks, ThreadEnds(p, t),
           UNCHANGED <<up, loop>>,
           \A u \in Tasks : u # t /\ Live(p, u) => task'[u] = task[u]
    PROVE  OneThread(p)'
<1>1. /\ t \notin waiting'[p] /\ orphans'[p][t] = 0 /\ p \in up
      /\ \A u \in Tasks : u # t => (u \in waiting'[p] <=> u \in waiting[p]) /\ orphans'[p][u] = orphans[p][u]
  BY LastThread
<1>2. ASSUME NEW u \in Tasks
      PROVE  /\ u \in waiting'[p] => task'[u] \in {"running", "cancelled"} /\ orphans'[p][u] = 0
             /\ orphans'[p][u] > 0 => task'[u] \in {"failed", "cancelled"} /\ orphans'[p][u] = 1
  <2>1. CASE u = t
    BY <1>1, <2>1
  <2>2. CASE u # t
    BY <1>1, <2>2 DEF OneThread, Live
  <2> QED BY <2>1, <2>2
<1> QED BY <1>1, <1>2 DEF OneThread

(* mark_unsatisfiable passes over tasks that are worked on. *)
LEMMA WorkIsNotBlocked ==
    ASSUME TypeOK, WorkedOnIsSatisfied, NEW p \in Procs, NEW t \in Tasks, NEW s, EndUnsatisfiably(t, s),
           NEW u \in Tasks, u # t, Live(p, u)
    PROVE  task'[u] = task[u]
<1>1. Satisfied(dep, u)
  BY DEF WorkedOnIsSatisfied
<1>2. u \notin BlockedBy(t)
  BY <1>1 DEF BlockedBy, Satisfied, HardDeps
<1> QED BY <1>2 DEF EndUnsatisfiably, TasksAfterFailure

(* Nor is one that is completed touched. *)
LEMMA CompletedIsNotBlocked ==
    ASSUME NEW t \in Tasks, NEW s, EndUnsatisfiably(t, s), NEW u \in Tasks, u # t, task[u] = "completed"
    PROVE  task'[u] = "completed"
BY DEF EndUnsatisfiably, TasksAfterFailure, BlockedBy, TERMINAL_TASK_STATUSES

CompletedStays == \A u \in Tasks : task[u] = "completed" => task'[u] = "completed"

LEMMA OneThreadStep ==
    ASSUME IInv, NEW p \in Procs, Procs = {p}, OneThread(p), [Next]_vars
    PROVE  OneThread(p)' /\ CompletedStays
<1>0. TypeOK /\ WorkedOnIsSatisfied
  BY DEF IInv
<1> USE DEF Goto
<1> DEFINE Same == UNCHANGED <<task, waiting, orphans, up>>
<1>1. Same /\ (p \in up \/ loop'[p] = "off") => OneThread(p)' /\ CompletedStays
  BY DEF OneThread, Live, CompletedStays
<1> HIDE DEF Same
<1>a. loop[p] # "off" => p \in up
  BY DEF OneThread
<1>2. CASE (LoopStep(p) /\ ~Poll(p)) \/ LoopError(p) \/ ReplanEnds(p)
  <2>1. Same /\ loop[p] # "off"
    BY <1>2, <1>0 DEF LoopStep, LoopStart, BatchDone, FinalizeRead, FinalizeCommit, ResumeReapedRun, Replan,
                ReplanEnds, LoopError, db, threads, Same
  <2> QED BY <2>1, <1>1, <1>a
<1>3. CASE Poll(p)
  <2>1. UNCHANGED <<waiting, orphans, up>> /\ p \in up
    BY <1>3, <1>a DEF Poll
  <2>2. \A u \in Tasks : task[u] \in {"completed", "running", "cancelled", "failed"} => task'[u] = task[u]
    BY <1>3 DEF Poll, AfterReadyTasks, ReadyTasks, READY_CANDIDATES
  <2> QED BY <2>1, <2>2 DEF OneThread, CompletedStays
<1>4. CASE Crash(p)
  <2>1. task' = task /\ loop'[p] = "off" /\ waiting'[p] = {} /\ orphans'[p] = [t \in Tasks |-> 0]
    BY <1>4, <1>0 DEF Crash, db, TypeOK
  <2> QED BY <2>1 DEF OneThread, Live, CompletedStays
<1>5. CASE Start(p)
  <2>1. UNCHANGED <<waiting, orphans>> /\ p \in up' /\ \A t \in Tasks : ~Live(p, t)
    BY <1>5 DEF Start, OneThread, threads
  <2>2. \A t \in Tasks : task'[t] = task[t] \/ task[t] = "running"
    BY <1>5 DEF Start, AfterReap
  <2> QED BY <2>1, <2>2 DEF OneThread, Live, CompletedStays
<1>6. ASSUME NEW t \in Tasks, Execute(p, t) PROVE OneThread(p)' /\ CompletedStays
  <2>1. CASE task[t] = "ready"
    <3>1. /\ \A u \in Tasks : task'[u] = IF u = t THEN "running" ELSE task[u]
          /\ waiting'[p] = waiting[p] \cup {t} /\ UNCHANGED <<orphans, up, loop>> /\ p \in up
      BY <1>0, <1>6, <2>1, <1>a DEF Execute, TypeOK
    <3>2. orphans[p][t] = 0
      BY <1>0, <2>1 DEF OneThread, TypeOK
    <3> QED BY <2>1, <3>1, <3>2 DEF OneThread, CompletedStays
  <2>2. CASE task[t] # "ready"
    BY <1>6, <2>2, <1>1, <1>a DEF Execute, Same
  <2> QED BY <2>1, <2>2
<1>7. ASSUME NEW t \in Tasks, Timeout(p, t) PROVE OneThread(p)' /\ CompletedStays
  <2>1. /\ t \in waiting[p] /\ UNCHANGED <<up, loop>>
        /\ waiting' = [waiting EXCEPT ![p] = @ \ {t}] /\ orphans' = [orphans EXCEPT ![p][t] = @ + 1]
    BY <1>7 DEF Timeout
  <2>2. /\ waiting'[p] = waiting[p] \ {t} /\ orphans'[p][t] = 1 /\ p \in up
        /\ \A u \in Tasks : u # t => orphans'[p][u] = orphans[p][u]
    BY <1>0, <2>1 DEF TypeOK, OneThread, Live
  <2>3. CASE task[t] = "running"
    <3>1. EndUnsatisfiably(t, "failed")
      BY <1>7, <2>3 DEF Timeout
    <3>2. task'[t] = "failed" /\ \A u \in Tasks : u # t /\ Live(p, u) => task'[u] = task[u]
      BY <1>0, <3>1, WorkIsNotBlocked DEF EndUnsatisfiably, TasksAfterFailure
    <3>3. CompletedStays
      BY <2>3, <3>1, CompletedIsNotBlocked DEF CompletedStays
    <3> QED BY <2>1, <2>2, <3>2, <3>3 DEF OneThread, Live
  <2>4. CASE task[t] # "running"
    <3>1. task' = task /\ task[t] = "cancelled"
      BY <1>7, <2>1, <2>4 DEF Timeout, OneThread
    <3> QED BY <2>1, <2>2, <3>1 DEF OneThread, CompletedStays
  <2> QED BY <2>3, <2>4
<1>b. ASSUME NEW t \in Tasks, ThreadEnds(p, t), UNCHANGED <<up, loop>>,
             \/ EndUnsatisfiably(t, "failed") \/ EndUnsatisfiably(t, "blocked") \/ EndUnsatisfiably(t, "escalated")
             \/ \E s \in TaskStatus : task' = [task EXCEPT ![t] = s]
             \/ task' = task
      PROVE  OneThread(p)' /\ CompletedStays
  <2>1. \A u \in Tasks : u # t /\ Live(p, u) => task'[u] = task[u]
    BY <1>0, <1>b, WorkIsNotBlocked DEF TypeOK
  <2>2. OneThread(p)'
    BY <1>0, <1>b, <2>1, ThreadGone
  <2>3. task[t] # "completed"
    BY <1>0, <1>b, LastThread
  <2>4. CompletedStays
    BY <1>0, <1>b, <2>3, CompletedIsNotBlocked DEF CompletedStays, TypeOK
  <2> QED BY <2>2, <2>4
<1>8. ASSUME NEW t \in Tasks, DispatchOk(p, t) PROVE OneThread(p)' /\ CompletedStays
  <2>0. ThreadEnds(p, t) /\ UNCHANGED <<up, loop>>
    BY <1>8 DEF DispatchOk
  <2>1. CASE task[t] = "running"
    <3>1. task' = TasksAfterCompletion(t)
      BY <1>8, <2>1 DEF DispatchOk
    <3>2. \A u \in Tasks : Live(p, u) => u \notin Woken(t)
      BY <1>0 DEF WorkedOnIsSatisfied, Woken, Satisfied, HardDeps
    <3>3. \A u \in Tasks : u # t /\ Live(p, u) => task'[u] = task[u]
      BY <3>1, <3>2 DEF TasksAfterCompletion
    <3>4. CompletedStays
      BY <3>1 DEF CompletedStays, TasksAfterCompletion, Woken, TERMINAL_TASK_STATUSES
    <3> QED BY <1>0, <2>0, <3>3, <3>4, ThreadGone
  <2>2. CASE task[t] # "running"
    BY <1>8, <2>0, <2>2, <1>b DEF DispatchOk
  <2> QED BY <2>1, <2>2
<1>9. ASSUME NEW t \in Tasks, DispatchError(p, t) \/ DispatchStale(p, t) \/ DispatchUnavailable(p, t)
      PROVE  OneThread(p)' /\ CompletedStays
  <2>1. ThreadEnds(p, t) /\ UNCHANGED <<up, loop>>
    BY <1>9 DEF DispatchError, DispatchStale, DispatchUnavailable
  <2>2. \/ EndUnsatisfiably(t, "failed") \/ EndUnsatisfiably(t, "blocked") \/ EndUnsatisfiably(t, "escalated")
        \/ task' = [task EXCEPT ![t] = "retrying"] \/ task' = [task EXCEPT ![t] = "ready"]
    BY <1>9 DEF DispatchError, DispatchStale, DispatchUnavailable
  <2>3. "retrying" \in TaskStatus /\ "ready" \in TaskStatus
    BY DEF TaskStatus
  <2> QED BY <2>1, <2>2, <2>3, <1>b
<1>10. CASE (\E t \in Tasks : OpenApproval(p, t)) \/ (\E a \in Agents : ToggleAgent(a)) \/ Decide \/ CheckStalledRuns
            \/ UNCHANGED vars
  <2>1. Same /\ loop' = loop
    BY <1>10 DEF OpenApproval, ToggleAgent, Decide, CheckStalledRuns, vars, db, threads, Same
  <2> QED BY <2>1, <1>1, <1>a
<1>11. CASE CancelRun
  <2>1. /\ UNCHANGED <<waiting, orphans, up, loop>>
        /\ \A u \in Tasks : task'[u] = IF task[u] \in {"completed", "failed", "cancelled"} THEN task[u] ELSE "cancelled"
    BY <1>11 DEF CancelRun, threads
  <2> QED BY <2>1 DEF OneThread, Live, CompletedStays
<1> QED
  BY <1>2, <1>3, <1>4, <1>5, <1>6, <1>7, <1>8, <1>9, <1>10, <1>11 DEF Next, TaskStep, LoopStep

LEMMA OneThreadAlways ==
    ASSUME Procs = {Primary}
    PROVE  Spec => []OneThread(Primary)
<1>0. Primary \in Procs
  BY NamesAssumption
<1>1. Init => OneThread(Primary)
  BY <1>0 DEF Init, OneThread, Live
<1>2. IInv /\ OneThread(Primary) /\ [Next]_vars => OneThread(Primary)'
  BY <1>0, OneThreadStep
<1> QED BY <1>1, <1>2, Invariant, PTL DEF Spec

(* With one API process nothing undoes a completion: no late failure, stale dataset,
   timeout or restart.  (The reaper of a second process may start a task again that the
   first one is about to complete.) *)
THEOREM CompletionsLast ==
    ASSUME Procs = {Primary}
    PROVE  Spec => CompletedIsFinal
<1>0. Primary \in Procs
  BY NamesAssumption
<1>1. IInv /\ OneThread(Primary) /\ [Next]_vars => CompletedStays
  BY <1>0, OneThreadStep
<1>2. Spec => []OneThread(Primary)
  BY OneThreadAlways
<1>3. CompletedStays => [\A t \in Tasks : task[t] = "completed" => task'[t] = "completed"]_vars
  BY DEF CompletedStays
<1> QED BY <1>1, <1>2, <1>3, Invariant, PTL DEF Spec, CompletedIsFinal

-----------------------------------------------------------------------------
(* What _finalize has read still holds when it commits. *)

AllCompleted == \A t \in Tasks : task[t] = "completed"
Earned ==
    /\ \A t \in Tasks : task[t] # "cancelled"
    /\ pending <= opened
    /\ \A p \in Procs : verdict[p] = "completed" => AllCompleted /\ pending = 0
    /\ run = "completed" /\ opened = 0 => AllCompleted

LEMMA EarnedStep ==
    ASSUME IInv, NEW p \in Procs, Procs = {p}, OneThread(p), ~Cancellable, Earned, [Next]_vars
    PROVE  Earned' /\ (run # "completed" /\ run' = "completed" => pending' = 0)
<1>0. TypeOK
  BY DEF IInv
<1>1. AllCompleted => AllCompleted'
  BY OneThreadStep DEF CompletedStays, AllCompleted
<1>c. \A t \in Tasks : task'[t] # "cancelled"
  <2> USE DEF Earned
  <2>1. \A t \in Tasks, s \in {"failed", "blocked", "escalated"} : EndUnsatisfiably(t, s) => \A u \in Tasks : task'[u] # "cancelled"
    BY DEF EndUnsatisfiably, TasksAfterFailure
  <2>2. \A t \in Tasks, s \in {"retrying", "ready", "running"} :
          task' = [task EXCEPT ![t] = s] => \A u \in Tasks : task'[u] # "cancelled"
    BY <1>0 DEF TypeOK
  <2>3. CASE task' = task
    BY <2>3
  <2>4. CASE Poll(p)
    BY <2>4 DEF Poll, AfterReadyTasks
  <2>5. CASE Start(p)
    BY <2>5 DEF Start, AfterReap
  <2>6. ASSUME NEW t \in Tasks, TaskStep(p, t) PROVE \A u \in Tasks : task'[u] # "cancelled"
    <3>1. CASE DispatchOk(p, t)
      BY <3>1 DEF DispatchOk, TasksAfterCompletion
    <3>2. CASE Execute(p, t) \/ OpenApproval(p, t) \/ Timeout(p, t)
      BY <3>2, <2>1, <2>2, <2>3 DEF Execute, OpenApproval, Timeout, db
    <3>3. CASE DispatchError(p, t) \/ DispatchStale(p, t) \/ DispatchUnavailable(p, t)
      BY <3>3, <2>1, <2>2 DEF DispatchError, DispatchStale, DispatchUnavailable
    <3> QED BY <2>6, <3>1, <3>2, <3>3 DEF TaskStep
  <2>7. CASE \/ (LoopStep(p) /\ ~Poll(p)) \/ LoopError(p) \/ ReplanEnds(p) \/ Crash(p)
             \/ (\E a \in Agents : ToggleAgent(a)) \/ Decide \/ CheckStalledRuns \/ UNCHANGED vars
    BY <2>7, <2>3 DEF LoopStep, LoopStart, BatchDone, FinalizeRead, FinalizeCommit, ResumeReapedRun, Replan,
                ReplanEnds, LoopError, Crash, ToggleAgent, Decide, CheckStalledRuns, vars, db
  <2>8. ~CancelRun
    BY DEF CancelRun
  <2> QED BY <2>4, <2>5, <2>6, <2>7, <2>8 DEF Next, LoopStep
<1>2. pending' <= opened' /\ opened' >= opened
  <2>1. pending \in Nat /\ opened \in Nat /\ pending <= opened
    BY <1>0 DEF TypeOK, Earned
  <2>2. \/ UNCHANGED <<opened, pending>>
        \/ opened' = opened + 1 /\ pending' = pending + 1
        \/ pending > 0 /\ opened' = opened /\ pending' = pending - 1
    BY DEF Next, LoopStep, LoopStart, Poll, BatchDone, FinalizeRead, FinalizeCommit,
           ResumeReapedRun, Replan, ReplanEnds, LoopError, Crash, Start, TaskStep, Execute, Timeout,
           OpenApproval, DispatchOk, DispatchError, DispatchStale, DispatchUnavailable,
           ToggleAgent, Decide, CancelRun, CheckStalledRuns, vars, approvals
  <2> QED BY <2>1, <2>2
(* No dispatch is under way when all tasks are completed, so none opens an approval. *)
<1>3. AllCompleted => \A t \in Tasks : ~Live(p, t)
  BY <1>0 DEF AllCompleted, OneThread, Live, TypeOK
<1>4. ASSUME UNCHANGED <<verdict, run, opened, pending>> PROVE Earned'
  BY <1>1, <1>2, <1>4, <1>c DEF Earned
<1>5. CASE FinalizeRead(p)
  <2>1. verdict'[p] = Verdict /\ UNCHANGED <<task, run, opened, pending>>
    BY <1>0, <1>5 DEF FinalizeRead, TypeOK, db, approvals
  <2>2. Verdict = "completed" => AllCompleted /\ pending = 0
    <3> SUFFICES ASSUME Verdict = "completed" PROVE AllCompleted /\ pending = 0
      OBVIOUS
    <3>1. /\ ~\E t \in Tasks : task[t] \in NONTERMINAL
          /\ ~\E t \in Tasks : task[t] \in {"failed", "blocked", "escalated"}
          /\ ~(pending > 0)
      BY DEF Verdict
    <3>2. AllCompleted
      BY <1>0, <3>1 DEF AllCompleted, Earned, NONTERMINAL, TERMINAL_TASK_STATUSES, TypeOK
    <3> QED BY <1>0, <3>1, <3>2 DEF TypeOK
  <2>3. \A q \in Procs : verdict'[q] = "completed" => AllCompleted' /\ pending' = 0
    BY <2>1, <2>2 DEF AllCompleted
  <2> QED BY <1>1, <1>2, <1>c, <2>1, <2>3 DEF Earned
<1>6. CASE FinalizeCommit(p)
  <2>1. verdict'[p] = "none" /\ UNCHANGED <<task, opened, pending>> /\ run' = (IF verdict[p] = "keep" THEN run ELSE verdict[p])
    BY <1>0, <1>6 DEF FinalizeCommit, TypeOK, db, approvals
  <2>2. run' = "completed" => run = "completed" \/ (AllCompleted /\ pending = 0)
    BY <2>1 DEF Earned
  <2> QED BY <1>1, <1>2, <1>c, <2>1, <2>2 DEF Earned
<1>7. CASE Decide
  <2>1. /\ pending > 0 /\ pending' = pending - 1 /\ UNCHANGED <<task, opened, verdict>>
        /\ run' = "completed" => run = "completed" \/ pending = 1
    BY <1>7 DEF Decide, db, threads
  <2>2. pending \in Nat /\ opened \in Nat
    BY <1>0, <2>1 DEF TypeOK
  <2>3. opened # 0 /\ \A q \in Procs : verdict[q] # "completed"
    BY <1>0, <2>1 DEF Earned, TypeOK
  <2>4. pending = 1 => pending' = 0
    BY <2>1
  <2> QED BY <1>2, <1>c, <2>1, <2>2, <2>3, <2>4 DEF Earned
<1>8. ASSUME NEW t \in Tasks, OpenApproval(p, t) PROVE Earned' /\ UNCHANGED run
  <2>1. Live(p, t) /\ opened' = opened + 1 /\ UNCHANGED <<task, verdict, run>>
    BY <1>8 DEF OpenApproval, db, threads
  <2>2. ~AllCompleted /\ opened' # 0
    BY <1>0, <1>3, <2>1 DEF TypeOK
  <2> QED BY <1>2, <1>c, <2>1, <2>2 DEF Earned
<1>9. CASE LoopStart(p) \/ LoopError(p) \/ ReplanEnds(p) \/ CheckStalledRuns \/ CancelRun
  <2>1. UNCHANGED <<verdict, opened, pending>> /\ (run' = run \/ run' # "completed")
    BY <1>9 DEF LoopStart, LoopError, ReplanEnds, ClosedOut, CheckStalledRuns, CancelRun, threads, approvals
  <2> QED BY <1>1, <1>2, <1>c, <2>1 DEF Earned
<1>10. CASE Crash(p)
  <2>1. verdict'[p] = "none" /\ UNCHANGED <<opened, pending, run>>
    BY <1>0, <1>10 DEF Crash, TypeOK, approvals
  <2> QED BY <1>1, <1>2, <1>c, <2>1 DEF Earned
<1>11. CASE \/ Poll(p) \/ BatchDone(p) \/ ResumeReapedRun(p) \/ Replan(p) \/ Start(p)
            \/ (\E t \in Tasks : TaskStep(p, t) /\ ~OpenApproval(p, t))
            \/ (\E a \in Agents : ToggleAgent(a)) \/ UNCHANGED vars
  <2>1. UNCHANGED <<verdict, run, opened, pending>>
    BY <1>11 DEF Poll, BatchDone, ResumeReapedRun, Replan, Start, TaskStep, Execute, Timeout, DispatchOk, DispatchError,
                 DispatchStale, DispatchUnavailable, ToggleAgent, vars, threads, approvals
  <2> QED BY <1>4, <2>1
<1> QED BY <1>5, <1>6, <1>7, <1>8, <1>9, <1>10, <1>11 DEF Next, LoopStep

(* With one API process and no cancellation a run is reported completed only when it has
   earned it, although _finalize commits what it read in an earlier transaction: its tasks
   are all completed unless approvals were opened, and none of those is pending. *)
THEOREM CompletionsEarned ==
    ASSUME Procs = {Primary}, ~Cancellable
    PROVE  Spec => CompletionIsEarned
<1>0. Primary \in Procs
  BY NamesAssumption
<1>1. Init => Earned
  BY DEF Init, Earned
<1>2. IInv /\ OneThread(Primary) /\ Earned /\ [Next]_vars => Earned'
  BY <1>0, EarnedStep
<1>3. Spec => []OneThread(Primary)
  BY OneThreadAlways
<1>4. IInv /\ OneThread(Primary) /\ Earned /\ [Next]_vars
        => [run # "completed" /\ run' = "completed" => pending' = 0]_vars
  BY <1>0, EarnedStep
<1>5. Earned => (run = "completed" /\ opened = 0 => \A t \in Tasks : task[t] = "completed")
  BY DEF Earned, AllCompleted
<1> QED BY <1>1, <1>2, <1>3, <1>4, <1>5, Invariant, PTL DEF Spec, CompletionIsEarned

-----------------------------------------------------------------------------
(* Who waits, and for what.  A row that failed belongs to a task that is over, and a completed
   task has its artefact: then the only rows that keep a task waiting are those of tasks that
   are not over, or that ended without a result. *)
RowsBlock == \A d \in Deps : dep[d] = "failed" => task[d[2]] \in TERMINAL_TASK_STATUSES
CompletedHasResult == \A t \in Tasks : task[t] = "completed" => Produced(t)

(* What a step does to them. *)
Settles ==
    /\ \A d \in Deps : dep'[d] = "failed" => dep[d] = "failed" \/ task'[d[2]] \in TERMINAL_TASK_STATUSES
    /\ \A u \in Tasks : task[u] \in TERMINAL_TASK_STATUSES =>
          task'[u] \in TERMINAL_TASK_STATUSES \/ Satisfied(dep, u)
    /\ \A u \in Tasks : task'[u] = "completed" => task[u] = "completed" \/ Produced(u)'
    /\ \A u \in Tasks : Produced(u) => Produced(u)'

LEMMA SettlesEnough ==
    ASSUME RowsBlock, CompletedHasResult, Settles
    PROVE  RowsBlock' /\ CompletedHasResult'
<1>1. ASSUME NEW d \in Deps, dep'[d] = "failed" PROVE task'[d[2]] \in TERMINAL_TASK_STATUSES
  <2>1. d[2] \in Tasks
    BY DepsAssumption
  <2>2. CASE dep[d] = "failed"
    <3>1. ~Satisfied(dep, d[2])
      BY <2>2 DEF Satisfied, HardDeps
    <3> QED BY <2>1, <2>2, <3>1 DEF RowsBlock, Settles
  <2> QED BY <1>1, <2>2 DEF Settles
<1>2. CompletedHasResult'
  BY DEF CompletedHasResult, Settles
<1> QED BY <1>1, <1>2 DEF RowsBlock

(* mark_unsatisfiable blocks those whose row it fails. *)
LEMMA EndSettles ==
    ASSUME TypeOK, NEW t \in Tasks, NEW s \in {"failed", "blocked", "escalated"}, EndUnsatisfiably(t, s),
           versions' = versions
    PROVE  Settles
<1>1. \A d \in Deps : dep'[d] = IF d[1] = t /\ dep[d] # "satisfied" THEN "failed" ELSE dep[d]
  BY DEF EndUnsatisfiably, DepsAfterFailure
<1>2. \A u \in Tasks : task'[u] = IF u = t THEN s
                                  ELSE IF u \in BlockedBy(t) THEN "blocked" ELSE task[u]
  BY DEF EndUnsatisfiably, TasksAfterFailure
<1>3. s \in TERMINAL_TASK_STATUSES /\ "blocked" \in TERMINAL_TASK_STATUSES /\ s # "completed"
  BY DEF TERMINAL_TASK_STATUSES
<1>4. \A u \in Tasks : task[u] \in TERMINAL_TASK_STATUSES => task'[u] \in TERMINAL_TASK_STATUSES
  BY <1>2, <1>3
<1>5. ASSUME NEW d \in Deps, dep'[d] = "failed", dep[d] # "failed"
      PROVE  task'[d[2]] \in TERMINAL_TASK_STATUSES
  <2>1. d[1] = t /\ dep[d] # "satisfied"
    BY <1>1, <1>5
  <2>2. d = <<t, d[2]>> /\ d[2] \in Tasks
    BY <2>1, DepsAssumption
  <2>3. task[d[2]] \notin TERMINAL_TASK_STATUSES => d[2] \in BlockedBy(t)
    BY <2>1, <2>2 DEF BlockedBy
  <2> QED BY <1>2, <1>3, <1>4, <2>2, <2>3
<1>6. \A u \in Tasks : task'[u] = "completed" => task[u] = "completed"
  BY <1>2, <1>3
<1> QED BY <1>4, <1>5, <1>6 DEF Settles, Produced

LEMMA StepSettles ==
    ASSUME IInv, [Next]_vars
    PROVE  Settles
<1> DEFINE Still == UNCHANGED <<task, dep, versions>>
<1>0. TypeOK /\ WorkedOnIsSatisfied
  BY DEF IInv
<1>1. Still => Settles
  BY DEF Settles, Produced
<1> HIDE DEF Still
<1>a. ASSUME NEW t \in Tasks, NEW s \in TaskStatus, s # "completed",
             task' = [task EXCEPT ![t] = s], dep' = dep, versions' = versions,
             task[t] \notin TERMINAL_TASK_STATUSES \/ Satisfied(dep, t)
      PROVE  Settles
  <2>1. \A u \in Tasks : task'[u] = IF u = t THEN s ELSE task[u]
    BY <1>a, <1>0 DEF TypeOK
  <2> QED BY <1>a, <2>1 DEF Settles, Produced
<1>b. ASSUME NEW p \in Procs, NEW t \in Tasks, ThreadEnds(p, t)
      PROVE  Satisfied(dep, t)
  BY <1>b, <1>0 DEF ThreadEnds, Live, WorkedOnIsSatisfied
(* No terminal status is left, and nothing is completed. *)
<1>c. ASSUME dep' = dep, versions' = versions,
             \A u \in Tasks : task'[u] = "completed" => task[u] = "completed",
             \A u \in Tasks : task[u] \in TERMINAL_TASK_STATUSES => task'[u] \in TERMINAL_TASK_STATUSES
      PROVE  Settles
  BY <1>c DEF Settles, Produced
<1>2. ASSUME NEW p \in Procs, LoopStep(p) \/ LoopError(p) \/ ReplanEnds(p) \/ Crash(p), ~ Poll(p)
      PROVE  Still
  BY <1>2 DEF LoopStep, LoopStart, BatchDone, FinalizeRead, FinalizeCommit,
              ResumeReapedRun, Replan, ReplanEnds, LoopError, Crash, db, Still
<1>3. ASSUME NEW p \in Procs, Poll(p) PROVE Settles
  <2>1. UNCHANGED <<dep, versions>> /\ \A u \in Tasks : task'[u] \in {"ready", "waiting_for_dependency"} \/ task'[u] = task[u]
    BY <1>3 DEF Poll, AfterReadyTasks
  <2>2. \A u \in Tasks : task[u] \in TERMINAL_TASK_STATUSES => task'[u] = task[u]
    BY <1>3 DEF Poll, AfterReadyTasks, ReadyTasks, READY_CANDIDATES, TERMINAL_TASK_STATUSES
  <2> QED BY <1>c, <2>1, <2>2
<1>5. ASSUME NEW p \in Procs, Start(p) PROVE Settles
  <2>1. UNCHANGED <<dep, versions>>
    BY <1>5 DEF Start
  <2>2. \A u \in Tasks : task'[u] = task[u] \/ (task[u] = "running" /\ task'[u] \in {"ready", "failed"})
    BY <1>5 DEF Start, AfterReap
  <2>3. \A u \in Tasks : task[u] \in TERMINAL_TASK_STATUSES => task'[u] = task[u]
    BY <2>2 DEF TERMINAL_TASK_STATUSES
  <2> QED BY <1>c, <2>1, <2>2, <2>3
<1>6. ASSUME NEW p \in Procs, NEW t \in Tasks, Execute(p, t) PROVE Settles
  <2>1. CASE task[t] = "ready"
    <3>1. UNCHANGED <<dep, versions>> /\ task' = [task EXCEPT ![t] = "running"]
      BY <1>6, <2>1 DEF Execute
    <3>2. "running" \in TaskStatus /\ task[t] \notin TERMINAL_TASK_STATUSES
      BY <2>1 DEF TaskStatus, TERMINAL_TASK_STATUSES
    <3> QED BY <3>1, <3>2, <1>a
  <2>2. CASE task[t] # "ready"
    BY <1>6, <2>2, <1>1 DEF Execute, Still
  <2> QED BY <2>1, <2>2
<1>7. ASSUME NEW p \in Procs, NEW t \in Tasks, Timeout(p, t) PROVE Settles
  <2>1. versions' = versions
    BY <1>7 DEF Timeout
  <2>2. CASE EndUnsatisfiably(t, "failed")
    BY <1>0, <2>1, <2>2, EndSettles
  <2>3. CASE UNCHANGED <<task, dep>>
    BY <2>1, <2>3, <1>1 DEF Still
  <2> QED BY <1>7, <2>2, <2>3 DEF Timeout
<1>8. ASSUME NEW p \in Procs, NEW t \in Tasks, DispatchOk(p, t) PROVE Settles
  <2>1. CASE task[t] = "running"
    <3>1. /\ dep' = DepsAfterCompletion(t) /\ task' = TasksAfterCompletion(t)
          /\ versions' = [versions EXCEPT ![t] = @ + 1]
      BY <1>8, <2>1 DEF DispatchOk
    <3>2. \A d \in Deps : dep'[d] = "failed" => dep[d] = "failed"
      BY <3>1 DEF DepsAfterCompletion
    <3>3. \A u \in Tasks : u # t /\ task'[u] = "completed" => task[u] = "completed"
      BY <3>1 DEF TasksAfterCompletion
    <3>4. \A u \in Tasks : task[u] \in TERMINAL_TASK_STATUSES => task'[u] \in TERMINAL_TASK_STATUSES
      BY <3>1 DEF TasksAfterCompletion, Woken, TERMINAL_TASK_STATUSES
    <3>5. Produced(t)' /\ \A u \in Tasks : Produced(u) => Produced(u)'
      BY <3>1, <1>0 DEF Produced, TypeOK
    <3> QED BY <3>2, <3>3, <3>4, <3>5 DEF Settles
  <2>2. CASE task[t] # "running"
    BY <1>8, <2>2, <1>1 DEF DispatchOk, Still
  <2> QED BY <2>1, <2>2
<1>9. ASSUME NEW p \in Procs, NEW t \in Tasks, DispatchError(p, t) PROVE Settles
  <2>1. versions' = versions
    BY <1>9 DEF DispatchError
  <2>2. CASE EndUnsatisfiably(t, "failed")
    BY <1>0, <2>1, <2>2, EndSettles
  <2>3. CASE dep' = dep /\ task' = [task EXCEPT ![t] = "retrying"]
    <3>1. Satisfied(dep, t) /\ "retrying" \in TaskStatus
      BY <1>9, <1>b DEF DispatchError, TaskStatus
    <3> QED BY <2>1, <2>3, <3>1, <1>a
  <2> QED BY <1>9, <2>2, <2>3 DEF DispatchError
<1>10. ASSUME NEW p \in Procs, NEW t \in Tasks, DispatchStale(p, t) PROVE Settles
  BY <1>10, <1>0, EndSettles DEF DispatchStale
<1>11. ASSUME NEW p \in Procs, NEW t \in Tasks, DispatchUnavailable(p, t) PROVE Settles
  <2>1. versions' = versions
    BY <1>11 DEF DispatchUnavailable
  <2>2. CASE EndUnsatisfiably(t, "escalated")
    BY <1>0, <2>1, <2>2, EndSettles
  <2>3. CASE dep' = dep /\ task' = [task EXCEPT ![t] = "ready"]
    <3>1. Satisfied(dep, t) /\ "ready" \in TaskStatus
      BY <1>11, <1>b DEF DispatchUnavailable, TaskStatus
    <3> QED BY <2>1, <2>3, <3>1, <1>a
  <2> QED BY <1>11, <2>2, <2>3 DEF DispatchUnavailable
<1>12. ASSUME NEW p \in Procs, NEW t \in Tasks, OpenApproval(p, t) PROVE Still
  BY <1>12 DEF OpenApproval, db, Still
<1>13. ASSUME NEW a \in Agents, ToggleAgent(a) PROVE Still
  BY <1>13 DEF ToggleAgent, db, Still
<1>14. CASE Decide \/ CheckStalledRuns \/ UNCHANGED vars
  BY <1>14, <1>1 DEF Decide, CheckStalledRuns, vars, db, Still
<1>15. CASE CancelRun
  <2>1. /\ UNCHANGED <<dep, versions>>
        /\ \A u \in Tasks : task'[u] = IF task[u] \in {"completed", "failed", "cancelled"} THEN task[u] ELSE "cancelled"
    BY <1>15 DEF CancelRun
  <2>2. \A u \in Tasks : task[u] \in TERMINAL_TASK_STATUSES => task'[u] \in TERMINAL_TASK_STATUSES
    BY <2>1 DEF TERMINAL_TASK_STATUSES
  <2> QED BY <1>c, <2>1, <2>2
<1> QED
  BY <1>1, <1>2, <1>3, <1>5, <1>6, <1>7, <1>8, <1>9, <1>10, <1>11,
     <1>12, <1>13, <1>14, <1>15 DEF Next, TaskStep, LoopStep

(* For every acyclic plan and any number of processes, restarts, orphans, reassignments and
   cancellations nobody waits for nothing: when no task is ready and some are left, one is
   running or one waits for a prerequisite that ended without a result.  Of the tasks
   that are left, take one that waits for none of them: each of its prerequisites is over, and one that
   completed has satisfied its row (ready_tasks, evaluate_on_completion, mark_unsatisfiable). *)
THEOREM WaitsAreJustified == Spec => []WaitingHasCause
<1>1. Init => RowsBlock /\ CompletedHasResult
  BY DepsAssumption DEF Init, RowsBlock, CompletedHasResult
<1>2. IInv /\ RowsBlock /\ CompletedHasResult /\ [Next]_vars => RowsBlock' /\ CompletedHasResult'
  BY StepSettles, SettlesEnough
<1>3. IInv /\ RowsBlock /\ CompletedHasResult => WaitingHasCause
  <2> SUFFICES ASSUME IInv, RowsBlock, CompletedHasResult, Acyclic, ReadyTasks = {},
                      NEW u \in Tasks, task[u] \in NONTERMINAL, \A t \in Tasks : task[t] # "running"
               PROVE  \E d \in Deps : /\ task[d[2]] \in NONTERMINAL
                                      /\ task[d[1]] \in TERMINAL_TASK_STATUSES \ {"completed"}
    BY DEF WaitingHasCause
  <2> DEFINE rest == {t \in Tasks : task[t] \in NONTERMINAL}
  <2>1. rest \in (SUBSET Tasks) \ {{}}
    OBVIOUS
  <2>2. PICK t \in rest : \A d \in HardDeps(t) : d[1] \notin rest
    BY <2>1 DEF Acyclic
  <2>3. task[t] \in READY_CANDIDATES /\ ~Satisfied(dep, t)
    BY <2>2 DEF NONTERMINAL, TaskStatus, TERMINAL_TASK_STATUSES, READY_CANDIDATES, ReadyTasks
  <2>4. PICK d \in HardDeps(t) : dep[d] # "satisfied"
    BY <2>3 DEF Satisfied
  <2>5. d \in Deps /\ d[2] = t /\ d[1] \in Tasks /\ d[1] \notin rest
    BY <2>2, <2>4, DepsAssumption DEF HardDeps
  <2>6. task[d[1]] \in TERMINAL_TASK_STATUSES
    BY <2>5 DEF NONTERMINAL, IInv, TypeOK
  <2>7. dep[d] = "unsatisfied"
    BY <2>2, <2>4, <2>5 DEF RowsBlock, NONTERMINAL, IInv, TypeOK, DependencyState
  <2>8. task[d[1]] # "completed"
    BY <2>5, <2>7 DEF CompletedHasResult, IInv, RowsMatchArtefacts
  <2> QED BY <2>2, <2>5, <2>6, <2>8
<1> QED BY <1>1, <1>2, <1>3, Invariant, PTL DEF Spec

=============================================================================
