-------------------------- MODULE RunAdmissionProofs --------------------------
(***************************************************************************)
(* Proofs about RunAdmission: type correctness for any set of processes,   *)
(* and, for one process with any number of runs, restarts, requests and    *)
(* cancellations, that runs are driven only with a plan, that planning     *)
(* runs are never left behind, that the queue is served in order and by    *)
(* how much concurrent requests exceed the cap.  Then about PlanCheck,     *)
(* which says what the plan of a run may be: that the planner's verdict is *)
(* right for every plan a model may come up with.                          *)
(***************************************************************************)
EXTENDS RunAdmission, PlanCheck, Integers, FiniteSetTheorems, SequenceTheorems,
        WellFoundedInduction, TLAPS

(* What promote_queued is about to write is a run it has selected.         *)
PickedIsRun == \A p \in Procs : promoting[p] = "write" => picked[p] \in Runs

TypeInv == TypeOK /\ PickedIsRun

-----------------------------------------------------------------------------
(* A status write changes the row of its run only, and keeps the types.    *)
LEMMA WriteEffect ==
    ASSUME TypeOK, NEW r \in Runs, NEW s \in RunStatus, Write(r, s)
    PROVE  /\ status' \in [Runs -> RunStatus] /\ revived' \subseteq Runs
           /\ status'[r] = s
           /\ \A q \in Runs \ {r} : status'[q] = status[q]
BY DEF Write, TypeOK

LEMMA LeaveEffect ==
    ASSUME TypeOK, Leave
    PROVE  /\ status' \in [Runs -> RunStatus] /\ revived' \subseteq Runs
           /\ status' = status
BY DEF Leave, TypeOK

(* A thread that moves on leaves every other thread where it is.           *)
LEMMA GotoEffect ==
    ASSUME TypeOK, NEW p \in Procs, NEW r \in Runs, NEW l \in ThreadState, Goto(p, r, l)
    PROVE  /\ thread' \in [Procs -> [Runs -> ThreadState]]
           /\ thread'[p][r] = l
           /\ \A o \in Procs, q \in Runs : o # p \/ q # r => thread'[o][q] = thread[o][q]
<1>1. thread \in [Procs -> [Runs -> ThreadState]]
  BY DEF TypeOK
<1>2. thread' = [thread EXCEPT ![p][r] = l]
  BY DEF Goto
<1> QED BY <1>1, <1>2

LEMMA StatusValues ==
    \A s \in {"queued", "planning", "running", "waiting", "stalled", "completed",
              "failed", "cannot_plan", "cancelled"} : s \in RunStatus
BY DEF RunStatus

LEMMA ThreadValues ==
    \A l \in {"off", "resume", "plan", "model", "planned", "loop", "drive",
              "reloop", "redrive"} : l \in ThreadState
BY DEF ThreadState

(* The outcome of a step on the row and the thread of one run, for every   *)
(* action: what the remaining proofs know of the actions.                  *)
LEMMA CreateCommitEffect ==
    ASSUME TypeOK, NEW r \in Runs, CreateCommit(r)
    PROVE  /\ request[r] = "full" => Write(r, "queued") /\ thread' = thread
           /\ request[r] = "free" => Write(r, "planning") /\ Goto(server[r], r, "plan")
           /\ request[r] \in {"free", "full"}
           /\ request' = [request EXCEPT ![r] = "over"]
BY DEF CreateCommit

LEMMA PlanRaisesEffect ==
    ASSUME TypeOK, NEW p \in Procs, NEW r \in Runs, PlanRaises(p, r)
    PROVE  Write(r, "failed") \/ (Leave /\ status[r] \in {"cannot_plan", "failed"})
BY DEF PlanRaises

LEMMA TypeInvariant == Spec => []TypeInv
<1> USE RunsAssumption, ProcsAssumption, LimitsAssumption
<1>1. Init => TypeInv
  <2> SUFFICES ASSUME Init PROVE TypeInv
    OBVIOUS
  <2>1. status \in [Runs -> RunStatus]
    BY DEF Init, RunStatus
  <2>2. thread \in [Procs -> [Runs -> ThreadState]]
    BY DEF Init, ThreadState
  <2>3. attempt \in [Procs -> [Runs -> 0..MaxAttempts]]
    BY DEF Init
  <2> QED BY <2>1, <2>2, <2>3 DEF Init, TypeInv, TypeOK, PickedIsRun
<1>2. TypeInv /\ [Next]_vars => TypeInv'
  <2> SUFFICES ASSUME TypeInv, [Next]_vars PROVE TypeInv'
    OBVIOUS
  <2>t. TypeOK
    BY DEF TypeInv
  <2>s. ASSUME NEW r \in Runs,
               NEW s \in {"queued", "planning", "running", "waiting", "stalled",
                          "completed", "failed", "cannot_plan", "cancelled"},
               Write(r, s)
        PROVE  status' \in [Runs -> RunStatus] /\ revived' \subseteq Runs
    BY <2>s, <2>t, StatusValues, WriteEffect
  <2>l. ASSUME Leave PROVE status' \in [Runs -> RunStatus] /\ revived' \subseteq Runs
    BY <2>l, <2>t, LeaveEffect
  <2>g. ASSUME NEW p \in Procs, NEW r \in Runs, NEW l, Goto(p, r, l),
               l \in {"off", "resume", "plan", "model", "planned", "loop", "drive",
                      "reloop", "redrive"}
        PROVE  thread' \in [Procs -> [Runs -> ThreadState]]
    BY <2>g, <2>t, ThreadValues, GotoEffect
  <2>a. ASSUME NEW p \in Procs, NEW r \in Runs, NEW n \in 0..MaxAttempts,
               attempt' = [attempt EXCEPT ![p][r] = n]
        PROVE  attempt' \in [Procs -> [Runs -> 0..MaxAttempts]]
    BY <2>a, <2>t DEF TypeOK
  <2>n. 0 \in 0..MaxAttempts /\ 1 \in 0..MaxAttempts
    OBVIOUS
  <2> USE DEF TypeInv, TypeOK, PickedIsRun, requests, threads, promotion, procs
  <2>1. ASSUME NEW p \in Procs, NEW r \in Runs, CreateCount(p, r) PROVE TypeInv'
    <3>1. status' \in [Runs -> RunStatus] /\ revived' \subseteq Runs
      BY <2>1, <2>l DEF CreateCount
    <3>2. \/ request' = [request EXCEPT ![r] = "free"]
          \/ request' = [request EXCEPT ![r] = "full"]
      BY <2>1 DEF CreateCount
    <3>3. request' \in [Runs -> {"none", "free", "full", "over"}]
      BY <3>2
    <3>4. clock' \in Nat /\ created_at' \in [Runs -> Nat] /\ server' \in [Runs -> Procs]
      BY <2>1 DEF CreateCount
    <3>5. UNCHANGED <<plans, thread, attempt, promoting, picked, up, starts>>
      BY <2>1 DEF CreateCount
    <3> QED BY <3>1, <3>3, <3>4, <3>5
  <2>2. ASSUME NEW r \in Runs, CreateCommit(r) PROVE TypeInv'
    <3>1. status' \in [Runs -> RunStatus] /\ revived' \subseteq Runs
      BY <2>2, <2>s, CreateCommitEffect
    <3>2. thread' \in [Procs -> [Runs -> ThreadState]]
      BY <2>2, <2>g, CreateCommitEffect
    <3>3. request' \in [Runs -> {"none", "free", "full", "over"}]
      BY <2>2 DEF CreateCommit
    <3> QED BY <2>2, <3>1, <3>2, <3>3 DEF CreateCommit
  <2>3. ASSUME NEW p \in Procs, NEW r \in Runs, PlanStart(p, r) PROVE TypeInv'
    <3>1. thread' \in [Procs -> [Runs -> ThreadState]]
      BY <2>3, <2>g DEF PlanStart
    <3>2. attempt' \in [Procs -> [Runs -> 0..MaxAttempts]]
      BY <2>3, <2>a, <2>n DEF PlanStart
    <3> QED BY <2>3, <2>l, <3>1, <3>2 DEF PlanStart
  <2>4. ASSUME NEW p \in Procs, NEW r \in Runs, PlanRejected(p, r) PROVE TypeInv'
    <3>1. attempt[p][r] + 1 \in 0..MaxAttempts
      BY <2>4 DEF PlanRejected
    <3>2. attempt' = [attempt EXCEPT ![p][r] = attempt[p][r] + 1]
      BY <2>4 DEF PlanRejected
    <3>3. attempt' \in [Procs -> [Runs -> 0..MaxAttempts]]
      BY <2>a, <3>1, <3>2
    <3> QED BY <2>4, <2>l, <3>3 DEF PlanRejected
  <2>5. ASSUME NEW p \in Procs, NEW r \in Runs, RecordCannotPlan(p, r) PROVE TypeInv'
    <3>1. status' \in [Runs -> RunStatus] /\ revived' \subseteq Runs
      BY <2>5, <2>s DEF RecordCannotPlan
    <3>2. thread' \in [Procs -> [Runs -> ThreadState]]
      BY <2>5, <2>g DEF RecordCannotPlan
    <3>3. attempt' \in [Procs -> [Runs -> 0..MaxAttempts]]
      BY <2>5, <2>a, <2>n DEF RecordCannotPlan
    <3> QED BY <2>5, <3>1, <3>2, <3>3 DEF RecordCannotPlan
  <2>6. ASSUME NEW p \in Procs, NEW r \in Runs, Persist(p, r) PROVE TypeInv'
    <3>1. thread' \in [Procs -> [Runs -> ThreadState]]
      BY <2>6, <2>g DEF Persist
    <3>2. attempt' \in [Procs -> [Runs -> 0..MaxAttempts]]
      BY <2>6, <2>a, <2>n DEF Persist
    <3> QED BY <2>6, <2>l, <3>1, <3>2 DEF Persist
  <2>7. ASSUME NEW p \in Procs, NEW r \in Runs, PlanRaises(p, r) PROVE TypeInv'
    <3>1. status' \in [Runs -> RunStatus] /\ revived' \subseteq Runs
      BY <2>7, <2>s, <2>l, PlanRaisesEffect
    <3>2. thread' \in [Procs -> [Runs -> ThreadState]]
      BY <2>7, <2>g DEF PlanRaises
    <3>3. attempt' \in [Procs -> [Runs -> 0..MaxAttempts]]
      BY <2>7, <2>a, <2>n DEF PlanRaises
    <3> QED BY <2>7, <3>1, <3>2, <3>3 DEF PlanRaises
  <2>8. ASSUME NEW p \in Procs, NEW r \in Runs, PlanRefresh(p, r) PROVE TypeInv'
    <3>1. thread' \in [Procs -> [Runs -> ThreadState]]
      BY <2>8, <2>g DEF PlanRefresh
    <3> QED BY <2>8, <2>l, <3>1 DEF PlanRefresh
  <2>9. ASSUME NEW p \in Procs, NEW r \in Runs, LoopStart(p, r) PROVE TypeInv'
    <3>1. status' \in [Runs -> RunStatus] /\ revived' \subseteq Runs
      BY <2>9, <2>s DEF LoopStart
    <3>2. thread' \in [Procs -> [Runs -> ThreadState]]
      BY <2>9, <2>g DEF LoopStart
    <3> QED BY <2>9, <3>1, <3>2 DEF LoopStart
  <2>10. ASSUME NEW p \in Procs, NEW r \in Runs, LoopEnd(p, r) PROVE TypeInv'
    <3>1. status' \in [Runs -> RunStatus] /\ revived' \subseteq Runs
      BY <2>10, <2>s, <2>l DEF LoopEnd
    <3>2. thread' \in [Procs -> [Runs -> ThreadState]]
      BY <2>10, <2>g DEF LoopEnd
    <3> QED BY <2>10, <3>1, <3>2 DEF LoopEnd
  <2>11. ASSUME NEW p \in Procs, NEW r \in Runs, ResumeReapedRun(p, r) PROVE TypeInv'
    <3>1. thread' \in [Procs -> [Runs -> ThreadState]]
      BY <2>11, <2>g DEF ResumeReapedRun
    <3> QED BY <2>11, <2>l, <3>1 DEF ResumeReapedRun
  <2>12. ASSUME NEW r \in Runs,
                SettleRunAfterApproval(r) \/ CheckStalledRuns(r) \/ CancelRun(r)
         PROVE  TypeInv'
    <3>1. status' \in [Runs -> RunStatus] /\ revived' \subseteq Runs
      BY <2>12, <2>s DEF SettleRunAfterApproval, CheckStalledRuns, CancelRun
    <3> QED BY <2>12, <3>1 DEF SettleRunAfterApproval, CheckStalledRuns, CancelRun
  <2>13. ASSUME NEW p \in Procs, PromoteCount(p) PROVE TypeInv'
    <3>1. CASE promoting' = [promoting EXCEPT ![p] = "off"] /\ UNCHANGED picked
      BY <2>13, <2>l, <3>1 DEF PromoteCount
    <3>2. CASE /\ promoting' = [promoting EXCEPT ![p] = "write"]
               /\ \E r \in Runs : picked' = [picked EXCEPT ![p] = r]
      BY <2>13, <2>l, <3>2 DEF PromoteCount
    <3> QED BY <2>13, <3>1, <3>2 DEF PromoteCount
  <2>14. ASSUME NEW p \in Procs, PromoteWrite(p) PROVE TypeInv'
    <3>1. picked[p] \in Runs
      BY <2>14 DEF PromoteWrite
    <3>2. status' \in [Runs -> RunStatus] /\ revived' \subseteq Runs
      BY <2>14, <3>1, <2>s DEF PromoteWrite
    <3>3. thread' \in [Procs -> [Runs -> ThreadState]]
      BY <2>14, <3>1, <2>g DEF PromoteWrite
    <3> QED BY <2>14, <3>1, <3>2, <3>3 DEF PromoteWrite
  <2>15. ASSUME NEW p \in Procs, Crash(p) PROVE TypeInv'
    <3>1. thread' \in [Procs -> [Runs -> ThreadState]]
      BY <2>15, ThreadValues DEF Crash
    <3>2. attempt' \in [Procs -> [Runs -> 0..MaxAttempts]]
      BY <2>15, <2>n DEF Crash
    <3>3. request' \in [Runs -> {"none", "free", "full", "over"}]
      BY <2>15 DEF Crash
    <3> QED BY <2>15, <2>l, <3>1, <3>2, <3>3 DEF Crash
  <2>16. ASSUME NEW p \in Procs, Start(p) PROVE TypeInv'
    <3>1. thread' \in [Procs -> [Runs -> ThreadState]]
      BY <2>16, ThreadValues DEF Start
    <3> QED BY <2>16, <2>l, <3>1 DEF Start
  <2>17. CASE UNCHANGED vars
    BY <2>17 DEF vars
  <2> QED
    BY <2>1, <2>2, <2>3, <2>4, <2>5, <2>6, <2>7, <2>8, <2>9, <2>10, <2>11,
       <2>12, <2>13, <2>14, <2>15, <2>16, <2>17 DEF Next, ThreadStep
<1> QED BY <1>1, <1>2, PTL DEF Spec

(* TypeOK is an invariant for any set of processes: statuses stay in the   *)
(* enum of enums.py, planning attempts within _MAX_PLAN_ATTEMPTS, and the  *)
(* start-up hook selects nothing but runs.                                 *)
THEOREM AdmissionTypeCorrect == Spec => []TypeOK
<1>1. TypeInv => TypeOK
  BY DEF TypeInv
<1> QED BY <1>1, TypeInvariant, PTL

-----------------------------------------------------------------------------
(***************************************************************************)
(* One process. What IInv says of one run, so that a step that touches the *)
(* row and the thread of one run need only be looked at for that run.      *)
(***************************************************************************)
RunOK(r) ==
    /\ request[r] # "over" => /\ status[r] = "absent" /\ thread[Primary][r] = "off"
                              /\ picked[Primary] # r
    /\ thread[Primary][r] \in {"loop", "drive", "reloop", "redrive"} => r \in plans
    /\ thread[Primary][r] = "planned" /\ status[r] = "planning" => r \in plans
    /\ thread[Primary][r] \in {"drive", "redrive"} => status[r] # "planning"
    /\ status[r] \in {"running", "waiting", "stalled", "completed"} => r \in plans
    /\ status[r] = "planning" /\ Primary \in up => thread[Primary][r] # "off"

LEMMA RunByRun ==
    ASSUME Procs = {Primary}
    PROVE  TypeOK => (IInv <=> PromotionIsAlone /\ \A r \in Runs : RunOK(r))
<1> SUFFICES ASSUME TypeOK PROVE IInv <=> PromotionIsAlone /\ \A r \in Runs : RunOK(r)
  OBVIOUS
<1>1. up = {} \/ up = {Primary}
  BY DEF TypeOK
<1>2. ASSUME NEW r \in Runs
      PROVE request[r] # "over" <=> request[r] \in {"none", "free", "full"}
  BY DEF TypeOK
<1>3. RequestComesFirst <=>
        \A r \in Runs : request[r] # "over" =>
            /\ status[r] = "absent" /\ thread[Primary][r] = "off" /\ picked[Primary] # r
  BY <1>2 DEF RequestComesFirst
<1>4. PlanningIsDriven <=>
        \A r \in Runs : status[r] = "planning" /\ Primary \in up => thread[Primary][r] # "off"
  BY <1>1 DEF PlanningIsDriven
<1>5. IInv <=> PromotionIsAlone /\ RequestComesFirst /\ ThreadHasPlan /\ PlanBeforeRun /\ PlanningIsDriven
  BY DEF IInv
<1> QED BY <1>3, <1>4, <1>5 DEF RunOK, ThreadHasPlan, PlanBeforeRun

LEMMA RunByRunNext ==
    ASSUME Procs = {Primary}
    PROVE  (TypeOK => (IInv <=> PromotionIsAlone /\ \A r \in Runs : RunOK(r)))'
<1>1. TypeOK => (IInv <=> PromotionIsAlone /\ \A r \in Runs : RunOK(r))
  BY RunByRun
<1> QED BY <1>1, PTL

(* A step on one run that leaves requests, the hook and the process alone. *)
LEMMA OneRunStep ==
    ASSUME Procs = {Primary}, TypeOK, TypeOK', IInv, NEW r \in Runs,
           UNCHANGED <<created_at, request, promoting, picked, up>>,
           plans \subseteq plans',
           status'[r] = "queued" => status[r] = "queued",
           \A q \in Runs \ {r} : /\ status'[q] = status[q]
                                 /\ thread'[Primary][q] = thread[Primary][q],
           RunOK(r)'
    PROVE  IInv'
<1>1. PromotionIsAlone /\ \A q \in Runs : RunOK(q)
  BY RunByRun
<1>2. \A q \in Runs : RunOK(q)'
  <2>1. ASSUME NEW q \in Runs \ {r} PROVE RunOK(q)'
    BY <1>1 DEF RunOK
  <2> QED BY <2>1
<1>3. PromotionIsAlone'
  <2>1. \A q \in Runs : status'[q] = "queued" => status[q] = "queued"
    OBVIOUS
  <2> QED BY <1>1, <2>1 DEF PromotionIsAlone, Serving, Queued
<1>4. (TypeOK => (IInv <=> PromotionIsAlone /\ \A q \in Runs : RunOK(q)))'
  BY RunByRunNext
<1> QED BY <1>2, <1>3, <1>4

LEMMA OneProcessStep ==
    ASSUME Procs = {Primary}
    PROVE  TypeInv /\ TypeInv' /\ IInv /\ [Next]_vars => IInv'
<1> SUFFICES ASSUME TypeInv, TypeInv', IInv, [Next]_vars PROVE IInv'
  OBVIOUS
<1>t. TypeOK /\ TypeOK'
  BY DEF TypeInv
<1>r. PromotionIsAlone /\ \A r \in Runs : RunOK(r)
  BY <1>t, RunByRun
<1>n. PromotionIsAlone' /\ (\A r \in Runs : RunOK(r)') => IInv'
  BY <1>t, RunByRunNext
<1>w. ASSUME NEW r \in Runs,
             NEW s \in {"queued", "planning", "running", "waiting", "stalled",
                        "completed", "failed", "cannot_plan", "cancelled"},
             Write(r, s)
      PROVE  status'[r] = s /\ \A q \in Runs \ {r} : status'[q] = status[q]
  BY <1>w, <1>t, StatusValues, WriteEffect
<1>l. Leave => status' = status
  BY DEF Leave
<1>g. ASSUME NEW r \in Runs, NEW l, Goto(Primary, r, l),
             l \in {"off", "resume", "plan", "model", "planned", "loop", "drive",
                    "reloop", "redrive"}
      PROVE  /\ thread'[Primary][r] = l
             /\ \A q \in Runs \ {r} : thread'[Primary][q] = thread[Primary][q]
  BY <1>g, <1>t, ThreadValues, GotoEffect
<1> USE DEF requests, threads, promotion, procs
<1>1. ASSUME NEW r \in Runs, CreateCount(Primary, r) PROVE IInv'
  <2>1. /\ status' = status /\ request' \in [Runs -> {"none", "free", "full", "over"}]
        /\ UNCHANGED <<plans, thread, promoting, picked, up>>
    BY <1>1, <1>l, <1>t DEF CreateCount, TypeOK
  <2>2. \A q \in Runs : request'[q] # "over" => request[q] # "over"
    BY <1>1, <1>t DEF CreateCount, TypeOK
  <2>3. \A q \in Runs : RunOK(q)'
    BY <1>r, <2>1, <2>2 DEF RunOK
  <2>4. promoting[Primary] = "off" /\ Primary \in up
    BY <1>1 DEF CreateCount, Serving
  <2>5. PromotionIsAlone'
    BY <2>1, <2>4 DEF PromotionIsAlone, Serving
  <2> QED BY <1>n, <2>3, <2>5
<1>2. ASSUME NEW r \in Runs, CreateCommit(r) PROVE IInv'
  <2>1. /\ request[r] \in {"free", "full"} /\ request' = [request EXCEPT ![r] = "over"]
        /\ UNCHANGED <<created_at, plans, promoting, picked, up>>
        /\ server[r] = Primary
    BY <1>2, <1>t DEF CreateCommit, TypeOK
  <2>2. \/ /\ status'[r] = "queued" /\ thread' = thread
        \/ /\ status'[r] = "planning" /\ thread'[Primary][r] = "plan"
    BY <1>2, <1>t, <1>w, <1>g, <2>1, CreateCommitEffect
  <2>3. \A q \in Runs \ {r} : /\ status'[q] = status[q]
                              /\ thread'[Primary][q] = thread[Primary][q]
                              /\ request'[q] = request[q]
    BY <1>2, <1>t, <1>w, <1>g, <2>1, CreateCommitEffect DEF TypeOK
  <2>4. thread[Primary][r] = "off" /\ request'[r] = "over"
    BY <1>r, <1>t, <2>1 DEF RunOK, TypeOK
  <2>5. RunOK(r)'
    BY <2>2, <2>4 DEF RunOK
  <2>6. \A q \in Runs \ {r} : RunOK(q)'
    BY <1>r, <2>1, <2>3 DEF RunOK
  <2>7. Serving(Primary)
    BY <1>r, <2>1 DEF PromotionIsAlone
  <2>8. PromotionIsAlone'
    BY <2>1, <2>7 DEF PromotionIsAlone, Serving
  <2> QED BY <1>n, <2>5, <2>6, <2>8
<1>3. ASSUME NEW r \in Runs, PlanStart(Primary, r) PROVE IInv'
  <2>1. /\ thread[Primary][r] = "plan" /\ status' = status
        /\ thread'[Primary][r] = IF status[r] = "planning" THEN "model" ELSE "off"
        /\ \A q \in Runs \ {r} : thread'[Primary][q] = thread[Primary][q]
        /\ UNCHANGED <<created_at, request, plans, promoting, picked, up>>
    BY <1>3, <1>l, <1>g DEF PlanStart
  <2>2. RunOK(r)'
    BY <1>r, <2>1 DEF RunOK
  <2> QED BY <1>t, <2>1, <2>2, OneRunStep
<1>4. ASSUME NEW r \in Runs, PlanRejected(Primary, r) PROVE IInv'
  <2>1. UNCHANGED <<status, thread, created_at, request, plans, promoting, picked, up>>
    BY <1>4, <1>l DEF PlanRejected
  <2>2. RunOK(r)'
    BY <1>r, <2>1 DEF RunOK
  <2> QED BY <1>t, <2>1, <2>2, OneRunStep
<1>5. ASSUME NEW r \in Runs, RecordCannotPlan(Primary, r) PROVE IInv'
  <2>1. /\ thread[Primary][r] = "model"
        /\ status'[r] = "cannot_plan" /\ thread'[Primary][r] = "planned"
        /\ \A q \in Runs \ {r} : /\ status'[q] = status[q]
                                 /\ thread'[Primary][q] = thread[Primary][q]
        /\ UNCHANGED <<created_at, request, plans, promoting, picked, up>>
    BY <1>5, <1>w, <1>g DEF RecordCannotPlan
  <2>2. RunOK(r)'
    BY <1>r, <2>1 DEF RunOK
  <2> QED BY <1>t, <2>1, <2>2, OneRunStep
<1>6. ASSUME NEW r \in Runs, Persist(Primary, r) PROVE IInv'
  <2>1. /\ thread[Primary][r] = "model" /\ status' = status
        /\ plans' = plans \cup {r} /\ thread'[Primary][r] = "planned"
        /\ \A q \in Runs \ {r} : thread'[Primary][q] = thread[Primary][q]
        /\ UNCHANGED <<created_at, request, promoting, picked, up>>
    BY <1>6, <1>l, <1>g DEF Persist
  <2>2. RunOK(r)'
    BY <1>r, <2>1 DEF RunOK
  <2> QED BY <1>t, <2>1, <2>2, OneRunStep
<1>7. ASSUME NEW r \in Runs, PlanRaises(Primary, r) PROVE IInv'
  <2>1. /\ thread[Primary][r] # "off" /\ thread'[Primary][r] = "off"
        /\ \A q \in Runs \ {r} : thread'[Primary][q] = thread[Primary][q]
        /\ UNCHANGED <<created_at, request, plans, promoting, picked, up>>
    BY <1>7, <1>g DEF PlanRaises, InPlanRun
  <2>2. /\ status'[r] \in {"cannot_plan", "failed"}
        /\ \A q \in Runs \ {r} : status'[q] = status[q]
    BY <1>7, <1>t, <1>w, <1>l, PlanRaisesEffect
  <2>3. RunOK(r)'
    BY <1>r, <2>1, <2>2 DEF RunOK
  <2> QED BY <1>t, <2>1, <2>2, <2>3, OneRunStep
<1>8. ASSUME NEW r \in Runs, PlanRefresh(Primary, r) PROVE IInv'
  <2>1. /\ thread[Primary][r] = "planned" /\ status' = status
        /\ thread'[Primary][r] = IF status[r] = "planning" THEN "loop" ELSE "off"
        /\ \A q \in Runs \ {r} : thread'[Primary][q] = thread[Primary][q]
        /\ UNCHANGED <<created_at, request, plans, promoting, picked, up>>
    BY <1>8, <1>l, <1>g DEF PlanRefresh
  <2>2. RunOK(r)'
    BY <1>r, <2>1 DEF RunOK
  <2> QED BY <1>t, <2>1, <2>2, OneRunStep
<1>9. ASSUME NEW r \in Runs, LoopStart(Primary, r) PROVE IInv'
  <2>1. /\ thread[Primary][r] \in {"loop", "reloop"}
        /\ status'[r] = "running" /\ thread'[Primary][r] \in {"drive", "redrive"}
        /\ \A q \in Runs \ {r} : /\ status'[q] = status[q]
                                 /\ thread'[Primary][q] = thread[Primary][q]
        /\ UNCHANGED <<created_at, request, plans, promoting, picked, up>>
    BY <1>9, <1>w, <1>g DEF LoopStart
  <2>2. RunOK(r)'
    BY <1>r, <2>1 DEF RunOK
  <2> QED BY <1>t, <2>1, <2>2, OneRunStep
<1>10. ASSUME NEW r \in Runs, LoopEnd(Primary, r) PROVE IInv'
  <2>1. /\ thread[Primary][r] \in {"drive", "redrive"} /\ thread'[Primary][r] = "off"
        /\ \A q \in Runs \ {r} : thread'[Primary][q] = thread[Primary][q]
        /\ UNCHANGED <<created_at, request, plans, promoting, picked, up>>
    BY <1>10, <1>g DEF LoopEnd
  <2>2. /\ status'[r] = status[r] \/ status'[r] \in {"waiting", "failed", "completed"}
        /\ \A q \in Runs \ {r} : status'[q] = status[q]
    BY <1>10, <1>w, <1>l DEF LoopEnd
  <2>3. RunOK(r)'
    BY <1>r, <2>1, <2>2 DEF RunOK
  <2> QED BY <1>t, <2>1, <2>2, <2>3, OneRunStep
<1>11. ASSUME NEW r \in Runs, ResumeReapedRun(Primary, r) PROVE IInv'
  <2>1. /\ thread[Primary][r] = "resume" /\ status' = status
        /\ \/ status[r] = "planning" /\ thread'[Primary][r] = "plan"
           \/ status[r] \in {"running", "waiting", "stalled"} /\ thread'[Primary][r] = "reloop"
           \/ status[r] # "planning" /\ thread'[Primary][r] = "off"
        /\ \A q \in Runs \ {r} : thread'[Primary][q] = thread[Primary][q]
        /\ UNCHANGED <<created_at, request, plans, promoting, picked, up>>
    BY <1>11, <1>l, <1>g DEF ResumeReapedRun, ACTIVE_STATUSES
  <2>2. RunOK(r)'
    BY <1>r, <2>1 DEF RunOK
  <2> QED BY <1>t, <2>1, <2>2, OneRunStep
<1>12. ASSUME NEW r \in Runs,
              SettleRunAfterApproval(r) \/ CheckStalledRuns(r) \/ CancelRun(r)
       PROVE  IInv'
  <2>1. /\ status[r] # "absent"
        /\ \/ status[r] \in {"running", "waiting", "stalled"} /\ status'[r] \in {"stalled", "completed"}
           \/ status'[r] = "cancelled"
        /\ \A q \in Runs \ {r} : status'[q] = status[q]
        /\ UNCHANGED <<created_at, request, thread, plans, promoting, picked, up>>
    BY <1>12, <1>w DEF SettleRunAfterApproval, CheckStalledRuns, CancelRun
  <2>2. RunOK(r)'
    BY <1>r, <2>1 DEF RunOK
  <2> QED BY <1>t, <2>1, <2>2, OneRunStep
<1>13. ASSUME PromoteCount(Primary) PROVE IInv'
  <2>1. /\ promoting[Primary] = "count" /\ status' = status
        /\ UNCHANGED <<created_at, request, thread, plans, up>>
    BY <1>13, <1>l DEF PromoteCount
  <2>2. CASE promoting' = [promoting EXCEPT ![Primary] = "off"] /\ UNCHANGED picked
    <3>1. \A q \in Runs : RunOK(q)'
      BY <1>r, <2>1, <2>2 DEF RunOK
    <3>2. promoting'[Primary] = "off"
      BY <1>t, <2>2 DEF TypeOK
    <3>3. PromotionIsAlone'
      BY <1>r, <2>1, <3>2 DEF PromotionIsAlone, Serving
    <3> QED BY <1>n, <3>1, <3>3
  <2>3. ASSUME NEW r \in Runs, Oldest(r), picked' = [picked EXCEPT ![Primary] = r],
               promoting' = [promoting EXCEPT ![Primary] = "write"]
        PROVE  IInv'
    <3>1. picked'[Primary] = r /\ promoting'[Primary] = "write"
      BY <1>t, <2>3 DEF TypeOK
    <3>2. status[r] = "queued" /\ \A q \in Queued : created_at[r] <= created_at[q]
      BY <2>3 DEF Oldest, Queued
    <3>3. \A q \in Runs : RunOK(q)'
      BY <1>r, <2>1, <3>1, <3>2 DEF RunOK
    <3>4. Queued' = Queued
      BY <2>1 DEF Queued
    <3>5. PromotionIsAlone'
      BY <1>r, <2>1, <3>1, <3>2, <3>4 DEF PromotionIsAlone, Serving
    <3> QED BY <1>n, <3>3, <3>5
  <2> QED BY <1>13, <2>2, <2>3 DEF PromoteCount
<1>14. ASSUME PromoteWrite(Primary) PROVE IInv'
  <2>0. promoting[Primary] = "write" /\ picked[Primary] \in Runs
    BY <1>14, <1>r DEF PromoteWrite, PromotionIsAlone
  <2>1. PICK r \in Runs : r = picked[Primary]
    BY <2>0
  <2>2. /\ status'[r] = "planning" /\ thread'[Primary][r] = "plan"
        /\ \A q \in Runs \ {r} : /\ status'[q] = status[q]
                                 /\ thread'[Primary][q] = thread[Primary][q]
        /\ UNCHANGED <<created_at, request, plans, up>>
    <3>1. Write(r, "planning") /\ Goto(Primary, r, "plan")
      BY <1>14, <2>1 DEF PromoteWrite
    <3>2. UNCHANGED <<created_at, request, plans, up>>
      BY <1>14 DEF PromoteWrite
    <3>3. status'[r] = "planning" /\ \A q \in Runs \ {r} : status'[q] = status[q]
      BY <1>w, <3>1
    <3>4. thread'[Primary][r] = "plan"
          /\ \A q \in Runs \ {r} : thread'[Primary][q] = thread[Primary][q]
      BY <1>g, <3>1
    <3> QED BY <3>2, <3>3, <3>4
  <2>3. promoting'[Primary] = "count" /\ picked'[Primary] = "none"
    BY <1>14, <1>t DEF PromoteWrite, TypeOK
  <2>4. request[r] = "over"
    BY <1>r, <2>1 DEF RunOK
  <2>5. RunOK(r)'
    BY <2>2, <2>4 DEF RunOK
  <2>6. ASSUME NEW q \in Runs \ {r} PROVE RunOK(q)'
    <3>1. q # "none"
      BY RunsAssumption
    <3> QED BY <1>r, <2>2, <2>3, <3>1 DEF RunOK
  <2>7. PromotionIsAlone'
    BY <1>r, <2>0, <2>2, <2>3 DEF PromotionIsAlone, Serving
  <2> QED BY <1>n, <2>5, <2>6, <2>7
<1>15. ASSUME Crash(Primary) PROVE IInv'
  <2>1. /\ status' = status /\ UNCHANGED <<created_at, plans>> /\ Primary \notin up'
        /\ \A q \in Runs : thread'[Primary][q] = "off"
        /\ promoting'[Primary] = "off" /\ picked'[Primary] = "none"
    BY <1>15, <1>l, <1>t DEF Crash, TypeOK
  <2>2. \A q \in Runs : \/ request'[q] = "over"
                        \/ request'[q] = "none" /\ request[q] = "none"
    BY <1>15, <1>t DEF Crash, TypeOK
  <2>3. ASSUME NEW q \in Runs PROVE RunOK(q)'
    <3>1. q # "none"
      BY RunsAssumption
    <3> QED BY <1>r, <2>1, <2>2, <3>1 DEF RunOK
  <2>4. PromotionIsAlone'
    BY <2>1, <2>2 DEF PromotionIsAlone, Serving
  <2> QED BY <1>n, <2>3, <2>4
<1>16. ASSUME Start(Primary) PROVE IInv'
  <2>1. /\ status' = status /\ UNCHANGED <<created_at, request, plans, picked>>
        /\ Primary \notin up /\ Primary \in up'
        /\ promoting'[Primary] = "count"
        /\ \A q \in Runs : thread'[Primary][q] = IF q \in Active THEN "resume" ELSE "off"
    BY <1>16, <1>l, <1>t DEF Start, TypeOK
  <2>2. \A q \in Runs : q \in Active <=> status[q] \in {"planning", "running", "waiting", "stalled"}
    BY DEF Active, ACTIVE_STATUSES
  <2>3. \A q \in Runs : RunOK(q)'
    BY <1>r, <2>1, <2>2 DEF RunOK
  <2>4. PromotionIsAlone'
    BY <1>r, <2>1 DEF PromotionIsAlone, Serving
  <2> QED BY <1>n, <2>3, <2>4
<1>17. CASE UNCHANGED vars
  <2>1. \A q \in Runs : RunOK(q)'
    BY <1>r, <1>17 DEF RunOK, vars
  <2>2. PromotionIsAlone'
    BY <1>r, <1>17 DEF PromotionIsAlone, Serving, Queued, vars
  <2> QED BY <1>n, <2>1, <2>2
<1> QED
  BY <1>1, <1>2, <1>3, <1>4, <1>5, <1>6, <1>7, <1>8, <1>9, <1>10, <1>11, <1>12,
     <1>13, <1>14, <1>15, <1>16, <1>17 DEF Next, ThreadStep

LEMMA OneProcessInvariant ==
    ASSUME Procs = {Primary}
    PROVE  Spec => []IInv
<1>1. Init /\ TypeInv => IInv
  <2> SUFFICES ASSUME Init, TypeInv PROVE IInv
    OBVIOUS
  <2>1. \A r \in Runs : RunOK(r)
    BY RunsAssumption DEF Init, RunOK
  <2>2. PromotionIsAlone
    BY DEF Init, PromotionIsAlone, Serving
  <2> QED BY <2>1, <2>2, RunByRun DEF TypeInv
<1>2. TypeInv /\ TypeInv' /\ IInv /\ [Next]_vars => IInv'
  BY OneProcessStep
<1> QED BY <1>1, <1>2, TypeInvariant, PTL DEF Spec

(* With one API process, however often it restarts and whatever is         *)
(* cancelled, raised or refused: no run is running, waiting, stalled or    *)
(* completed without a plan (generate_plan and the checks after it).       *)
THEOREM PlanFirst ==
    ASSUME Procs = {Primary}
    PROVE  Spec => []PlanBeforeRun
<1>1. IInv => PlanBeforeRun
  BY DEF IInv
<1> QED BY <1>1, OneProcessInvariant, PTL

(* With one API process, a planning run always has a thread that will plan *)
(* it or close it while the process is up (_plan_run, the reaper and       *)
(* promote_queued between them leave none behind).                         *)
THEOREM PlanningDriven ==
    ASSUME Procs = {Primary}
    PROVE  Spec => []PlanningIsDriven
<1>1. IInv => PlanningIsDriven
  BY DEF IInv
<1> QED BY <1>1, OneProcessInvariant, PTL

(* With one API process, promote_queued takes queued runs in the order of  *)
(* created_at, and nothing else takes a run out of the queue to plan it.   *)
THEOREM QueueInOrder ==
    ASSUME Procs = {Primary}
    PROVE  Spec => OldestFirst
<1>1. TypeInv /\ IInv /\ [Next]_vars =>
        [\A r \in Queued : status'[r] = "planning" =>
            \A q \in Queued : created_at[r] <= created_at[q]]_vars
  <2> SUFFICES ASSUME TypeInv, IInv, Next, NEW r \in Queued, status'[r] = "planning"
               PROVE  \A q \in Queued : created_at[r] <= created_at[q]
    BY DEF Queued
  <2>1. r \in Runs /\ status[r] = "queued" /\ TypeOK
    BY DEF Queued, TypeInv
  <2>2. ASSUME NEW q \in Runs, NEW s \in RunStatus, Write(q, s), s # "planning" PROVE FALSE
    BY <2>1, <2>2, WriteEffect
  <2>3. ~Leave
    BY <2>1 DEF Leave
  <2>4. ASSUME NEW q \in Runs, CreateCommit(q) PROVE FALSE
    <3>1. status[q] = "absent"
      BY <2>4 DEF CreateCommit, IInv, RequestComesFirst
    <3>2. status'[r] = status[r]
      BY <2>1, <2>4, <3>1, CreateCommitEffect, WriteEffect, StatusValues
    <3> QED BY <2>1, <3>2
  <2>5. ASSUME NEW p \in Procs, NEW q \in Runs, CreateCount(p, q) \/ ThreadStep(p, q)
        PROVE  FALSE
    <3>1. CASE PlanRaises(p, q)
      BY <2>1, <2>2, <2>3, <3>1, StatusValues, PlanRaisesEffect
    <3>2. CASE LoopEnd(p, q)
      BY <2>2, <2>3, <3>2, StatusValues DEF LoopEnd
    <3>3. CASE RecordCannotPlan(p, q) \/ LoopStart(p, q)
      BY <2>2, <3>3, StatusValues DEF RecordCannotPlan, LoopStart
    <3>4. CASE \/ CreateCount(p, q) \/ PlanStart(p, q) \/ PlanRejected(p, q)
               \/ Persist(p, q) \/ PlanRefresh(p, q) \/ ResumeReapedRun(p, q)
      BY <2>3, <3>4
         DEF CreateCount, PlanStart, PlanRejected, Persist, PlanRefresh, ResumeReapedRun
    <3> QED BY <2>5, <3>1, <3>2, <3>3, <3>4 DEF ThreadStep
  <2>6. ASSUME NEW q \in Runs,
               SettleRunAfterApproval(q) \/ CheckStalledRuns(q) \/ CancelRun(q)
        PROVE  FALSE
    BY <2>2, <2>6, StatusValues DEF SettleRunAfterApproval, CheckStalledRuns, CancelRun
  <2>7. PromoteWrite(Primary)
    BY <2>3, <2>4, <2>5, <2>6 DEF Next, Crash, Start, PromoteCount
  <2>8. /\ promoting[Primary] = "write" /\ picked[Primary] \in Runs
        /\ \A q \in Queued : created_at[picked[Primary]] <= created_at[q]
    BY <2>7 DEF PromoteWrite, IInv, PromotionIsAlone
  <2>9. r = picked[Primary]
    BY <2>1, <2>7, <2>8, WriteEffect, StatusValues DEF PromoteWrite
  <2> QED BY <2>8, <2>9
<1> QED BY <1>1, TypeInvariant, OneProcessInvariant, PTL DEF Spec, OldestFirst

-----------------------------------------------------------------------------
(* What counts against the cap: active runs that were not revived, requests that found a
   slot and have not committed, and the run that promote_queued has selected. *)
Counted == (Active \ revived) \cup {r \in Runs : request[r] = "free"}
             \cup {r \in Runs : \E p \in Procs : promoting[p] = "write" /\ picked[p] = r}
WaitingHasNoThread ==
    \A r \in Runs : status[r] \in {"absent", "queued"} => \A p \in Procs : thread[p][r] = "off"
CapInv == WaitingHasNoThread /\ Cardinality(Counted) <= Cap + MaxRequests - 1

(* A status write activates no run that was not counted, unless it revives it. *)
LEMMA WriteCounts ==
    ASSUME TypeOK, NEW r \in Runs, NEW s \in RunStatus, Write(r, s),
           s \in ACTIVE_STATUSES /\ status[r] \in {"absent", "queued"} => r \in Counted
    PROVE  (Active \ revived)' \subseteq Counted
<1> SUFFICES ASSUME NEW q \in Runs, status'[q] \in ACTIVE_STATUSES, q \notin revived' PROVE q \in Counted
  BY DEF Active
<1>1. q \notin revived
  BY DEF Write
<1>2. CASE q # r
  BY <1>1, <1>2, WriteEffect DEF Counted, Active
<1>3. CASE q = r
  <2>1. s \in ACTIVE_STATUSES /\ status[r] \notin TERMINAL_RUN_STATUSES
    BY <1>3, WriteEffect DEF Write
  <2>2. status[r] \in ACTIVE_STATUSES \/ status[r] \in {"absent", "queued"}
    BY <2>1 DEF TypeOK, RunStatus, ACTIVE_STATUSES, TERMINAL_RUN_STATUSES
  <2> QED BY <1>1, <1>3, <2>1, <2>2 DEF Counted, Active
<1> QED BY <1>2, <1>3

LEMMA LeaveCounts ==
    ASSUME Leave
    PROVE  (Active \ revived)' \subseteq Counted
BY DEF Leave, Active, Counted

(* A step that counts nothing new keeps the bound. *)
LEMMA FewerCounted ==
    ASSUME TypeOK, TypeOK', Cardinality(Counted) <= Cap + MaxRequests - 1, Counted' \subseteq Counted
    PROVE  Cardinality(Counted') <= Cap + MaxRequests - 1
<1>1. IsFiniteSet(Counted)
  <2>1. Counted \subseteq Runs
    BY DEF Counted, Active
  <2> QED BY <2>1, RunsAssumption, FS_Subset
<1>2. IsFiniteSet(Counted') /\ Cardinality(Counted') <= Cardinality(Counted)
  BY <1>1, FS_Subset
<1>3. Cardinality(Counted) \in Nat /\ Cardinality(Counted') \in Nat
  BY <1>1, <1>2, FS_CardinalityType
<1> QED BY <1>2, <1>3, LimitsAssumption

(* A request that finds a slot: fewer than Cap runs are active and at most MaxRequests
   requests are in flight, the new one included. *)
LEMMA SlotForRequest ==
    ASSUME IInv, Procs = {Primary}, NEW r \in Runs, CreateCount(Primary, r)
    PROVE  Counted' \subseteq Counted \/ Cardinality(Counted') <= Cap + MaxRequests - 1
<1>0. TypeOK
  BY DEF IInv
<1> DEFINE Flight == {q \in Runs : request[q] \in {"free", "full"}}
<1>1. /\ request' = [request EXCEPT ![r] = IF HasSlot THEN "free" ELSE "full"]
      /\ UNCHANGED <<status, revived, promoting, picked>> /\ promoting[Primary] = "off"
      /\ Cardinality(Flight) < MaxRequests
  BY DEF CreateCount, Leave, promotion, Serving
<1>2. CASE ~HasSlot
  <2>1. \A q \in Runs : request'[q] = "free" => request[q] = "free"
    BY <1>0, <1>1, <1>2 DEF TypeOK
  <2> QED BY <1>1, <2>1 DEF Counted, Active
<1>3. CASE HasSlot
  <2>1. Cardinality(Active) < Cap
    BY <1>3 DEF HasSlot
  <2>2. \A q \in Runs : request'[q] = IF q = r THEN "free" ELSE request[q]
    BY <1>0, <1>1, <1>3 DEF TypeOK
  <2>3. Counted' \subseteq Active \cup (Flight \cup {r})
    BY <1>1, <2>2 DEF Counted, Active
  <2>4. IsFiniteSet(Active) /\ IsFiniteSet(Flight)
    <3>1. Active \subseteq Runs /\ Flight \subseteq Runs
      BY DEF Active
    <3> QED BY <3>1, RunsAssumption, FS_Subset
  <2> HIDE DEF Flight
  <2>5. IsFiniteSet(Flight \cup {r}) /\ Cardinality(Flight \cup {r}) <= Cardinality(Flight) + 1
    <3>1. IsFiniteSet(Flight \cup {r})
          /\ Cardinality(Flight \cup {r}) = IF r \in Flight THEN Cardinality(Flight) ELSE Cardinality(Flight) + 1
      BY <2>4, FS_AddElement
    <3>2. Cardinality(Flight) \in Nat
      BY <2>4, FS_CardinalityType
    <3> QED BY <3>1, <3>2
  <2> DEFINE G == Flight \cup {r}
  <2>6. IsFiniteSet(G) /\ Cardinality(G) <= Cardinality(Flight) + 1
    BY <2>5
  <2>7. Counted' \subseteq Active \cup G
    BY <2>3
  <2> HIDE DEF G
  <2>8. IsFiniteSet(Active \cup G) /\ Cardinality(Active \cup G) = Cardinality(Active) + Cardinality(G) - Cardinality(Active \cap G)
    BY <2>4, <2>6, FS_Union
  <2>9. Cardinality(Counted') <= Cardinality(Active \cup G) /\ IsFiniteSet(Counted')
    BY <2>7, <2>8, FS_Subset
  <2>10. IsFiniteSet(Active \cap G)
    BY <2>4, FS_Intersection
  <2>11. /\ Cardinality(Counted') \in Nat /\ Cardinality(Active) \in Nat /\ Cardinality(G) \in Nat
         /\ Cardinality(Active \cap G) \in Nat /\ Cardinality(Flight) \in Nat /\ Cardinality(Active \cup G) \in Nat
    BY <2>4, <2>6, <2>8, <2>9, <2>10, FS_CardinalityType
  <2> DEFINE kk == Cardinality(Counted')
             ka == Cardinality(Active)
             kg == Cardinality(G)
             ki == Cardinality(Active \cap G)
             kf == Cardinality(Flight)
             ku == Cardinality(Active \cup G)
  <2>12. kk \in Nat /\ ka \in Nat /\ kg \in Nat /\ ki \in Nat /\ kf \in Nat /\ ku \in Nat
    BY <2>11
  <2>13. kk <= ku /\ ku = ka + kg - ki /\ kg <= kf + 1 /\ kf < MaxRequests /\ ka < Cap
    BY <1>1, <2>1, <2>6, <2>8, <2>9
  <2> HIDE DEF kk, ka, kg, ki, kf, ku
  <2>14. kk <= Cap + MaxRequests - 1
    BY <2>12, <2>13, LimitsAssumption
  <2> QED BY <2>14 DEF kk
<1> QED BY <1>2, <1>3

(* promote_queued finds a slot while no request is in flight. *)
LEMMA SlotForPromotion ==
    ASSUME IInv, Procs = {Primary}, PromoteCount(Primary)
    PROVE  Counted' \subseteq Counted \/ Cardinality(Counted') <= Cap + MaxRequests - 1
<1>0. TypeOK
  BY DEF IInv
<1>1. UNCHANGED <<status, revived, request>> /\ promoting[Primary] = "count"
  BY DEF PromoteCount, Leave, requests
<1>2. \A r \in Runs : request[r] # "free"
  BY <1>0, <1>1, ProcsAssumption DEF IInv, PromotionIsAlone, Serving
<1>3. CASE promoting' = [promoting EXCEPT ![Primary] = "off"]
  BY <1>0, <1>1, <1>3 DEF Counted, Active, TypeOK
<1>4. CASE HasSlot /\ promoting' # [promoting EXCEPT ![Primary] = "off"]
  <2>1. PICK r \in Runs : picked' = [picked EXCEPT ![Primary] = r]
    BY <1>4 DEF PromoteCount
  <2>2. Counted' \subseteq Active \cup {r}
    BY <1>0, <1>1, <1>2, <2>1 DEF Counted, Active, TypeOK
  <2>3. Active \subseteq Runs
    BY DEF Active
  <2>4. IsFiniteSet(Active)
    BY <2>3, RunsAssumption, FS_Subset
  <2>5. IsFiniteSet(Active \cup {r})
        /\ Cardinality(Active \cup {r}) = IF r \in Active THEN Cardinality(Active) ELSE Cardinality(Active) + 1
    BY <2>4, FS_AddElement
  <2>6. IsFiniteSet(Counted') /\ Cardinality(Counted') <= Cardinality(Active \cup {r})
    BY <2>2, <2>5, FS_Subset
  <2>7. Cardinality(Active) \in Nat /\ Cardinality(Counted') \in Nat /\ Cardinality(Active) < Cap
    BY <1>4, <2>4, <2>6, FS_CardinalityType DEF HasSlot
  <2> QED BY <2>5, <2>6, <2>7, LimitsAssumption
<1> QED BY <1>3, <1>4 DEF PromoteCount

(* The two parts of Counted that requests and the promoter contribute. *)
Others == /\ \A q \in Runs : request'[q] = "free" => request[q] = "free"
          /\ \A q \in Runs, p \in Procs : promoting'[p] = "write" /\ picked'[p] = q =>
                                            promoting[p] = "write" /\ picked[p] = q

LEMMA CountedShrinks ==
    ASSUME (Active \ revived)' \subseteq Counted, Others
    PROVE  Counted' \subseteq Counted
BY DEF Counted, Others

LEMMA CapStep ==
    ASSUME Procs = {Primary}, TypeInv, TypeInv', IInv, CapInv, [Next]_vars
    PROVE  CapInv'
<1>0. TypeOK /\ TypeOK' /\ Primary \in Procs
  BY ProcsAssumption DEF TypeInv
<1> DEFINE Bound == Cardinality(Counted') <= Cap + MaxRequests - 1
<1>f. Counted' \subseteq Counted => Bound
  BY <1>0, FewerCounted DEF CapInv
<1>g. (Active \ revived)' \subseteq Counted /\ Others => Bound
  BY <1>f, CountedShrinks
<1> HIDE DEF Bound
<1>o. UNCHANGED <<request, promoting, picked>> => Others
  BY DEF Others
<1>w. \A r \in Runs, p \in Procs : thread[p][r] # "off" => status[r] \notin {"absent", "queued"}
  BY DEF CapInv, WaitingHasNoThread
(* A step of a run that already has a thread, or of none. *)
<1>t. ASSUME NEW r \in Runs, status[r] \notin {"absent", "queued"},
             \A q \in Runs : q # r => status'[q] = status[q] /\ \A p \in Procs : thread'[p][q] = thread[p][q],
             status'[r] \notin {"absent", "queued"}
      PROVE  WaitingHasNoThread'
  BY <1>t DEF CapInv, WaitingHasNoThread
<1>1. ASSUME NEW r \in Runs, CreateCount(Primary, r) PROVE CapInv'
  <2>1. Bound
    BY <1>1, <1>f, SlotForRequest DEF Bound
  <2>2. UNCHANGED <<status, thread>>
    BY <1>1 DEF CreateCount, Leave, threads
  <2> QED BY <2>1, <2>2 DEF CapInv, WaitingHasNoThread, Bound
<1>2. ASSUME NEW r \in Runs, CreateCommit(r) PROVE CapInv'
  <2>1. /\ \A p \in Procs : thread[p][r] = "off"
        /\ UNCHANGED <<promoting, picked>>
    BY <1>2 DEF CreateCommit, IInv, RequestComesFirst, promotion
  <2>2. Others
    BY <1>0, <1>2, <2>1 DEF CreateCommit, Others, TypeOK
  <2>3. CASE request[r] = "full"
    <3>1. Write(r, "queued") /\ thread' = thread
      BY <1>0, <1>2, <2>3, CreateCommitEffect
    <3>2. (Active \ revived)' \subseteq Counted
      BY <1>0, <3>1, WriteCounts, StatusValues DEF ACTIVE_STATUSES
    <3>3. WaitingHasNoThread'
      BY <1>0, <2>1, <3>1, WriteEffect, StatusValues DEF CapInv, WaitingHasNoThread
    <3> QED BY <1>g, <2>2, <3>2, <3>3 DEF CapInv, Bound
  <2>4. CASE request[r] = "free"
    <3>1. Write(r, "planning") /\ Goto(server[r], r, "plan") /\ server[r] \in Procs
      BY <1>0, <1>2, <2>4, CreateCommitEffect DEF TypeOK
    <3>2. (Active \ revived)' \subseteq Counted
      BY <1>0, <2>4, <3>1, WriteCounts, StatusValues DEF Counted
    <3>3. \A q \in Runs, p \in Procs : q # r => thread'[p][q] = thread[p][q]
      BY <1>0, <3>1, GotoEffect, ThreadValues
    <3>4. WaitingHasNoThread'
      BY <1>0, <3>1, <3>3, WriteEffect, StatusValues DEF CapInv, WaitingHasNoThread
    <3> QED BY <1>g, <2>2, <3>2, <3>4 DEF CapInv, Bound
  <2> QED BY <1>0, <1>2, <2>3, <2>4, CreateCommitEffect
(* The row of r is written in a way that does not queue it, or left; only r's thread moves. *)
<1>a. ASSUME NEW r \in Runs, status[r] \notin {"absent", "queued"}, UNCHANGED <<request, promoting, picked>>,
             \/ Leave
             \/ \E s \in RunStatus \ {"absent", "queued"} : Write(r, s),
             \A q \in Runs, p \in Procs : q # r => thread'[p][q] = thread[p][q]
      PROVE  CapInv'
  <2>1. (Active \ revived)' \subseteq Counted
    BY <1>0, <1>a, LeaveCounts, WriteCounts
  <2>2. /\ status'[r] \notin {"absent", "queued"}
        /\ \A q \in Runs : q # r => status'[q] = status[q]
    BY <1>0, <1>a, WriteEffect, LeaveEffect
  <2>3. WaitingHasNoThread'
    BY <1>a, <1>t, <2>2
  <2> QED BY <1>a, <1>g, <1>o, <2>1, <2>3 DEF CapInv, Bound
<1>3. ASSUME NEW r \in Runs, ThreadStep(Primary, r) PROVE CapInv'
  <2>1. thread[Primary][r] # "off" /\ UNCHANGED <<request, promoting, picked>>
    BY <1>3 DEF ThreadStep, PlanStart, PlanRejected, RecordCannotPlan, Persist, PlanRaises, PlanRefresh,
                LoopStart, LoopEnd, ResumeReapedRun, InPlanRun, requests, promotion
  <2>2. \/ Leave \/ \E s \in {"cannot_plan", "failed", "running", "waiting", "completed"} : Write(r, s)
    BY <1>3 DEF ThreadStep, PlanStart, PlanRejected, RecordCannotPlan, Persist, PlanRaises, PlanRefresh,
                LoopStart, LoopEnd, ResumeReapedRun
  <2>3. thread' = thread \/ \E l \in ThreadState : Goto(Primary, r, l)
    <3>1. CASE PlanRejected(Primary, r)
      BY <3>1 DEF PlanRejected
    <3>2. CASE PlanStart(Primary, r) \/ PlanRefresh(Primary, r)
      BY <3>2, ThreadValues DEF PlanStart, PlanRefresh
    <3>3. CASE RecordCannotPlan(Primary, r) \/ Persist(Primary, r) \/ PlanRaises(Primary, r)
      BY <3>3, ThreadValues DEF RecordCannotPlan, Persist, PlanRaises
    <3>4. CASE LoopStart(Primary, r)
      BY <3>4, ThreadValues DEF LoopStart
    <3>5. CASE LoopEnd(Primary, r)
      BY <3>5, ThreadValues DEF LoopEnd
    <3>6. CASE ResumeReapedRun(Primary, r)
      BY <3>6, ThreadValues DEF ResumeReapedRun
    <3> QED BY <1>3, <3>1, <3>2, <3>3, <3>4, <3>5, <3>6 DEF ThreadStep
  <2>4. \A q \in Runs, p \in Procs : q # r => thread'[p][q] = thread[p][q]
    BY <1>0, <2>3, GotoEffect
  <2>5. \A s \in {"cannot_plan", "failed", "running", "waiting", "completed"} : s \in RunStatus \ {"absent", "queued"}
    BY DEF RunStatus
  <2>6. status[r] \notin {"absent", "queued"}
    BY <1>0, <1>w, <2>1
  <2> QED BY <1>a, <2>1, <2>2, <2>4, <2>5, <2>6
<1>4. ASSUME NEW r \in Runs, SettleRunAfterApproval(r) \/ CheckStalledRuns(r) PROVE CapInv'
  <2>1. /\ status[r] \notin {"absent", "queued"} /\ UNCHANGED <<request, promoting, picked, thread>>
        /\ Write(r, "completed") \/ Write(r, "stalled")
    BY <1>4 DEF SettleRunAfterApproval, CheckStalledRuns, requests, promotion, threads
  <2>2. "completed" \in RunStatus \ {"absent", "queued"} /\ "stalled" \in RunStatus \ {"absent", "queued"}
    BY DEF RunStatus
  <2> QED BY <1>a, <2>1, <2>2
<1>5. ASSUME NEW r \in Runs, CancelRun(r) PROVE CapInv'
  <2>1. Write(r, "cancelled") /\ UNCHANGED <<request, promoting, picked, thread>>
    BY <1>5 DEF CancelRun, requests, promotion, threads
  <2>2. (Active \ revived)' \subseteq Counted
    BY <1>0, <2>1, WriteCounts, StatusValues DEF ACTIVE_STATUSES
  <2>3. WaitingHasNoThread'
    BY <1>0, <2>1, WriteEffect, StatusValues DEF CapInv, WaitingHasNoThread
  <2> QED BY <1>g, <1>o, <2>1, <2>2, <2>3 DEF CapInv, Bound
<1>6. CASE PromoteCount(Primary)
  <2>1. Bound
    BY <1>6, <1>f, SlotForPromotion DEF Bound
  <2>2. UNCHANGED <<status, thread>>
    BY <1>6 DEF PromoteCount, Leave, threads
  <2> QED BY <2>1, <2>2 DEF CapInv, WaitingHasNoThread, Bound
<1>7. CASE PromoteWrite(Primary)
  <2>1. PICK r \in Runs : r = picked[Primary]
    BY <1>7 DEF PromoteWrite, TypeInv, PickedIsRun
  <2>2. /\ Write(r, "planning") /\ Goto(Primary, r, "plan") /\ promoting[Primary] = "write"
        /\ promoting' = [promoting EXCEPT ![Primary] = "count"] /\ UNCHANGED request
    BY <1>7, <2>1 DEF PromoteWrite, requests
  <2>3. r \in Counted
    BY <1>0, <2>1, <2>2 DEF Counted
  <2>4. (Active \ revived)' \subseteq Counted
    BY <1>0, <2>2, <2>3, WriteCounts, StatusValues
  <2>5. Others
    BY <1>0, <2>2 DEF Others, TypeOK
  <2>6. \A q \in Runs, p \in Procs : q # r => thread'[p][q] = thread[p][q]
    BY <1>0, <2>2, GotoEffect, ThreadValues
  <2>7. WaitingHasNoThread'
    BY <1>0, <2>2, <2>6, WriteEffect, StatusValues DEF CapInv, WaitingHasNoThread
  <2> QED BY <1>g, <2>4, <2>5, <2>7 DEF CapInv, Bound
<1>8. CASE Crash(Primary)
  <2>1. Others
    BY <1>0, <1>8 DEF Crash, Others, TypeOK
  <2>2. (Active \ revived)' \subseteq Counted /\ status' = status
    BY <1>8, LeaveCounts DEF Crash, Leave
  <2>3. \A q \in Runs : thread'[Primary][q] = "off"
    BY <1>0, <1>8 DEF Crash, TypeOK
  <2> QED BY <1>g, <2>1, <2>2, <2>3 DEF CapInv, WaitingHasNoThread, Bound
<1>9. CASE Start(Primary)
  <2>1. Others
    BY <1>0, <1>9 DEF Start, Others, TypeOK, requests
  <2>2. (Active \ revived)' \subseteq Counted /\ status' = status
    BY <1>9, LeaveCounts DEF Start, Leave
  <2>3. \A q \in Runs : status[q] \in {"absent", "queued"} => thread'[Primary][q] = "off"
    BY <1>0, <1>9 DEF Start, TypeOK, Active, ACTIVE_STATUSES
  <2> QED BY <1>g, <2>1, <2>2, <2>3 DEF CapInv, WaitingHasNoThread, Bound
<1>10. CASE UNCHANGED vars
  BY <1>10 DEF vars, CapInv, WaitingHasNoThread, Counted, Active
<1> QED BY <1>1, <1>2, <1>3, <1>4, <1>5, <1>6, <1>7, <1>8, <1>9, <1>10 DEF Next

(* With one API process, concurrent create requests that counted before either had committed
   exceed the cap by less than their number, for every cap, any number of runs, crashes and
   restarts, apart from runs that a stale loop revived (create_run, promote_queued). *)
THEOREM OvershootBound ==
    ASSUME Procs = {Primary}
    PROVE  Spec => []OvershootIsBounded
<1>1. Init => CapInv
  <2> SUFFICES ASSUME Init PROVE CapInv
    OBVIOUS
  <2>1. Counted = {}
    BY DEF Init, Counted, Active, ACTIVE_STATUSES
  <2>2. Cardinality(Counted) = 0
    BY <2>1, FS_EmptySet
  <2>3. WaitingHasNoThread
    BY DEF Init, WaitingHasNoThread
  <2> QED BY <2>2, <2>3, LimitsAssumption DEF CapInv
<1>2. TypeInv /\ TypeInv' /\ IInv /\ CapInv /\ [Next]_vars => CapInv'
  BY CapStep
<1>3. TypeInv /\ CapInv => OvershootIsBounded
  <2> SUFFICES ASSUME TypeInv, CapInv PROVE OvershootIsBounded
    OBVIOUS
  <2>1. Active \ revived \subseteq Counted /\ Counted \subseteq Runs
    BY DEF Counted, Active
  <2>2. IsFiniteSet(Counted)
    BY <2>1, RunsAssumption, FS_Subset
  <2>3. IsFiniteSet(Active \ revived) /\ Cardinality(Active \ revived) <= Cardinality(Counted)
    BY <2>1, <2>2, FS_Subset
  <2>4. Cardinality(Counted) \in Nat /\ Cardinality(Active \ revived) \in Nat
    BY <2>2, <2>3, FS_CardinalityType
  <2> QED BY <2>3, <2>4, LimitsAssumption DEF CapInv, OvershootIsBounded
<1> QED BY <1>1, <1>2, <1>3, TypeInvariant, OneProcessInvariant, PTL DEF Spec

-----------------------------------------------------------------------------
(* PlanCheck: the judgement of a plan *)

LEMMA LeastNat ==
    ASSUME NEW T, T \subseteq Nat, T # {}
    PROVE  \E x \in T : \A y \in T : x <= y
<1> DEFINE R == OpToRel(<, Nat)
<1>1. IsWellFoundedOn(R, Nat)
  BY NatLessThanWellFounded, Zenon
<1>2. \A a, b \in Nat : a < b => <<a, b>> \in R
  BY DEF OpToRel
<1> HIDE DEF R
<1>3. PICK x \in T : \A y \in T : ~(<<y, x>> \in R)
  BY <1>1, WFMin
<1>4. \A y \in T : ~(y < x)
  BY <1>2, <1>3
<1> QED BY <1>4

(* Of the positions of a sequence that are in a set one is the last. *)
LEMMA LastPosition ==
    ASSUME NEW n \in Nat, NEW T, T \subseteq 1 .. n, T # {}
    PROVE  \E x \in T : \A y \in T : y <= x
<1> DEFINE U == {n - x : x \in T}
<1>0. \A x \in T : x \in 1 .. n /\ n - x \in Nat
  OBVIOUS
<1>1. U \subseteq Nat /\ U # {}
  BY <1>0
<1>2. PICK u \in U : \A v \in U : u <= v
  BY <1>1, LeastNat
<1>3. PICK x \in T : u = n - x
  BY <1>2
<1>4. \A y \in T : n - x <= n - y
  BY <1>2, <1>3
<1> QED BY <1>0, <1>4

(* by_cap and key_for_cap name a task that has the capability. *)
LEMMA KeyOfCap ==
    ASSUME NEW p \in Seq(PlannedTask), NEW c, HasCapability(p, c)
    PROVE  \E i \in DOMAIN p : p[i].capability = c /\ KeyForCap(p, c) = p[i].key
<1> DEFINE T == {i \in DOMAIN p : p[i].capability = c}
           Last(i) == p[i].capability = c /\ \A j \in DOMAIN p : p[j].capability = c => j <= i
<1>1. T \subseteq 1 .. Len(p) /\ T # {} /\ Len(p) \in Nat
  BY DEF HasCapability
<1>2. PICK i \in T : \A j \in T : j <= i
  BY <1>1, LastPosition
<1>3. \E k \in DOMAIN p : Last(k)
  BY <1>2
<1>4. PICK k : k = (CHOOSE l \in DOMAIN p : Last(l))
  OBVIOUS
<1>5. k \in DOMAIN p /\ Last(k)
  BY <1>3, <1>4
<1>6. KeyForCap(p, c) = p[k].key
  BY <1>4 DEF KeyForCap
<1> QED BY <1>5, <1>6

(* len(keys) = len(set(keys)): a key names one task. *)
LEMMA UniqueKeys ==
    ASSUME NEW p \in Seq(PlannedTask), WellFormed(p)
    PROVE  \A i, j \in DOMAIN p : p[i].key = p[j].key => i = j
<1> DEFINE S == 1 .. Len(p)
           f == [i \in S |-> p[i].key]
<1>1. f \in Surjection(S, Keys(p))
  BY DEF Surjection, Keys
<1>2. IsFiniteSet(S) /\ Cardinality(S) = Len(p)
  <2>1. Len(p) \in Nat /\ 1 \in Int
    OBVIOUS
  <2>2. IsFiniteSet(1 .. Len(p)) /\ Cardinality(1 .. Len(p)) = IF 1 > Len(p) THEN 0 ELSE Len(p) - 1 + 1
    BY <2>1, FS_Interval
  <2> QED BY <2>1, <2>2
<1>3. Cardinality(S) = Cardinality(Keys(p))
  BY <1>2 DEF WellFormed
<1>4. f \in Injection(S, Keys(p))
  BY <1>1, <1>2, <1>3, FS_SurjSameCardinalityImpliesInj
<1>5. \A i, j \in S : f[i] = f[j] => i = j
  BY <1>4 DEF Injection, IsInjective
<1>6. DOMAIN p = S
  OBVIOUS
<1> QED BY <1>5, <1>6

LEMMA TaskOfKey ==
    ASSUME NEW p \in Seq(PlannedTask), WellFormed(p), NEW i \in DOMAIN p
    PROVE  TaskOf(p, p[i].key) = p[i] /\ DependsOn(p, p[i].key) = p[i].depends_on
<1>1. (CHOOSE j \in DOMAIN p : p[j].key = p[i].key) = i
  BY UniqueKeys
<1> QED BY <1>1 DEF TaskOf, DependsOn

LEMMA DepsInPlan ==
    ASSUME NEW p \in Seq(PlannedTask), WellFormed(p)
    PROVE  \A k \in Keys(p) : DependsOn(p, k) \subseteq Keys(p)
<1> SUFFICES ASSUME NEW k \in Keys(p) PROVE DependsOn(p, k) \subseteq Keys(p)
  OBVIOUS
<1>1. PICK i \in DOMAIN p : k = p[i].key
  BY DEF Keys
<1>2. DependsOn(p, k) = p[i].depends_on
  BY <1>1, TaskOfKey
<1> QED BY <1>2 DEF WellFormed

-----------------------------------------------------------------------------
(* The search: what was left behind waits for nothing that is not, and can be
   executed among itself; the calls under way are a chain of prerequisites. *)
Grounded(p, done) ==
  /\ done \subseteq Keys(p)
  /\ \A k \in done : DependsOn(p, k) \subseteq done
  /\ \A rest \in (SUBSET done) \ {{}} : \E k \in rest : DependsOn(p, k) \cap rest = {}

IsCallChain(p, calls, done) ==
  /\ calls \in Seq(Keys(p))
  /\ \A i \in DOMAIN calls : calls[i] \notin done
  /\ \A i, j \in DOMAIN calls : calls[i] = calls[j] => i = j
  /\ \A i \in 1 .. Len(calls) - 1 : calls[i + 1] \in DependsOn(p, calls[i])

(* A task all of whose prerequisites are done is done after them. *)
LEMMA GroundedGrows ==
    ASSUME NEW p, NEW done, Grounded(p, done), NEW n \in Keys(p), n \notin done,
           DependsOn(p, n) \subseteq done
    PROVE  Grounded(p, done \cup {n})
<1>1. ASSUME NEW rest \in (SUBSET (done \cup {n})) \ {{}}
      PROVE  \E k \in rest : DependsOn(p, k) \cap rest = {}
  <2>0. rest \subseteq done \cup {n} /\ rest # {}
    BY <1>1
  <2>1. CASE rest \ {n} = {}
    <3>1. \A x \in rest : x = n
      BY <2>1
    <3>2. n \in rest /\ n \notin DependsOn(p, n)
      BY <2>0, <3>1
    <3> QED BY <3>1, <3>2
  <2>2. CASE rest \ {n} # {}
    <3>1. rest \ {n} \in (SUBSET done) \ {{}}
      BY <2>0, <2>2
    <3>2. PICK k \in rest \ {n} : DependsOn(p, k) \cap (rest \ {n}) = {}
      BY <3>1 DEF Grounded
    <3>3. n \notin DependsOn(p, k)
      BY <3>1, <3>2 DEF Grounded
    <3> QED BY <3>2, <3>3
  <2> QED BY <2>1, <2>2
<1> QED BY <1>1 DEF Grounded

(* A call of visit for a node on the stack closes a cycle. *)
LEMMA CallOnStackIsCycle ==
    ASSUME NEW p, NEW calls, NEW done, IsCallChain(p, calls, done), calls # <<>>,
           NEW n \in DependsOn(p, calls[Len(calls)]), NEW i \in DOMAIN calls, calls[i] = n
    PROVE  ~Executable(p)
<1> DEFINE m == Len(calls)
<1>0. m \in Nat /\ DOMAIN calls = 1 .. m /\ i \in 1 .. m
  BY DEF IsCallChain
<1>1. \A j \in 1 .. m : calls[j] \in Keys(p)
  BY DEF IsCallChain
<1>2. \A j \in 1 .. m - 1 : calls[j + 1] \in DependsOn(p, calls[j])
  BY DEF IsCallChain
<1>3. n \in DependsOn(p, calls[m])
  OBVIOUS
<1> HIDE DEF m
<1> DEFINE rest == {calls[j] : j \in i .. m}
<1>4. \A j \in i .. m : j \in 1 .. m /\ (j = m \/ (j \in 1 .. m - 1 /\ j + 1 \in i .. m))
  BY <1>0
<1>5. rest \subseteq Keys(p) /\ calls[i] \in rest
  BY <1>0, <1>1, <1>4
<1>6. ASSUME NEW k \in rest PROVE DependsOn(p, k) \cap rest # {}
  <2>1. PICK j \in i .. m : k = calls[j]
    BY <1>6
  <2>2. CASE j = m
    BY <1>3, <1>5, <2>1, <2>2
  <2>3. CASE j \in 1 .. m - 1 /\ j + 1 \in i .. m
    BY <1>2, <2>1, <2>3
  <2> QED BY <1>4, <2>2, <2>3
<1> HIDE DEF rest
<1>7. rest \in (SUBSET Keys(p)) \ {{}}
  BY <1>5
<1> QED BY <1>6, <1>7 DEF Executable

-----------------------------------------------------------------------------
(* The closure of the dependencies *)
LEMMA BehindIsTransitive ==
    ASSUME NEW p, NEW k, NEW d \in Behind(p, k)
    PROVE  Behind(p, d) \subseteq Behind(p, k)
BY DEF Behind

LEMMA DepsAreBehind ==
    ASSUME NEW p, NEW k, DependsOn(p, k) \subseteq Keys(p)
    PROVE  DependsOn(p, k) \subseteq Behind(p, k)
BY DEF Behind

Reaches(p, r) ==
  /\ r \in [Keys(p) -> SUBSET Keys(p)]
  /\ \A k \in Keys(p) : DependsOn(p, k) \subseteq r[k] /\ r[k] \subseteq Behind(p, k)
IsClosedAt(r, k) == \A d \in r[k] : r[d] \subseteq r[k]

LEMMA ClosureIsBehind ==
    ASSUME NEW p, NEW r, Reaches(p, r), \A k \in Keys(p) : IsClosedAt(r, k)
    PROVE  \A k \in Keys(p) : r[k] = Behind(p, k)
<1> SUFFICES ASSUME NEW k \in Keys(p), NEW b \in Behind(p, k) PROVE b \in r[k]
  BY DEF Reaches
<1>1. r[k] \in SUBSET Keys(p) /\ DependsOn(p, k) \subseteq r[k]
  BY DEF Reaches
<1>2. ASSUME NEW x \in r[k] PROVE DependsOn(p, x) \subseteq r[k]
  BY <1>1, <1>2 DEF Reaches, IsClosedAt
<1> QED BY <1>1, <1>2 DEF Behind

LEMMA PropagateReaches ==
    ASSUME NEW p, NEW r, Reaches(p, r), NEW k \in Keys(p)
    PROVE  Reaches(p, [r EXCEPT ![k] = r[k] \cup UNION {r[d] : d \in r[k]}])
<1> DEFINE new == r[k] \cup UNION {r[d] : d \in r[k]}
           s == [r EXCEPT ![k] = new]
<1>1. r \in [Keys(p) -> SUBSET Keys(p)]
  BY DEF Reaches
<1>2. new \subseteq Keys(p) /\ r[k] \subseteq new
  BY <1>1
<1>3. new \subseteq Behind(p, k)
  <2> SUFFICES ASSUME NEW d \in r[k], NEW b \in r[d] PROVE b \in Behind(p, k)
    BY DEF Reaches
  <2>1. d \in Keys(p) /\ d \in Behind(p, k) /\ b \in Behind(p, d)
    BY <1>1 DEF Reaches
  <2> QED BY <2>1, BehindIsTransitive
<1> HIDE DEF new
<1>4. s \in [Keys(p) -> SUBSET Keys(p)] /\ s[k] = new /\ \A q \in Keys(p) \ {k} : s[q] = r[q]
  BY <1>1, <1>2
<1>5. \A q \in Keys(p) : DependsOn(p, q) \subseteq s[q] /\ s[q] \subseteq Behind(p, q)
  BY <1>2, <1>3, <1>4 DEF Reaches
<1>6. Reaches(p, s)
  BY <1>4, <1>5 DEF Reaches
<1> QED BY <1>6 DEF new

(* Adjacent stages in order are stages in order, whatever lies between them. *)
LEMMA AdjacentSuffices ==
    ASSUME NEW p,
           \A e \in Adjacent(p) : KeyForCap(p, SafetyOrder[e[1]]) \in Behind(p, KeyForCap(p, SafetyOrder[e[2]]))
    PROVE  StagesInOrder(p)
<1> DEFINE K(i) == KeyForCap(p, SafetyOrder[i])
           P == Present(p)
<1>1. P \subseteq 1 .. Len(SafetyOrder) /\ Len(SafetyOrder) \in Nat
  BY PlanAssumption DEF Present
<1>2. ASSUME NEW i \in P, NEW j \in P, i < j, \A k \in P : ~(i < k /\ k < j)
      PROVE  K(i) \in Behind(p, K(j))
  <2>1. <<i, j>> \in Adjacent(p)
    BY <1>2 DEF Adjacent
  <2> QED BY <2>1
<1>3. SUFFICES ASSUME NEW i \in P, NEW b \in P, i < b, K(i) \notin Behind(p, K(b)) PROVE FALSE
  BY DEF StagesInOrder
<1> DEFINE Bad == {j \in P : i < j /\ K(i) \notin Behind(p, K(j))}
<1> HIDE DEF K, P
<1>4. Bad \subseteq Nat /\ Bad # {}
  <2>1. P \subseteq Nat
    BY <1>1
  <2>2. b \in Bad
    BY <1>3
  <2> QED BY <2>1, <2>2
<1>5. PICK j \in Bad : \A k \in Bad : j <= k
  BY <1>4, LeastNat
<1> DEFINE Between == {k \in P : i < k /\ k < j}
<1>6. Between # {}
  BY <1>2, <1>3, <1>5
<1>7. PICK k \in Between : \A l \in Between : l <= k
  <2>1. Between \subseteq 1 .. Len(SafetyOrder)
    BY <1>1
  <2> QED BY <1>1, <1>6, <2>1, LastPosition
<1>8. i \in Nat /\ j \in Nat /\ k \in Nat /\ j \in P /\ k \in P /\ i < k /\ k < j
  BY <1>1, <1>5, <1>7
<1>9. K(i) \in Behind(p, K(k))
  BY <1>5, <1>8
<1>10. \A l \in P : ~(k < l /\ l < j)
  <2> SUFFICES ASSUME NEW l \in P, k < l, l < j PROVE FALSE
    OBVIOUS
  <2>1. l \in Nat
    BY <1>1
  <2>2. l \in Between
    BY <1>8, <2>1
  <2> QED BY <1>7, <1>8, <2>1, <2>2
<1>11. K(k) \in Behind(p, K(j))
  BY <1>2, <1>8, <1>10
<1>12. K(i) \in Behind(p, K(j))
  BY <1>9, <1>11, BehindIsTransitive
<1> QED BY <1>5, <1>12

-----------------------------------------------------------------------------
(* The invariant of the planner *)
PlanTypeOK ==
  /\ draft \in Seq(PlannedTask) /\ scaffolded \in BOOLEAN /\ at \in Nat \ {0} /\ grew \in BOOLEAN

(* Where the search has got to; elsewhere it has left nothing behind. *)
SearchInv ==
  /\ planStep = "visit" => Grounded(draft, visited) /\ IsCallChain(draft, path, visited)
  /\ planStep \notin {"visit", "cycle"} => path = <<>> /\ visited = {}

(* A pass that has changed nothing yet has found what it passed closed. *)
CloseInv ==
  planStep = "close" =>
    /\ Reaches(draft, reach)
    /\ ~grew => \A j \in 1 .. at - 1 : j <= Len(draft) => IsClosedAt(reach, draft[j].key)

(* The context tasks the loop has passed are in the plan. *)
ContextInv ==
  /\ planStep \in {"ask", "context"} => ~scaffolded
  /\ planStep = "context" => \A j \in 1 .. at - 1 : j <= Len(ContextScaffold) => HasCapability(draft, ContextScaffold[j].capability)

HasContext(p) ==
  \A i \in DOMAIN p : p[i].capability \in StrategyCaps =>
    \E m \in DOMAIN p : p[m].capability = Assembly /\ p[m].key \in p[i].depends_on

JudgedInv ==
  /\ planStep \in {"visit", "cycle", "close", "disorder", "planned"} => WellFormed(draft)
  /\ planStep \in {"close", "planned"} => Executable(draft)
  /\ planStep = "planned" => StagesInOrder(draft) /\ scaffolded
  /\ planStep \in {"visit", "close", "planned"} /\ scaffolded => HasContext(draft)

PlanInv == PlanTypeOK /\ SearchInv /\ CloseInv /\ ContextInv /\ JudgedInv /\ RefusalIsJustified

(* What a validation that begins starts from. *)
LEMMA ValidateStep ==
    ASSUME NEW p \in Seq(PlannedTask), Validate(p), path' = <<>>, visited' = {},
           scaffolded' \in BOOLEAN, at' \in Nat \ {0}, grew' \in BOOLEAN, scaffolded' => HasContext(p)
    PROVE  PlanInv'
<1>1. planStep' \in {"visit", "invalid"} /\ draft' = p /\ (planStep' = "visit" => WellFormed(p))
  BY DEF Validate
<1>2. Grounded(p, {}) /\ IsCallChain(p, <<>>, {})
  BY DEF Grounded, IsCallChain
<1>3. PlanTypeOK' /\ SearchInv'
  BY <1>1, <1>2 DEF PlanTypeOK, SearchInv
<1>4. CloseInv' /\ ContextInv' /\ JudgedInv' /\ RefusalIsJustified'
  BY <1>1 DEF CloseInv, ContextInv, JudgedInv, RefusalIsJustified
<1> QED BY <1>3, <1>4 DEF PlanInv

LEMMA PlanAttemptStep == PlanInv /\ PlanAttempt => PlanInv'
<1> SUFFICES ASSUME PlanInv, PlanAttempt PROVE PlanInv'
  OBVIOUS
<1>0. PlanTypeOK /\ path = <<>> /\ visited = {} /\ ~scaffolded
  BY DEF PlanInv, SearchInv, ContextInv, PlanAttempt
<1>1. scaffolded' = scaffolded /\ path' = path /\ visited' = visited /\ at' = at /\ grew' = grew
  BY DEF PlanAttempt
<1>2. CASE planStep' \in {"cannot_plan", "invalid"} /\ draft' = draft
  <2>1. PlanTypeOK' /\ SearchInv'
    BY <1>0, <1>1, <1>2 DEF PlanTypeOK, SearchInv
  <2>2. CloseInv' /\ ContextInv' /\ JudgedInv' /\ RefusalIsJustified'
    BY <1>2 DEF CloseInv, ContextInv, JudgedInv, RefusalIsJustified
  <2> QED BY <2>1, <2>2 DEF PlanInv
<1>3. CASE \E p \in GeneratedPlans : Validate(p)
  <2>1. PICK p \in GeneratedPlans : Validate(p)
    BY <1>3
  <2>2. p \in Seq(PlannedTask)
    BY PlanAssumption
  <2> QED BY <1>0, <1>1, <2>1, <2>2, ValidateStep DEF PlanTypeOK
<1> QED BY <1>2, <1>3 DEF PlanAttempt

LEMMA PlanRefusedStep == PlanInv /\ PlanRefused => PlanInv'
<1> SUFFICES ASSUME PlanInv, PlanRefused PROVE PlanInv'
  OBVIOUS
<1>1. /\ planStep' \in {"cannot_plan", "ask"} /\ draft' = <<>> /\ scaffolded' = FALSE /\ path' = <<>>
      /\ visited' = {} /\ at' = 1 /\ grew' = FALSE
  BY DEF PlanRefused
<1>a. <<>> \in Seq(PlannedTask) /\ 1 \in Nat \ {0} /\ FALSE \in BOOLEAN
  OBVIOUS
<1>b. PlanTypeOK'
  BY <1>1, <1>a, Zenon DEF PlanTypeOK
<1>2. SearchInv'
  BY <1>1 DEF SearchInv
<1>3. CloseInv' /\ ContextInv' /\ JudgedInv' /\ RefusalIsJustified'
  BY <1>1 DEF CloseInv, ContextInv, JudgedInv, RefusalIsJustified
<1> QED BY <1>b, <1>2, <1>3 DEF PlanInv

-----------------------------------------------------------------------------
(* A step of the search or of the closure keeps everything but what it works on. *)
LEMMA SearchKeeps ==
    ASSUME PlanInv, planStep = "visit", planStep' = "visit",
           UNCHANGED <<draft, scaffolded, at, grew>>,
           Grounded(draft, visited'), IsCallChain(draft, path', visited')
    PROVE  PlanInv'
<1>1. PlanTypeOK' /\ SearchInv'
  BY DEF PlanInv, PlanTypeOK, SearchInv
<1>2. JudgedInv'
  <2>1. WellFormed(draft) /\ (scaffolded => HasContext(draft))
    BY DEF PlanInv, JudgedInv
  <2> QED BY <2>1 DEF JudgedInv
<1>3. CloseInv' /\ ContextInv' /\ RefusalIsJustified'
  BY DEF CloseInv, ContextInv, RefusalIsJustified
<1> QED BY <1>1, <1>2, <1>3 DEF PlanInv

LEMMA VisitRootStep == PlanInv /\ VisitRoot => PlanInv'
<1> SUFFICES ASSUME PlanInv, VisitRoot PROVE PlanInv'
  OBVIOUS
<1>1. planStep = "visit" /\ planStep' = "visit" /\ visited' = visited /\ UNCHANGED <<draft, scaffolded, at, grew>>
  BY DEF VisitRoot, Searching, SearchLeaves
<1>2. Grounded(draft, visited)
  BY <1>1 DEF PlanInv, SearchInv
<1>3. PICK i \in DOMAIN draft : draft[i].key \notin visited /\ path' = <<draft[i].key>>
  BY DEF VisitRoot
<1>4. draft[i].key \in Keys(draft)
  BY DEF Keys
<1>5. IsCallChain(draft, path', visited)
  BY <1>3, <1>4 DEF IsCallChain
<1> QED BY <1>1, <1>2, <1>5, SearchKeeps

LEMMA VisitDependencyStep == PlanInv /\ VisitDependency => PlanInv'
<1> SUFFICES ASSUME PlanInv, VisitDependency PROVE PlanInv'
  OBVIOUS
<1>1. /\ planStep = "visit" /\ visited' = visited /\ UNCHANGED <<draft, scaffolded, at, grew>>
      /\ path # <<>>
  BY DEF VisitDependency, Searching, SearchLeaves
<1>2. Grounded(draft, visited) /\ IsCallChain(draft, path, visited) /\ WellFormed(draft) /\ draft \in Seq(PlannedTask)
  BY <1>1 DEF PlanInv, SearchInv, JudgedInv, PlanTypeOK
<1>3. PICK n \in DependsOn(draft, Top) \ visited :
        IF OnStack(n) THEN planStep' = "cycle" /\ path' = path
                      ELSE path' = Append(path, n) /\ planStep' = planStep
  BY DEF VisitDependency
<1> DEFINE m == Len(path)
<1>4. path \in Seq(Keys(draft)) /\ m \in Nat \ {0} /\ Top = path[m] /\ path[m] \in Keys(draft)
  BY <1>1, <1>2 DEF IsCallChain, Top
<1>5. CASE OnStack(n)
  <2>1. PICK i \in DOMAIN path : path[i] = n
    BY <1>5 DEF OnStack
  <2>2. n \in DependsOn(draft, path[Len(path)])
    BY <1>3, <1>4
  <2>3. ~Executable(draft)
    BY <1>1, <1>2, <2>1, <2>2, CallOnStackIsCycle
  <2>4. planStep' = "cycle"
    BY <1>3, <1>5
  <2>5. PlanTypeOK' /\ SearchInv'
    BY <1>1, <2>4 DEF PlanInv, PlanTypeOK, SearchInv
  <2>6. CloseInv' /\ ContextInv' /\ JudgedInv' /\ RefusalIsJustified'
    BY <1>1, <1>2, <2>3, <2>4 DEF CloseInv, ContextInv, JudgedInv, RefusalIsJustified
  <2> QED BY <2>5, <2>6 DEF PlanInv
<1>6. CASE ~OnStack(n)
  <2>1. path' = Append(path, n) /\ planStep' = "visit"
    BY <1>1, <1>3, <1>6
  <2>2. n \in Keys(draft) /\ n \notin visited /\ n \in DependsOn(draft, path[m])
    BY <1>2, <1>3, <1>4, DepsInPlan
  <2>3. /\ path' \in Seq(Keys(draft)) /\ Len(path') = m + 1 /\ path'[m + 1] = n
        /\ \A i \in 1 .. m : path'[i] = path[i]
    BY <1>4, <2>1, <2>2
  <2>4. \A i \in 1 .. m : path[i] \notin visited
    BY <1>2, <1>4 DEF IsCallChain
  <2>5. \A i \in 1 .. m - 1 : path[i + 1] \in DependsOn(draft, path[i])
    BY <1>2, <1>4 DEF IsCallChain
  <2>9. \A i, j \in 1 .. m : path[i] = path[j] => i = j
    BY <1>2, <1>4 DEF IsCallChain
  <2>10. \A i \in 1 .. m : path[i] # n
    BY <1>4, <1>6 DEF OnStack
  <2> HIDE DEF m
  <2>11. DOMAIN path' = 1 .. m + 1
    BY <1>4, <2>3
  <2>12. \A i \in 1 .. m + 1 : i = m + 1 \/ i \in 1 .. m
    BY <1>4
  <2>13. \A i, j \in DOMAIN path' : path'[i] = path'[j] => i = j
    BY <2>3, <2>9, <2>10, <2>11, <2>12
  <2>6. \A i \in DOMAIN path' : path'[i] \notin visited
    BY <1>4, <2>2, <2>3, <2>4
  <2>7. \A i \in 1 .. m : path'[i + 1] \in DependsOn(draft, path'[i])
    <3> TAKE i \in 1 .. m
    <3>1. CASE i = m
      BY <1>4, <2>2, <2>3, <3>1
    <3>2. CASE i \in 1 .. m - 1
      <4>1. i + 1 \in 1 .. m
        BY <1>4, <3>2
      <4> QED BY <2>3, <2>5, <3>2, <4>1
    <3> QED BY <1>4, <3>1, <3>2
  <2>8. IsCallChain(draft, path', visited)
    BY <1>4, <2>3, <2>6, <2>7, <2>13 DEF IsCallChain
  <2> QED BY <1>1, <1>2, <2>1, <2>8, SearchKeeps
<1> QED BY <1>5, <1>6

LEMMA VisitReturnsStep == PlanInv /\ VisitReturns => PlanInv'
<1> SUFFICES ASSUME PlanInv, VisitReturns PROVE PlanInv'
  OBVIOUS
<1>1. /\ planStep = "visit" /\ planStep' = "visit" /\ UNCHANGED <<draft, scaffolded, at, grew>> /\ path # <<>>
      /\ DependsOn(draft, Top) \subseteq visited /\ visited' = visited \cup {Top}
      /\ path' = SubSeq(path, 1, Len(path) - 1)
  BY DEF VisitReturns, Searching, SearchLeaves
<1>2. Grounded(draft, visited) /\ IsCallChain(draft, path, visited)
  BY <1>1 DEF PlanInv, SearchInv
<1> DEFINE m == Len(path)
<1>3. path \in Seq(Keys(draft)) /\ m \in Nat \ {0} /\ Top = path[m] /\ Top \in Keys(draft) /\ Top \notin visited
  BY <1>1, <1>2 DEF IsCallChain, Top
<1>4. Grounded(draft, visited')
  BY <1>1, <1>2, <1>3, GroundedGrows
<1>5. path' \in Seq(Keys(draft)) /\ Len(path') = m - 1 /\ \A i \in 1 .. m - 1 : path'[i] = path[i]
  <2>1. m - 1 \in Int /\ \A i \in 1 .. m - 1 : path[i] \in Keys(draft)
    BY <1>3
  <2>2. path' = SubSeq(path, 1, m - 1)
    BY <1>1
  <2>3. path' \in Seq(Keys(draft))
    BY <2>1, <2>2, SubSeqProperties
  <2>4. Len(path') = IF 1 <= m - 1 THEN (m - 1) - 1 + 1 ELSE 0
    BY <2>1, <2>2, SubSeqProperties
  <2>5. \A i \in 1 .. (m - 1) - 1 + 1 : path'[i] = path[1 + i - 1]
    BY <2>1, <2>2, SubSeqProperties
  <2> HIDE DEF m
  <2> QED BY <1>3, <2>3, <2>4, <2>5
<1>6. DOMAIN path = 1 .. m
  BY <1>3
<1>7. /\ \A i \in 1 .. m : path[i] \notin visited
      /\ \A i, j \in 1 .. m : path[i] = path[j] => i = j
      /\ \A i \in 1 .. m - 1 : path[i + 1] \in DependsOn(draft, path[i])
  BY <1>2, <1>6 DEF IsCallChain
<1> HIDE DEF m
<1>8. \A i \in 1 .. m - 1 : i \in 1 .. m /\ i # m
  BY <1>3
<1>9. m \in 1 .. m
  BY <1>3
<1>10. DOMAIN path' = 1 .. m - 1
  BY <1>3, <1>5
<1>11. \A i \in 1 .. m - 1 : path'[i] \notin visited'
  BY <1>1, <1>3, <1>5, <1>7, <1>8, <1>9
<1>12. \A i, j \in 1 .. m - 1 : path'[i] = path'[j] => i = j
  BY <1>5, <1>7, <1>8
<1>13. \A i \in 1 .. (m - 1) - 1 : path'[i + 1] \in DependsOn(draft, path'[i])
  <2> TAKE i \in 1 .. (m - 1) - 1
  <2>1. i \in 1 .. m - 1 /\ i + 1 \in 1 .. m - 1
    BY <1>3
  <2> QED BY <1>5, <1>7, <2>1
<1>14. IsCallChain(draft, path', visited')
  BY <1>5, <1>10, <1>11, <1>12, <1>13 DEF IsCallChain
<1> QED BY <1>1, <1>4, <1>14, SearchKeeps

-----------------------------------------------------------------------------
(* A plan that has passed goes to the scaffolds, or out. *)
LEMMA ValidatedStep ==
    ASSUME PlanInv, planStep \in {"visit", "close"}, planStep' = Validated,
           Executable(draft), StagesInOrder(draft), UNCHANGED <<draft, scaffolded>>,
           path' = <<>>, visited' = {}, at' = 1, grew' \in BOOLEAN
    PROVE  PlanInv'
<1>1. planStep' = IF scaffolded THEN "planned" ELSE "context"
  BY DEF Validated
<1>2. planStep' \in {"planned", "context"} /\ (planStep' = "planned" => scaffolded) /\ (planStep' = "context" => ~scaffolded)
  BY <1>1
<1>3. WellFormed(draft) /\ (scaffolded => HasContext(draft))
  BY DEF PlanInv, JudgedInv
<1>4. PlanTypeOK' /\ SearchInv'
  BY <1>2 DEF PlanInv, PlanTypeOK, SearchInv
<1>5. JudgedInv'
  BY <1>2, <1>3 DEF JudgedInv
<1>6. CloseInv' /\ ContextInv' /\ RefusalIsJustified'
  BY <1>2 DEF CloseInv, ContextInv, RefusalIsJustified
<1> QED BY <1>4, <1>5, <1>6 DEF PlanInv

LEMMA OrderBeginsStep == PlanInv /\ OrderBegins => PlanInv'
<1> SUFFICES ASSUME PlanInv, OrderBegins PROVE PlanInv'
  OBVIOUS
<1>1. /\ planStep = "visit" /\ UNCHANGED <<draft, scaffolded>> /\ path' = <<>> /\ visited' = {} /\ at' = 1 /\ grew' = FALSE
      /\ Keys(draft) \subseteq visited
  BY DEF OrderBegins, Searching
<1>2. Grounded(draft, visited) /\ WellFormed(draft) /\ draft \in Seq(PlannedTask) /\ (scaffolded => HasContext(draft))
  BY <1>1 DEF PlanInv, SearchInv, JudgedInv, PlanTypeOK
<1>3. Executable(draft)
  BY <1>1, <1>2 DEF Grounded, Executable
<1>4. CASE (\A i, j \in Present(draft) : i = j) /\ planStep' = Validated
  <2>1. \A i, j \in Present(draft) : ~(i < j)
    <3>1. Present(draft) \subseteq Nat
      BY PlanAssumption DEF Present
    <3> QED BY <1>4, <3>1
  <2>2. StagesInOrder(draft)
    BY <2>1 DEF StagesInOrder
  <2> QED BY <1>1, <1>3, <1>4, <2>2, ValidatedStep
<1>5. CASE planStep' = "close" /\ reach' = [k \in Keys(draft) |-> DependsOn(draft, k)]
  <2>1. \A k \in Keys(draft) : DependsOn(draft, k) \subseteq Keys(draft) /\ DependsOn(draft, k) \subseteq Behind(draft, k)
    BY <1>2, DepsInPlan, DepsAreBehind
  <2>2. Reaches(draft, reach')
    BY <1>5, <2>1 DEF Reaches
  <2>a. draft \in Seq(PlannedTask) /\ scaffolded \in BOOLEAN /\ 1 \in Nat \ {0} /\ FALSE \in BOOLEAN
    BY DEF PlanInv, PlanTypeOK
  <2>b. PlanTypeOK'
    BY <1>1, <2>a, Zenon DEF PlanTypeOK
  <2>3. SearchInv'
    BY <1>1, <1>5 DEF SearchInv
  <2>4. \A j \in 1 .. 1 - 1 : FALSE
    OBVIOUS
  <2>5. CloseInv'
    BY <1>1, <2>2, <2>4 DEF CloseInv
  <2>6. ContextInv' /\ JudgedInv' /\ RefusalIsJustified'
    BY <1>1, <1>2, <1>3, <1>5 DEF ContextInv, JudgedInv, RefusalIsJustified
  <2> QED BY <2>b, <2>3, <2>5, <2>6 DEF PlanInv
<1> QED BY <1>4, <1>5 DEF OrderBegins

(* While the closure is computed everything else stands still. *)
LEMMA CloseKeeps ==
    ASSUME PlanInv, planStep = "close", planStep' = "close", UNCHANGED <<draft, scaffolded, path, visited>>,
           at' \in Nat \ {0}, grew' \in BOOLEAN, CloseInv'
    PROVE  PlanInv'
<1>1. PlanTypeOK' /\ SearchInv'
  BY DEF PlanInv, PlanTypeOK, SearchInv
<1>2. WellFormed(draft) /\ Executable(draft) /\ (scaffolded => HasContext(draft))
  BY DEF PlanInv, JudgedInv
<1>3. ContextInv' /\ JudgedInv' /\ RefusalIsJustified'
  BY <1>2 DEF ContextInv, JudgedInv, RefusalIsJustified
<1> QED BY <1>1, <1>3 DEF PlanInv

LEMMA PropagateStep == PlanInv /\ Propagate => PlanInv'
<1> SUFFICES ASSUME PlanInv, Propagate PROVE PlanInv'
  OBVIOUS
<1> DEFINE k == draft[at].key
           new == reach[k] \cup UNION {reach[d] : d \in reach[k]}
<1>1. /\ planStep = "close" /\ planStep' = "close" /\ UNCHANGED <<draft, scaffolded, path, visited>> /\ at' = at + 1
      /\ at <= Len(draft) /\ reach' = [reach EXCEPT ![k] = new] /\ grew' = (grew \/ new # reach[k])
  BY DEF Propagate
<1>2. draft \in Seq(PlannedTask) /\ at \in Nat \ {0} /\ grew \in BOOLEAN /\ Reaches(draft, reach)
  BY <1>1 DEF PlanInv, PlanTypeOK, CloseInv
<1>3. k \in Keys(draft)
  <2>1. at \in DOMAIN draft
    BY <1>1, <1>2
  <2> QED BY <2>1 DEF Keys
<1>4. Reaches(draft, reach')
  BY <1>1, <1>2, <1>3, PropagateReaches
<1>5. ASSUME ~grew'
      PROVE  \A j \in 1 .. at' - 1 : j <= Len(draft) => IsClosedAt(reach', draft[j].key)
  <2>1. ~grew /\ new = reach[k]
    BY <1>1, <1>5
  <2>2. reach' = reach
    BY <1>1, <1>2, <1>3, <2>1 DEF Reaches
  <2>3. IsClosedAt(reach, k)
    BY <2>1 DEF IsClosedAt
  <2>4. \A j \in 1 .. at - 1 : j <= Len(draft) => IsClosedAt(reach, draft[j].key)
    BY <1>1, <2>1 DEF PlanInv, CloseInv
  <2>5. \A j \in 1 .. at' - 1 : j = at \/ j \in 1 .. at - 1
    BY <1>1, <1>2
  <2> QED BY <2>2, <2>3, <2>4, <2>5
<1>6. at' \in Nat \ {0}
  BY <1>1, <1>2
<1>7. CloseInv'
  BY <1>1, <1>4, <1>5 DEF CloseInv
<1>8. grew' \in BOOLEAN
  BY <1>1, Zenon
<1> QED BY <1>1, <1>6, <1>7, <1>8, CloseKeeps

LEMMA NextPassStep == PlanInv /\ NextPass => PlanInv'
<1> SUFFICES ASSUME PlanInv, NextPass PROVE PlanInv'
  OBVIOUS
<1>1. /\ planStep = "close" /\ planStep' = "close" /\ UNCHANGED <<draft, scaffolded, path, visited, reach>>
      /\ at' = 1 /\ grew' = FALSE
  BY DEF NextPass
<1>2. Reaches(draft, reach)
  BY <1>1 DEF PlanInv, CloseInv
<1>3. \A j \in 1 .. 1 - 1 : FALSE
  OBVIOUS
<1>4. CloseInv'
  BY <1>1, <1>2, <1>3 DEF CloseInv
<1>5. at' \in Nat \ {0}
  BY <1>1
<1>6. grew' \in BOOLEAN
  BY <1>1, Zenon
<1> QED BY <1>1, <1>4, <1>5, <1>6, CloseKeeps

LEMMA OrderEndsStep == PlanInv /\ OrderEnds => PlanInv'
<1> SUFFICES ASSUME PlanInv, OrderEnds PROVE PlanInv'
  OBVIOUS
<1> DEFINE InOrder == \A e \in Adjacent(draft) :
                        KeyForCap(draft, SafetyOrder[e[1]]) \in reach[KeyForCap(draft, SafetyOrder[e[2]])]
<1>1. /\ planStep = "close" /\ UNCHANGED <<draft, scaffolded, path, visited, grew>> /\ at' = 1
      /\ at > Len(draft) /\ ~grew /\ planStep' = IF InOrder THEN Validated ELSE "disorder"
  BY DEF OrderEnds
<1>2. /\ draft \in Seq(PlannedTask) /\ at \in Nat \ {0} /\ grew \in BOOLEAN /\ Reaches(draft, reach)
      /\ WellFormed(draft) /\ Executable(draft) /\ path = <<>> /\ visited = {}
  BY <1>1 DEF PlanInv, PlanTypeOK, CloseInv, JudgedInv, SearchInv
<1>3. \A j \in 1 .. at - 1 : j <= Len(draft) => IsClosedAt(reach, draft[j].key)
  BY <1>1 DEF PlanInv, CloseInv
<1>4. \A j \in DOMAIN draft : j \in 1 .. at - 1 /\ j <= Len(draft)
  BY <1>1, <1>2
<1>5. \A k \in Keys(draft) : IsClosedAt(reach, k)
  BY <1>3, <1>4 DEF Keys
<1>6. \A k \in Keys(draft) : reach[k] = Behind(draft, k)
  BY <1>2, <1>5, ClosureIsBehind
<1>7. ASSUME NEW e \in Adjacent(draft)
      PROVE  /\ e[1] \in Present(draft) /\ e[2] \in Present(draft) /\ e[1] < e[2]
             /\ reach[KeyForCap(draft, SafetyOrder[e[2]])] = Behind(draft, KeyForCap(draft, SafetyOrder[e[2]]))
  <2>1. e[1] \in Present(draft) /\ e[2] \in Present(draft) /\ e[1] < e[2]
    BY <1>7 DEF Adjacent
  <2>2. HasCapability(draft, SafetyOrder[e[2]])
    BY <2>1 DEF Present
  <2>3. KeyForCap(draft, SafetyOrder[e[2]]) \in Keys(draft)
    BY <1>2, <2>2, KeyOfCap DEF Keys
  <2> QED BY <1>6, <2>1, <2>3
<1>8. CASE InOrder
  <2>1. StagesInOrder(draft)
    BY <1>7, <1>8, AdjacentSuffices
  <2>2. planStep' = Validated
    BY <1>1, <1>8
  <2> HIDE DEF InOrder
  <2> QED BY <1>1, <1>2, <2>1, <2>2, ValidatedStep
<1>9. CASE ~InOrder
  <2>1. PICK e \in Adjacent(draft) :
          KeyForCap(draft, SafetyOrder[e[1]]) \notin reach[KeyForCap(draft, SafetyOrder[e[2]])]
    BY <1>9
  <2>2. ~StagesInOrder(draft)
    BY <1>7, <2>1 DEF StagesInOrder
  <2>3. planStep' = "disorder"
    BY <1>1, <1>9
  <2> HIDE DEF InOrder
  <2>4. PlanTypeOK' /\ SearchInv'
    BY <1>1, <1>2, <2>3 DEF PlanInv, PlanTypeOK, SearchInv
  <2>5. CloseInv' /\ ContextInv' /\ JudgedInv' /\ RefusalIsJustified'
    BY <1>1, <1>2, <2>2, <2>3 DEF CloseInv, ContextInv, JudgedInv, RefusalIsJustified
  <2> QED BY <2>4, <2>5 DEF PlanInv
<1> QED BY <1>8, <1>9

-----------------------------------------------------------------------------
(* The scaffolds *)
LEMMA AppendTask ==
    ASSUME NEW p \in Seq(PlannedTask), NEW t \in PlannedTask
    PROVE  /\ Append(p, t) \in Seq(PlannedTask) /\ DOMAIN Append(p, t) = 1 .. Len(p) + 1
           /\ Append(p, t)[Len(p) + 1] = t
           /\ \A i \in DOMAIN p : i \in DOMAIN Append(p, t) /\ Append(p, t)[i] = p[i]
           /\ \A i \in DOMAIN Append(p, t) : i \in DOMAIN p \/ i = Len(p) + 1
           /\ \A c : HasCapability(p, c) => HasCapability(Append(p, t), c)
           /\ HasCapability(Append(p, t), t.capability)
<1> DEFINE q == Append(p, t)
<1>1. /\ q \in Seq(PlannedTask) /\ DOMAIN q = 1 .. Len(p) + 1 /\ q[Len(p) + 1] = t /\ Len(p) \in Nat
      /\ \A i \in DOMAIN p : i \in DOMAIN q /\ q[i] = p[i]
      /\ \A i \in DOMAIN q : i \in DOMAIN p \/ i = Len(p) + 1
  OBVIOUS
<1> HIDE DEF q
<1>2. \A c : HasCapability(p, c) => HasCapability(q, c)
  BY <1>1 DEF HasCapability
<1>3. Len(p) + 1 \in DOMAIN q
  BY <1>1
<1>4. HasCapability(q, t.capability)
  BY <1>1, <1>3 DEF HasCapability
<1> QED BY <1>1, <1>2, <1>4 DEF q

(* A task that is no strategy's leaves the others their context. *)
LEMMA AppendContext ==
    ASSUME NEW p \in Seq(PlannedTask), NEW t \in PlannedTask, t.capability \notin StrategyCaps, HasContext(p)
    PROVE  HasContext(Append(p, t))
<1> DEFINE q == Append(p, t)
<1>1. /\ q[Len(p) + 1] = t
      /\ \A i \in DOMAIN p : i \in DOMAIN q /\ q[i] = p[i]
      /\ \A i \in DOMAIN q : i \in DOMAIN p \/ i = Len(p) + 1
  BY AppendTask
<1> HIDE DEF q
<1>2. SUFFICES ASSUME NEW i \in DOMAIN q, q[i].capability \in StrategyCaps
               PROVE  \E m \in DOMAIN q : q[m].capability = Assembly /\ q[m].key \in q[i].depends_on
  BY DEF HasContext, q
<1>3. i \in DOMAIN p /\ q[i] = p[i]
  BY <1>1, <1>2
<1>4. PICK m \in DOMAIN p : p[m].capability = Assembly /\ p[m].key \in p[i].depends_on
  BY <1>2, <1>3 DEF HasContext
<1> QED BY <1>1, <1>3, <1>4

LEMMA TaskFields ==
    ASSUME NEW t \in PlannedTask
    PROVE  t.key \in STRING /\ t.capability \in STRING /\ t.depends_on \subseteq STRING
BY DEF PlannedTask

LEMMA TaskMade ==
    ASSUME NEW k \in STRING, NEW c \in STRING, NEW d, d \subseteq STRING
    PROVE  [key |-> k, capability |-> c, depends_on |-> d] \in PlannedTask
BY DEF PlannedTask

LEMMA KeysAreStrings == \A p \in Seq(PlannedTask) : Keys(p) \subseteq STRING
<1> SUFFICES ASSUME NEW p \in Seq(PlannedTask), NEW i \in DOMAIN p PROVE p[i].key \in STRING
  BY DEF Keys
<1>1. p[i] \in PlannedTask
  OBVIOUS
<1> QED BY <1>1, TaskFields

LEMMA SynthesisKeeps ==
    ASSUME NEW p \in Seq(PlannedTask), HasContext(p)
    PROVE  WithSynthesis(p) \in Seq(PlannedTask) /\ HasContext(WithSynthesis(p))
<1> DEFINE r == [key |-> "adhoc_portfolio", capability |-> "portfolio_read", depends_on |-> {}]
           read == IF HasCapability(p, "portfolio_read") THEN p ELSE Append(p, r)
           a == [key |-> "adhoc_synthesis", capability |-> "adhoc_synthesis", depends_on |-> Keys(read)]
<1>0. "adhoc_portfolio" \in STRING /\ "portfolio_read" \in STRING /\ "adhoc_synthesis" \in STRING
  BY PlanAssumption
<1>1. r \in PlannedTask /\ r.capability \notin StrategyCaps
  BY <1>0, TaskMade, PlanAssumption
<1>2. read \in Seq(PlannedTask) /\ HasContext(read)
  BY <1>1, AppendTask, AppendContext
<1>3. WithSynthesis(p) = IF HasCapability(read, "adhoc_synthesis") THEN read ELSE Append(read, a)
  BY DEF WithSynthesis
<1> HIDE DEF read
<1>4. Keys(read) \subseteq STRING
  BY <1>2, KeysAreStrings
<1>5. a \in PlannedTask /\ a.capability \notin StrategyCaps
  BY <1>0, <1>4, TaskMade, PlanAssumption
<1> HIDE DEF a
<1>6. Append(read, a) \in Seq(PlannedTask) /\ HasContext(Append(read, a))
  BY <1>2, <1>5, AppendTask, AppendContext
<1> QED BY <1>2, <1>3, <1>6

LEMMA KeyIsString ==
    ASSUME NEW p \in Seq(PlannedTask), NEW c, HasCapability(p, c)
    PROVE  KeyForCap(p, c) \in STRING
BY KeyOfCap, KeysAreStrings DEF Keys

(* Once the assembly task is there the strategy tasks are linked to it. *)
LEMMA LinkedHasContext ==
    ASSUME NEW p \in Seq(PlannedTask), HasCapability(p, Assembly)
    PROVE  Linked(p) \in Seq(PlannedTask) /\ HasContext(Linked(p))
<1> DEFINE key == KeyForCap(p, Assembly)
           q == Linked(p)
<1>1. key \in STRING
  BY KeyIsString
<1>2. PICK m \in DOMAIN p : p[m].capability = Assembly /\ key = p[m].key
  BY KeyOfCap
<1> HIDE DEF key
<1>3. DOMAIN q = DOMAIN p /\ \A i \in DOMAIN p :
        q[i] = IF p[i].capability \in StrategyCaps THEN [p[i] EXCEPT !.depends_on = p[i].depends_on \cup {key}] ELSE p[i]
  BY DEF Linked, key
<1>4. \A i \in DOMAIN p : p[i] \in PlannedTask
  OBVIOUS
<1>5. ASSUME NEW i \in DOMAIN p
      PROVE  /\ q[i] \in PlannedTask /\ q[i].key = p[i].key /\ q[i].capability = p[i].capability
             /\ p[i].capability \in StrategyCaps => key \in q[i].depends_on
  <2>1. p[i] \in PlannedTask
    BY <1>4, <1>5
  <2>2. q[i] = IF p[i].capability \in StrategyCaps THEN [p[i] EXCEPT !.depends_on = p[i].depends_on \cup {key}] ELSE p[i]
    BY <1>3, <1>5
  <2> HIDE DEF q
  <2> QED BY <1>1, <2>1, <2>2 DEF PlannedTask
<1>6. q \in Seq(PlannedTask)
  <2>1. Len(p) \in Nat /\ DOMAIN p = 1 .. Len(p)
    OBVIOUS
  <2>2. q = [i \in 1 .. Len(p) |-> q[i]]
    BY <2>1 DEF Linked
  <2> HIDE DEF q
  <2>3. \A i \in 1 .. Len(p) : q[i] \in PlannedTask
    BY <1>5, <2>1
  <2> QED BY <2>1, <2>2, <2>3
<1> HIDE DEF q
<1>7. HasContext(q)
  BY <1>2, <1>3, <1>5 DEF HasContext
<1> QED BY <1>6, <1>7 DEF q

LEMMA AddContextTaskStep == PlanInv /\ AddContextTask => PlanInv'
<1> SUFFICES ASSUME PlanInv, AddContextTask PROVE PlanInv'
  OBVIOUS
<1> DEFINE t == ContextScaffold[at]
           added == [t EXCEPT !.depends_on = {ProviderKey(draft, TaskOf(ContextScaffold, k).capability) : k \in t.depends_on}]
<1>1. /\ planStep = "context" /\ planStep' = "context" /\ UNCHANGED <<scaffolded, path, visited, reach, grew>>
      /\ at <= Len(ContextScaffold) /\ at' = at + 1
      /\ draft' = IF HasCapability(draft, t.capability) THEN draft ELSE Append(draft, added)
  BY DEF AddContextTask, Scaffolding
<1>2. draft \in Seq(PlannedTask) /\ at \in Nat \ {0} /\ grew \in BOOLEAN /\ scaffolded \in BOOLEAN
  BY DEF PlanInv, PlanTypeOK
<1>3. ContextScaffold \in Seq(PlannedTask) /\ at \in DOMAIN ContextScaffold
  BY <1>1, <1>2, PlanAssumption
<1>4. t \in PlannedTask
  BY <1>3
<1>5. ASSUME NEW k \in t.depends_on
      PROVE  ProviderKey(draft, TaskOf(ContextScaffold, k).capability) \in STRING
  <2>1. \E i \in DOMAIN ContextScaffold : ContextScaffold[i].key = k
    BY <1>3, <1>5, PlanAssumption
  <2>2. PICK i : i = CHOOSE j \in DOMAIN ContextScaffold : ContextScaffold[j].key = k
    OBVIOUS
  <2>3. i \in DOMAIN ContextScaffold /\ TaskOf(ContextScaffold, k) = ContextScaffold[i]
    BY <2>1, <2>2 DEF TaskOf
  <2>4. HasCapability(ContextScaffold, TaskOf(ContextScaffold, k).capability)
    BY <2>3 DEF HasCapability
  <2> QED BY <1>2, <1>3, <2>4, KeyIsString DEF ProviderKey
<1>6. added \in PlannedTask /\ added.capability = t.capability
  <2>1. {ProviderKey(draft, TaskOf(ContextScaffold, k).capability) : k \in t.depends_on} \in SUBSET STRING
    BY <1>5
  <2> QED BY <1>4, <2>1 DEF PlannedTask
<1> HIDE DEF added
<1>7. /\ draft' \in Seq(PlannedTask) /\ HasCapability(draft', t.capability)
      /\ \A c : HasCapability(draft, c) => HasCapability(draft', c)
  BY <1>1, <1>2, <1>6, AppendTask
<1>8. \A j \in 1 .. at' - 1 : j = at \/ j \in 1 .. at - 1
  BY <1>1, <1>2
<1>9. \A j \in 1 .. at - 1 : j <= Len(ContextScaffold) => HasCapability(draft, ContextScaffold[j].capability)
  BY <1>1 DEF PlanInv, ContextInv
<1>10. ContextInv'
  BY <1>1, <1>7, <1>8, <1>9 DEF PlanInv, ContextInv
<1>11. at' \in Nat \ {0}
  BY <1>1, <1>2
<1>12. PlanTypeOK' /\ SearchInv'
  BY <1>1, <1>2, <1>7, <1>11 DEF PlanInv, PlanTypeOK, SearchInv
<1>13. CloseInv' /\ JudgedInv' /\ RefusalIsJustified'
  BY <1>1 DEF CloseInv, JudgedInv, RefusalIsJustified
<1> QED BY <1>10, <1>12, <1>13 DEF PlanInv

LEMMA ScaffoldEndsStep == PlanInv /\ ScaffoldEnds => PlanInv'
<1> SUFFICES ASSUME PlanInv, ScaffoldEnds PROVE PlanInv'
  OBVIOUS
<1> DEFINE research == IF NeedsContext THEN Linked(draft) ELSE draft
<1>1. /\ planStep = "context" /\ scaffolded' = TRUE /\ at' = 1 /\ UNCHANGED <<path, visited, reach, grew>>
      /\ NeedsContext => at > Len(ContextScaffold)
  BY DEF ScaffoldEnds, Scaffolding
<1>2. draft \in Seq(PlannedTask) /\ at \in Nat \ {0} /\ grew \in BOOLEAN /\ path = <<>> /\ visited = {}
  BY <1>1 DEF PlanInv, PlanTypeOK, SearchInv
<1>3. PICK p \in {research, WithSynthesis(research)} : Validate(p)
  BY DEF ScaffoldEnds
<1>4. research \in Seq(PlannedTask) /\ HasContext(research)
  <2>1. CASE NeedsContext
    <3>1. Len(ContextScaffold) \in Nat \ {0}
      BY PlanAssumption
    <3>2. Len(ContextScaffold) \in 1 .. at - 1
      BY <1>1, <1>2, <2>1, <3>1
    <3>3. HasCapability(draft, Assembly)
      BY <1>1, <3>1, <3>2 DEF PlanInv, ContextInv, Assembly
    <3> QED BY <1>2, <2>1, <3>3, LinkedHasContext
  <2>2. CASE ~NeedsContext
    BY <1>2, <2>2 DEF NeedsContext, HasContext
  <2> QED BY <2>1, <2>2
<1> HIDE DEF research
<1>5. p \in Seq(PlannedTask) /\ HasContext(p)
  BY <1>3, <1>4, SynthesisKeeps
<1>6. at' \in Nat \ {0} /\ path' = <<>> /\ visited' = {}
  BY <1>1, <1>2
<1>7. scaffolded' \in BOOLEAN /\ grew' \in BOOLEAN
  BY <1>1, <1>2, Zenon
<1> QED BY <1>3, <1>5, <1>6, <1>7, ValidateStep

-----------------------------------------------------------------------------
(* For every set of plans a model may come up with, however many tasks they have: a plan
   that is accepted can be executed, has its safety stages in order and its strategy tasks
   behind the assembled context, and a plan is refused for a cycle or for the order of its
   stages only if it has one or has them out of order (generate_plan, _validate,
   _assert_acyclic, _assert_safety_order, ensure_research_scaffold, ensure_adhoc_scaffold). *)
THEOREM PlansJudgedRight == PlanCheckSpec => []PlanVerdictIsRight
<1>1. PlanCheckInit => PlanInv
  <2> SUFFICES ASSUME PlanCheckInit PROVE PlanInv
    OBVIOUS
  <2>0. <<>> \in Seq(PlannedTask) /\ 1 \in Nat \ {0} /\ FALSE \in BOOLEAN
    OBVIOUS
  <2>1. PlanTypeOK
    BY <2>0, Zenon DEF PlanCheckInit, PlanTypeOK
  <2>2. SearchInv /\ CloseInv /\ ContextInv /\ JudgedInv /\ RefusalIsJustified
    BY DEF PlanCheckInit, SearchInv, CloseInv, ContextInv, JudgedInv, RefusalIsJustified
  <2> QED BY <2>1, <2>2 DEF PlanInv
<1>2. PlanInv /\ [PlanCheckNext]_planVars => PlanInv'
  <2> SUFFICES ASSUME PlanInv, [PlanCheckNext]_planVars PROVE PlanInv'
    OBVIOUS
  <2>1. CASE PlanCheckNext
    BY <2>1, PlanAttemptStep, PlanRefusedStep, VisitRootStep, VisitDependencyStep, VisitReturnsStep,
       OrderBeginsStep, PropagateStep, NextPassStep, OrderEndsStep, AddContextTaskStep, ScaffoldEndsStep
       DEF PlanCheckNext
  <2>2. CASE UNCHANGED planVars
    BY <2>2 DEF planVars, PlanInv, PlanTypeOK, SearchInv, CloseInv, ContextInv, JudgedInv, RefusalIsJustified
  <2> QED BY <2>1, <2>2
<1>3. PlanInv => PlanVerdictIsRight
  <2> SUFFICES ASSUME PlanInv, planStep = "planned"
               PROVE  \A i \in DOMAIN draft : draft[i].capability \in StrategyCaps =>
                        \E c \in draft[i].depends_on : TaskOf(draft, c).capability = Assembly
    BY DEF PlanInv, JudgedInv, PlanVerdictIsRight, AcceptedPlanIsSound
  <2>1. draft \in Seq(PlannedTask) /\ WellFormed(draft) /\ HasContext(draft)
    BY DEF PlanInv, PlanTypeOK, JudgedInv
  <2> SUFFICES ASSUME NEW i \in DOMAIN draft, draft[i].capability \in StrategyCaps
               PROVE  \E c \in draft[i].depends_on : TaskOf(draft, c).capability = Assembly
    OBVIOUS
  <2>2. PICK m \in DOMAIN draft : draft[m].capability = Assembly /\ draft[m].key \in draft[i].depends_on
    BY <2>1 DEF HasContext
  <2>3. TaskOf(draft, draft[m].key) = draft[m]
    BY <2>1, TaskOfKey
  <2> QED BY <2>2, <2>3
<1> QED BY <1>1, <1>2, <1>3, PTL DEF PlanCheckSpec
=============================================================================
