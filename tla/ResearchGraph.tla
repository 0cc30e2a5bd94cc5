---------------------------- MODULE ResearchGraph ----------------------------
(* The research graph: one root AgentRun, the LangGraph executor thread that
   drives it node by node -- two of them, when two requests to resume it overlap --
   the checkpoint LangGraph keeps, and the Strategy, StrategyVersion,
   BacktestResult and ApprovalRequest rows that _persist_strategy_progress writes
   after each node.  Humans trigger, pause, resume, cancel and retry the run; a
   process may die.

   A strategy idea is the number of the strategy_generator output that proposed
   it, so "these are the legs of that idea" is an equation between numbers. Row
   identifiers are positions in the sequences of db; 0 stands for None.        *)
EXTENDS Naturals, Sequences

CONSTANTS
  MaxRetries,      \* MAX_CODE_VALIDATION_RETRIES
  MaxRejections,   \* MAX_REJECTIONS_BEFORE_ESCALATION
  StepLimit,       \* LangGraph's recursion_limit: the code sets none of its own
  MaxResumes,      \* bound: requests to resume the run in flight at once ...
  OverlapNodes,    \* ... more than one of them where the run paused before one of these
  MaxPauses,       \* bound: how often the run is paused
  MaxIdeas,        \* bound: after so many ideas strategy_generator gets no answer
  AssetClasses     \* bound: what strategy_generator may propose

ASSUME BoundsAssumption ==
  /\ MaxRetries \in Nat \ {0}
  /\ MaxRejections \in Nat \ {0}
  /\ StepLimit \in Nat \ {0}
  /\ MaxResumes \in Nat /\ MaxPauses \in Nat
  /\ MaxIdeas \in Nat \ {0}
  /\ AssetClasses \subseteq {"Equity", "F&O"}

VARIABLES
  account,   \* a Paper account is seeded
  root,      \* the root AgentRun row: status, pause_requested, tracking_snapshot
  cp,        \* the graph state in LangGraph's last checkpoint of the thread_id
  x,         \* the executor threads
  db,        \* the rows the run writes
  task,      \* what the organisation's strategy_research task was given
  resuming,  \* how many requests to resume have found the run Paused
  pauses,
  overlapped \* history: a run was resumed that was not Paused any more

vars == <<account, root, cp, x, db, task, resuming, pauses, overlapped>>

Executors == {"first", "second"}

Nodes == {"ceo_agent", "market_analyst", "strategy_generator", "options_strategy_agent",
          "python_code_generator", "compliance", "python_validator", "backtesting", "evaluator",
          "memory_ingest", "optimization", "risk_manager", "deployment"}

(* TradingOSGraphState: only what the routers, the nodes' own preconditions and
   the persistence read. *)
GraphState ==
  [next |-> "ceo_agent", idea |-> 0, asset |-> "none", legs |-> 0, verno |-> 0, comp |-> "none",
   val |-> "none", retries |-> 0, verdict |-> "none", rej |-> 0, opt |-> "none",
   risk |-> "none", rec |-> "none"]

(* _StrategyTracking: local to the thread, not part of the graph state. *)
Tracking == [sid |-> 0, result |-> 0, legs |-> 0]

EmptyDb == [strategies |-> <<>>, versions |-> <<>>, results |-> <<>>, approvals |-> <<>>,
            typed |-> FALSE]

Idle == [phase |-> "idle", node |-> "none", g |-> GraphState, tr |-> Tracking, steps |-> 0,
         org |-> FALSE]

-----------------------------------------------------------------------------
(* The routers. *)

RouteAfterCompliance(g) == IF g.comp = "Block" THEN "END" ELSE "python_validator"

RouteAfterValidation(g) ==
  IF g.val = "Pass" THEN "backtesting"
  ELSE IF g.retries >= MaxRetries THEN "END" ELSE "python_code_generator"

RouteAfterEvaluation(g) == IF g.verdict = "PASS" THEN "optimization" ELSE "memory_ingest"

RouteAfterMemoryIngest(g) ==
  IF g.rej >= MaxRejections THEN "ceo_agent" ELSE "strategy_generator"

(* build_graph: the edges; each node's result decides through its router. *)
Goto(g, node) ==
  LET target ==
        CASE node = "ceo_agent" -> "market_analyst"
          [] node = "market_analyst" -> "strategy_generator"
          [] node = "strategy_generator" -> "options_strategy_agent"
          [] node = "options_strategy_agent" -> "python_code_generator"
          [] node = "python_code_generator" -> "compliance"
          [] node = "compliance" -> RouteAfterCompliance(g)
          [] node = "python_validator" -> RouteAfterValidation(g)
          [] node = "backtesting" -> "evaluator"
          [] node = "evaluator" -> RouteAfterEvaluation(g)
          [] node = "memory_ingest" -> RouteAfterMemoryIngest(g)
          [] node = "optimization" -> "risk_manager"
          [] node = "risk_manager" -> "deployment"
          [] node = "deployment" -> "END"
  IN [g EXCEPT !.next = target]

-----------------------------------------------------------------------------
(* The nodes: the set of states each may return.  An LLM's or a backtest's
   answer is a choice; a model failure inside ceo, compliance, evaluator, risk
   manager and deployment is answered by the code's own fallback text. *)

CeoAgent(g) == {[g EXCEPT !.rej = 0]}

MarketAnalyst(g) == {g}

StrategyGenerator(g) ==
  LET rejected == IF g.verdict = "FAIL" THEN g.rej + 1 ELSE g.rej
  IN {[g EXCEPT !.idea = @ + 1, !.asset = a, !.legs = 0, !.rej = rejected] :
        a \in IF g.idea < MaxIdeas THEN AssetClasses ELSE {}}

(* generate_options_strategy: legs of the real chain that the naked-leg scan
   accepts, or None after the last attempt. *)
Proposals(g) == {g.idea, 0}

(* Equity: {} -- the state is left as it is.  F&O: the proposal, or None also
   when no chain is to be had. *)
OptionsStrategy(g) ==
  IF g.asset # "F&O" THEN {g} ELSE {[g EXCEPT !.legs = l] : l \in Proposals(g)}

PythonCodeGenerator(g) == {[g EXCEPT !.verno = @ + 1]}

Compliance(g) == {[g EXCEPT !.comp = v] : v \in {"Pass", "Block"}}

PythonValidator(g) == {[g EXCEPT !.val = "Pass"], [g EXCEPT !.val = "Fail", !.retries = @ + 1]}

Backtesting(g) == {g}

Evaluator(g) == {[g EXCEPT !.verdict = v] : v \in {"PASS", "FAIL"}}

MemoryIngest(g) == {g}

Optimization(g) == {[g EXCEPT !.opt = o] : o \in {"passed", "failed"}}

(* _compute_correlation with the benchmark; None where a series is missing. *)
Correlations == {"passed", "exceeds", "none"}

(* A tripped kill switch is the only way to "Reject".  Legs that are there were
   scanned when they were proposed, so only the correlation decides the rest,
   and an unavailable one does not count as passed. *)
RiskManager(g) ==
  {[g EXCEPT !.risk = "Reject"]} \cup
  {[g EXCEPT !.risk = IF c = "passed" THEN "Approve" ELSE "ApproveWithRestrictions"] :
     c \in Correlations}

Deployment(g) == {[g EXCEPT !.rec = IF g.risk = "Reject" THEN "Reject" ELSE "PaperTrading"]}

NodeOutcomes(g) ==
  LET out == CASE g.next = "ceo_agent" -> CeoAgent(g)
               [] g.next = "market_analyst" -> MarketAnalyst(g)
               [] g.next = "strategy_generator" -> StrategyGenerator(g)
               [] g.next = "options_strategy_agent" -> OptionsStrategy(g)
               [] g.next = "python_code_generator" -> PythonCodeGenerator(g)
               [] g.next = "compliance" -> Compliance(g)
               [] g.next = "python_validator" -> PythonValidator(g)
               [] g.next = "backtesting" -> Backtesting(g)
               [] g.next = "evaluator" -> Evaluator(g)
               [] g.next = "memory_ingest" -> MemoryIngest(g)
               [] g.next = "optimization" -> Optimization(g)
               [] g.next = "risk_manager" -> RiskManager(g)
               [] g.next = "deployment" -> Deployment(g)
  IN {Goto(o, g.next) : o \in out}

(* Where an exception leaves the node: no provider answers, no fresh data, a
   failed backtest, Qdrant or Temporal unreachable; the risk manager refuses an
   optimisation that did not pass. *)
MayRaise(g) ==
  \/ g.next \in {"market_analyst", "strategy_generator", "python_code_generator",
                 "python_validator", "backtesting", "memory_ingest", "optimization"}
  \/ g.next = "risk_manager" /\ g.opt = "failed"

MustRaise(g) == g.next = "risk_manager" /\ g.opt = "failed"

-----------------------------------------------------------------------------
(* _persist_strategy_progress, one operator per branch: the rows and the
   tracking after the step, as the set of possible pairs. *)

PersistStrategy(g, d, t) ==
  IF ~account THEN {<<d, t>>}
  ELSE {<<[d EXCEPT !.strategies = Append(@, [idea |-> g.idea, status |-> "Ideation", cur |-> 0])],
          [t EXCEPT !.sid = Len(d.strategies) + 1]>>}

(* options_strategy_agent: nothing is staged for an empty output. *)
StageLegs(g, d, t) ==
  {<<d, IF g.asset = "F&O" THEN [t EXCEPT !.legs = g.legs] ELSE t>>}

(* UNIQUE (strategy_id, version_no) *)
VersionExists(g, d, t) ==
  \E v \in DOMAIN d.versions : d.versions[v].sid = t.sid /\ d.versions[v].no = g.verno

PersistVersion(g, d, t) ==
  IF VersionExists(g, d, t) THEN {} ELSE
  {<<[d EXCEPT !.versions = Append(@, [sid |-> t.sid, no |-> g.verno, legs |-> t.legs,
                                       checked |-> g.legs, status |-> "Pending"]),
               !.strategies[t.sid].cur = Len(d.versions) + 1,
               !.strategies[t.sid].status = "Coding"], t>>}

(* run_strategy_factory_pipeline checks the code a second time, on its own, and
   its verdict is what the version row shows. *)
PersistValidation(g, d, t) ==
  LET v == d.strategies[t.sid].cur IN
  IF v = 0 THEN {<<d, t>>}
  ELSE IF g.val = "Fail" THEN {<<[d EXCEPT !.versions[v].status = "Failed"], t>>}
  ELSE {<<[d EXCEPT !.versions[v].status = s, !.strategies[t.sid].status = "Backtesting"], t>> :
          s \in {"Passed", "Failed"}}

(* Mutant: the first result row of the run is kept for every later attempt. *)
PersistBacktest_Reuses(g, d, t) ==
  IF t.result # 0 THEN {<<d, t>>}
  ELSE {<<[d EXCEPT !.results = Append(@, [ver |-> d.strategies[t.sid].cur, verdict |-> "none",
                                           risk |-> "none"])],
          [t EXCEPT !.result = Len(d.results) + 1]>>}

PersistBacktest(g, d, t) ==
  IF d.strategies[t.sid].cur = 0 THEN {<<d, t>>} ELSE
  {<<[d EXCEPT !.results = Append(@, [ver |-> d.strategies[t.sid].cur, verdict |-> "none",
                                      risk |-> "none"])],
     [t EXCEPT !.result = Len(d.results) + 1]>>}

PersistVerdict(g, d, t) ==
  {<<[d EXCEPT !.results[t.result].verdict = g.verdict,
               !.strategies[t.sid].status = IF g.verdict = "PASS" THEN "Optimizing" ELSE @], t>>}

PersistOptimization(g, d, t) == {<<[d EXCEPT !.strategies[t.sid].status = "RiskReview"], t>>}

PersistRisk(g, d, t) == {<<[d EXCEPT !.results[t.result].risk = g.risk], t>>}

(* _open_paper_approval_request: none is opened while one is pending. *)
OpenPaperApproval(d, t, org) ==
  IF \E i \in DOMAIN d.approvals : d.approvals[i].sid = t.sid THEN d
  ELSE [d EXCEPT !.approvals = Append(@, [sid |-> t.sid, ver |-> d.results[t.result].ver,
                                          org |-> org])]

PersistDeployment(g, d, t, org) ==
  {<<IF g.rec = "PaperTrading"
       THEN OpenPaperApproval([d EXCEPT !.strategies[t.sid].status = "PendingPaperApproval"], t, org)
       ELSE [d EXCEPT !.strategies[t.sid].status = "Deprecated"], t>>}

PersistProgress(node, g, d, t, org) ==
  CASE node = "strategy_generator" -> PersistStrategy(g, d, t)
    [] node = "options_strategy_agent" /\ t.sid # 0 -> StageLegs(g, d, t)
    [] node = "python_code_generator" /\ t.sid # 0 -> PersistVersion(g, d, t)
    [] node = "python_validator" /\ t.sid # 0 -> PersistValidation(g, d, t)
    [] node = "backtesting" /\ t.sid # 0 -> PersistBacktest(g, d, t)
    [] node = "evaluator" /\ t.result # 0 -> PersistVerdict(g, d, t)
    [] node = "optimization" /\ t.result # 0 -> PersistOptimization(g, d, t)
    [] node = "risk_manager" /\ t.result # 0 -> PersistRisk(g, d, t)
    [] node = "deployment" /\ t.result # 0 -> PersistDeployment(g, d, t, org)
    [] OTHER -> {<<d, t>>}

-----------------------------------------------------------------------------
Init ==
  /\ account \in BOOLEAN
  /\ root = [status |-> "None", pause |-> FALSE, snapshot |-> Tracking]
  /\ cp = GraphState /\ x = [e \in Executors |-> Idle] /\ db = EmptyDb
  /\ task = "none" /\ resuming = 0 /\ pauses = 0 /\ overlapped = FALSE

(* The first executor of a run: no other thread works on its row. *)
Start(org) ==
  /\ root' = [status |-> "Running", pause |-> FALSE, snapshot |-> Tracking]
  /\ x' = [e \in Executors |-> IF e = "first" THEN [Idle EXCEPT !.phase = "stream", !.org = org] ELSE Idle]
  /\ cp' = GraphState

(* POST /research/trigger: the root row, then a detached thread. *)
TriggerResearch ==
  /\ root.status = "None"
  /\ Start(FALSE)
  /\ UNCHANGED <<account, db, task, resuming, pauses, overlapped>>

(* _strategy_research_handler: the same graph, inside the task's own thread. *)
StrategyResearchTask ==
  /\ root.status = "None"
  /\ Start(TRUE)
  /\ task' = "running"
  /\ UNCHANGED <<account, db, resuming, pauses, overlapped>>

(* The handler goes on when _execute_graph_run returns -- also when it returns
   because the run was paused -- and takes the last typed output among the child
   rows as the result; the first child, ceo_agent's, always has one. *)
StrategyResearchReturns ==
  /\ task = "running" /\ ~x["first"].org
  /\ task' = IF db.typed THEN "typed" ELSE "AdHocAnalysis"
  /\ UNCHANGED <<account, root, cp, x, db, resuming, pauses, overlapped>>

(* POST /runs/{id}/retry: a new root and a new thread id.  It shares nothing with
   the failed run, whose rows stay behind and which is forgotten here once nothing
   of it is under way. *)
RetryRun ==
  /\ root.status = "Failed" /\ task # "running" /\ resuming = 0
  /\ \A e \in Executors : x[e].phase = "idle"
  /\ Start(FALSE)
  /\ db' = EmptyDb /\ task' = "none" /\ pauses' = 0 /\ overlapped' = FALSE
  /\ UNCHANGED <<account, resuming>>

PauseRun ==
  /\ root.status = "Running" /\ ~root.pause /\ pauses < MaxPauses
  /\ root' = [root EXCEPT !.pause = TRUE] /\ pauses' = pauses + 1
  /\ UNCHANGED <<account, cp, x, db, task, resuming, overlapped>>

(* POST /runs/{id}/resume reads the row without a lock; one that is not Paused is refused. *)
ResumeRequest ==
  /\ root.status = "Paused" /\ resuming < MaxResumes /\ (resuming = 0 \/ cp.next \in OverlapNodes)
  /\ resuming' = resuming + 1
  /\ UNCHANGED <<account, root, cp, x, db, task, pauses, overlapped>>

(* Then it writes Running whatever the row says by now, and starts a thread with
   resume=True: the tracking from the snapshot, the state from the checkpoint, a fresh step
   budget, and no org_run_id.  The row keeps its snapshot, which is forgotten here when no
   request is left to read it before the next pause overwrites it. *)
ResumeRun ==
  LET e == IF x["first"].phase = "idle" THEN "first" ELSE "second"
  IN /\ resuming > 0 /\ x[e].phase = "idle"
     /\ resuming' = resuming - 1
     /\ root' = [root EXCEPT !.status = "Running", !.snapshot = IF resuming = 1 THEN Tracking ELSE @]
     /\ x' = [x EXCEPT ![e] = [Idle EXCEPT !.phase = "stream", !.g = cp, !.tr = root.snapshot]]
     /\ overlapped' = (overlapped \/ root.status # "Paused")
     /\ UNCHANGED <<account, cp, db, task, pauses>>

(* The request ends before it has written anything. *)
ResumeFails ==
  /\ resuming > 0 /\ resuming' = resuming - 1
  /\ UNCHANGED <<account, root, cp, x, db, task, pauses, overlapped>>

CancelRun ==
  /\ root.status \in {"Running", "Paused"}
  /\ root' = [root EXCEPT !.status = "Failed", !.pause = FALSE, !.snapshot = IF resuming = 0 THEN Tracking ELSE @]
  /\ UNCHANGED <<account, cp, x, db, task, resuming, pauses, overlapped>>

(* graph.stream runs the next node; LangGraph saves the checkpoint before the
   loop body sees the step. *)
StreamStep(e) ==
  /\ x[e].phase = "stream" /\ x[e].g.next # "END"
  /\ x[e].steps < StepLimit /\ ~MustRaise(x[e].g)
  /\ \E g \in NodeOutcomes(x[e].g) :
       /\ cp' = g
       /\ x' = [x EXCEPT ![e] = [@ EXCEPT !.phase = "persist", !.node = x[e].g.next, !.g = g,
                                         !.steps = x[e].steps + 1]]
  /\ UNCHANGED <<account, root, db, task, resuming, pauses, overlapped>>

(* GraphRecursionError, an exception, or a node that an administrator has disabled
   by the time it is entered ends the stream. *)
StreamRaises(e) ==
  /\ x[e].phase = "stream" /\ x[e].g.next # "END"
  /\ \/ x[e].steps >= StepLimit /\ x' = [x EXCEPT ![e].phase = "failed"]
     \/ x[e].steps < StepLimit /\ x' = [x EXCEPT ![e].phase = "halted"]
     \/ x[e].steps < StepLimit /\ MayRaise(x[e].g) /\ x' = [x EXCEPT ![e].phase = "failed"]
  /\ UNCHANGED <<account, root, cp, db, task, resuming, pauses, overlapped>>

(* The step's own transaction: child run, log, strategy rows, audit entry. *)
PersistStep(e) ==
  /\ x[e].phase = "persist"
  /\ \E r \in PersistProgress(x[e].node, x[e].g, db, x[e].tr, x[e].org) :
       /\ db' = [r[1] EXCEPT !.typed = TRUE]
       /\ x' = [x EXCEPT ![e] = [@ EXCEPT !.phase = "check", !.tr = r[2]]]
  /\ UNCHANGED <<account, root, cp, task, resuming, pauses, overlapped>>

(* It may fail, and does when the version is there already: nothing of it stays. *)
PersistRaises(e) ==
  /\ x[e].phase = "persist" /\ x' = [x EXCEPT ![e].phase = "failed"]
  /\ UNCHANGED <<account, root, cp, db, task, resuming, pauses, overlapped>>

(* Mutant: the snapshot forgets the backtest result the attempt accumulates on. *)
TrackingSnapshot_NoResult(t) == [t EXCEPT !.result = 0]

(* _tracking_to_snapshot and _tracking_from_snapshot lose nothing. *)
TrackingSnapshot(t) == t

(* After every step a session of its own looks at pause_requested. *)
PauseCheck(e) ==
  /\ x[e].phase = "check"
  /\ IF root.pause
       THEN /\ root' = [status |-> "Paused", pause |-> FALSE, snapshot |-> TrackingSnapshot(x[e].tr)]
            /\ x' = [x EXCEPT ![e] = Idle]
       ELSE x' = [x EXCEPT ![e].phase = "stream"] /\ UNCHANGED root
  /\ UNCHANGED <<account, cp, db, task, resuming, pauses, overlapped>>

(* The three ends of _execute_graph_run. *)
Ending(e) == x[e].phase \in {"failed", "halted"} \/ (x[e].phase = "stream" /\ x[e].g.next = "END")

EndStatus(e) == CASE x[e].phase = "failed" -> "Failed"
                  [] x[e].phase = "halted" -> "Halted"
                  [] OTHER -> "Completed"

(* Mutant: the thread waits for the row to be Running before it closes it. *)
CloseRun_RunningOnly(e) ==
  /\ Ending(e) /\ root.status = "Running"
  /\ root' = [root EXCEPT !.status = EndStatus(e)]
  /\ x' = [x EXCEPT ![e] = Idle]
  /\ UNCHANGED <<account, cp, db, task, resuming, pauses, overlapped>>

(* Each writes the row whatever it says; only a completed run drops its snapshot. *)
CloseRun(e) ==
  /\ Ending(e)
  /\ root' = [root EXCEPT !.status = EndStatus(e), !.snapshot = IF EndStatus(e) = "Completed" THEN Tracking ELSE @]
  /\ x' = [x EXCEPT ![e] = Idle]
  /\ UNCHANGED <<account, cp, db, task, resuming, pauses, overlapped>>

(* The daemon thread dies with its process; the row stays as it is. *)
Crash(e) ==
  /\ x[e].phase # "idle" /\ x' = [x EXCEPT ![e] = Idle]
  /\ task' = IF task = "running" /\ x[e].org THEN "lost" ELSE task
  /\ UNCHANGED <<account, root, cp, db, resuming, pauses, overlapped>>

Executor(e) ==
  StreamStep(e) \/ StreamRaises(e) \/ PersistStep(e) \/ PersistRaises(e) \/ PauseCheck(e) \/ CloseRun(e)

Next ==
  \/ TriggerResearch \/ StrategyResearchTask \/ StrategyResearchReturns \/ RetryRun
  \/ PauseRun \/ CancelRun \/ ResumeRequest \/ ResumeRun \/ ResumeFails
  \/ \E e \in Executors : Crash(e) \/ Executor(e)

(* A running thread keeps running: the operating system schedules it, and every
   call inside a node has a timeout. *)
Spec == Init /\ [][Next]_vars /\ \A e \in Executors : WF_vars(Executor(e))
-----------------------------------------------------------------------------
(* What a human is asked to approve was tested: the request names a version of
   that very strategy, and the backtest result of that version, not of an
   earlier attempt in the same run, says PASS and was not refused by risk.  Two
   executors of one run, which overlapping requests to resume it start, mix their rows. *)
DeployOnlyTested ==
  ~overlapped => \A i \in DOMAIN db.approvals :
    LET a == db.approvals[i] IN
    /\ a.ver = db.strategies[a.sid].cur
    /\ db.versions[a.ver].sid = a.sid
    /\ \E r \in DOMAIN db.results :
         db.results[r].ver = a.ver /\ db.results[r].verdict = "PASS" /\ db.results[r].risk # "Reject"

(* A recommendation is never lost between the graph and the human: once a run
   whose graph recommended paper trading is over or paused, its last strategy
   waits for approval and has a request, through any pauses and resumes. *)
RecommendationReachesHuman ==
  account /\ ~overlapped /\ cp.rec = "PaperTrading" /\ root.status \in {"Paused", "Completed"} =>
    LET s == Len(db.strategies) IN
    /\ s > 0 /\ db.strategies[s].status = "PendingPaperApproval"
    /\ \E i \in DOMAIN db.approvals : db.approvals[i].sid = s

(* The checkpoint a paused run would resume from is never ahead of the rows:
   every idea and every version of the saved state has its row, so that a
   resumed run re-runs and skips nothing. *)
CheckpointNeverAhead ==
  account /\ ~overlapped /\ root.status = "Paused" =>
    Len(db.strategies) = cp.idea /\ Len(db.versions) = cp.verno

(* Pauses, resumes, retries and crashes lose neither a recommendation nor a row, unless
   the run was resumed when it was not Paused any more. *)
ResumeLosesNothing == RecommendationReachesHuman /\ CheckpointNeverAhead

(* Every executor ends: the retry limits, or LangGraph's step limit where a
   model keeps failing the evaluator, close the run unless the process dies; also
   when two executors drive it, and when a human cancels it meanwhile. *)
ExecutorEnds == \A e \in Executors : (x[e].phase # "idle") ~> (x[e].phase = "idle")

(* The option legs a version keeps are the ones compliance looked at: "a
   hardcoded safety veto that must never be silently bypassed". *)
StoredLegsWereChecked ==
  \A v \in DOMAIN db.versions : db.versions[v].legs = db.versions[v].checked
=============================================================================
