------------------------ MODULE ResearchGraphProofs ------------------------
(* Proofs about the research graph, for any retry limits, numbers of ideas, pauses and
   resumes: what is put up for approval was tested, and a resumed run has lost nothing.

   The argument is a correspondence between the graph state and the rows.  It holds
   between two steps; inside a step, between LangGraph's checkpoint and the transaction of
   _persist_strategy_progress, it holds for the state before the step. *)
EXTENDS ResearchGraph, TLAPS

-----------------------------------------------------------------------------
(* The nodes of the graph *)

(* Verdicts and kinds of assets. *)
Words == {"none", "Equity", "F&O", "Pass", "Block", "Fail", "PASS", "FAIL", "passed", "failed", "Reject",
          "Approve", "ApproveWithRestrictions", "PaperTrading"}

GraphRows ==
  [next : Nodes \cup {"END"}, idea : Nat, asset : Words, legs : Nat, verno : Nat, comp : Words, val : Words,
   retries : Nat, verdict : Words, rej : Nat, opt : Words, risk : Words, rec : Words]

(* Where the edges and the routers lead. *)
Edge(g, h) ==
  CASE g.next = "ceo_agent" -> h.next = "market_analyst"
    [] g.next = "market_analyst" -> h.next = "strategy_generator"
    [] g.next = "strategy_generator" -> h.next = "options_strategy_agent"
    [] g.next = "options_strategy_agent" -> h.next = "python_code_generator"
    [] g.next = "python_code_generator" -> h.next = "compliance"
    [] g.next = "compliance" -> h.next \in {"END", "python_validator"}
    [] g.next = "python_validator" -> h.next \in {"backtesting", "END", "python_code_generator"}
    [] g.next = "backtesting" -> h.next = "evaluator"
    [] g.next = "evaluator" -> h.next = "memory_ingest" \/ (h.next = "optimization" /\ h.verdict = "PASS")
    [] g.next = "memory_ingest" -> h.next \in {"ceo_agent", "strategy_generator"}
    [] g.next = "optimization" -> h.next = "risk_manager"
    [] g.next = "risk_manager" -> h.next = "deployment"
    [] g.next = "deployment" -> h.next = "END" /\ (h.rec = "PaperTrading" => g.risk # "Reject")

(* What a node may change of what the rows depend on. *)
NodeEffect(g, h) ==
  /\ h \in GraphRows
  /\ h.idea = IF g.next = "strategy_generator" THEN g.idea + 1 ELSE g.idea
  /\ h.verno = IF g.next = "python_code_generator" THEN g.verno + 1 ELSE g.verno
  /\ g.next # "evaluator" => h.verdict = g.verdict
  /\ g.next # "risk_manager" => h.risk = g.risk
  /\ g.next # "deployment" => h.rec = g.rec

LEMMA GotoRow ==
    ASSUME NEW g \in GraphRows, NEW target \in Nodes \cup {"END"}
    PROVE  /\ [g EXCEPT !.next = target] \in GraphRows
           /\ [g EXCEPT !.next = target].next = target
           /\ \A f \in {"idea", "verno", "verdict", "risk", "rec"} : [g EXCEPT !.next = target][f] = g[f]
BY DEF GraphRows

(* Every node keeps the state well formed and leads where its edge or router says. *)
LEMMA NodeStep ==
    ASSUME NEW g \in GraphRows, g.next # "END", NEW h \in NodeOutcomes(g)
    PROVE  NodeEffect(g, h) /\ Edge(g, h)
<1>0. /\ g.idea \in Nat /\ g.verno \in Nat /\ g.legs \in Nat /\ g.rej \in Nat /\ g.retries \in Nat
      /\ g.next \in Nodes
  BY DEF GraphRows
<1>1. CASE g.next = "ceo_agent"
  <2>1. PICK o \in CeoAgent(g) : h = [o EXCEPT !.next = "market_analyst"]
    BY <1>1 DEF NodeOutcomes, Goto
  <2>2. /\ o \in GraphRows
        /\ o.idea = g.idea /\ o.verno = g.verno /\ o.verdict = g.verdict /\ o.risk = g.risk /\ o.rec = g.rec
    BY <1>0 DEF CeoAgent, GraphRows
  <2>3. "market_analyst" \in Nodes \cup {"END"}
    BY DEF Nodes
  <2>4. NodeEffect(g, h) /\ h.next = "market_analyst"
    BY <1>1, <2>1, <2>2, <2>3, GotoRow DEF NodeEffect
  <2> QED BY <1>1, <2>2, <2>4 DEF Edge
<1>2. CASE g.next = "market_analyst"
  <2>1. PICK o \in MarketAnalyst(g) : h = [o EXCEPT !.next = "strategy_generator"]
    BY <1>2 DEF NodeOutcomes, Goto
  <2>2. /\ o \in GraphRows
        /\ o.idea = g.idea /\ o.verno = g.verno /\ o.verdict = g.verdict /\ o.risk = g.risk /\ o.rec = g.rec
    BY <1>0 DEF MarketAnalyst, GraphRows
  <2>3. "strategy_generator" \in Nodes \cup {"END"}
    BY DEF Nodes
  <2>4. NodeEffect(g, h) /\ h.next = "strategy_generator"
    BY <1>2, <2>1, <2>2, <2>3, GotoRow DEF NodeEffect
  <2> QED BY <1>2, <2>2, <2>4 DEF Edge
<1>3. CASE g.next = "strategy_generator"
  <2>1. PICK o \in StrategyGenerator(g) : h = [o EXCEPT !.next = "options_strategy_agent"]
    BY <1>3 DEF NodeOutcomes, Goto
  <2>2. /\ o \in GraphRows
        /\ o.idea = g.idea + 1 /\ o.verno = g.verno /\ o.verdict = g.verdict /\ o.risk = g.risk /\ o.rec = g.rec
    <3>1. PICK a \in Words, n \in Nat : o = [g EXCEPT !.idea = g.idea + 1, !.asset = a, !.legs = 0, !.rej = n]
      <4>1. PICK n \in Nat : n = IF g.verdict = "FAIL" THEN g.rej + 1 ELSE g.rej
        BY <1>0
      <4>2. PICK a \in AssetClasses : o = [g EXCEPT !.idea = g.idea + 1, !.asset = a, !.legs = 0, !.rej = n]
        BY <4>1 DEF StrategyGenerator
      <4>3. a \in Words
        BY BoundsAssumption DEF Words
      <4> QED BY <4>2, <4>3
    <3>2. g.idea + 1 \in Nat
      BY <1>0
    <3> QED BY <3>1, <3>2 DEF GraphRows
  <2>3. "options_strategy_agent" \in Nodes \cup {"END"}
    BY DEF Nodes
  <2>4. NodeEffect(g, h) /\ h.next = "options_strategy_agent"
    BY <1>3, <2>1, <2>2, <2>3, GotoRow DEF NodeEffect
  <2> QED BY <1>3, <2>2, <2>4 DEF Edge
<1>4. CASE g.next = "options_strategy_agent"
  <2>1. PICK o \in OptionsStrategy(g) : h = [o EXCEPT !.next = "python_code_generator"]
    BY <1>4 DEF NodeOutcomes, Goto
  <2>2. /\ o \in GraphRows
        /\ o.idea = g.idea /\ o.verno = g.verno /\ o.verdict = g.verdict /\ o.risk = g.risk /\ o.rec = g.rec
    BY <1>0 DEF OptionsStrategy, GraphRows, Proposals
  <2>3. "python_code_generator" \in Nodes \cup {"END"}
    BY DEF Nodes
  <2>4. NodeEffect(g, h) /\ h.next = "python_code_generator"
    BY <1>4, <2>1, <2>2, <2>3, GotoRow DEF NodeEffect
  <2> QED BY <1>4, <2>2, <2>4 DEF Edge
<1>5. CASE g.next = "python_code_generator"
  <2>1. PICK o \in PythonCodeGenerator(g) : h = [o EXCEPT !.next = "compliance"]
    BY <1>5 DEF NodeOutcomes, Goto
  <2>2. /\ o \in GraphRows
        /\ o.idea = g.idea /\ o.verno = g.verno + 1 /\ o.verdict = g.verdict /\ o.risk = g.risk /\ o.rec = g.rec
    BY <1>0 DEF PythonCodeGenerator, GraphRows
  <2>3. "compliance" \in Nodes \cup {"END"}
    BY DEF Nodes
  <2>4. NodeEffect(g, h) /\ h.next = "compliance"
    BY <1>5, <2>1, <2>2, <2>3, GotoRow DEF NodeEffect
  <2> QED BY <1>5, <2>2, <2>4 DEF Edge
<1>6. CASE g.next = "compliance"
  <2>1. PICK o \in Compliance(g) : h = [o EXCEPT !.next = RouteAfterCompliance(o)]
    BY <1>6 DEF NodeOutcomes, Goto
  <2>2. /\ o \in GraphRows
        /\ o.idea = g.idea /\ o.verno = g.verno /\ o.verdict = g.verdict /\ o.risk = g.risk /\ o.rec = g.rec
    BY <1>0 DEF Compliance, GraphRows, Words
  <2>3. RouteAfterCompliance(o) \in Nodes \cup {"END"}
    BY DEF RouteAfterCompliance, Nodes
  <2>4. NodeEffect(g, h) /\ h.next = RouteAfterCompliance(o) /\ h.verdict = o.verdict
    BY <1>6, <2>1, <2>2, <2>3, GotoRow DEF NodeEffect
  <2> QED BY <1>6, <2>2, <2>4 DEF Edge, RouteAfterCompliance
<1>7. CASE g.next = "python_validator"
  <2>1. PICK o \in PythonValidator(g) : h = [o EXCEPT !.next = RouteAfterValidation(o)]
    BY <1>7 DEF NodeOutcomes, Goto
  <2>2. /\ o \in GraphRows
        /\ o.idea = g.idea /\ o.verno = g.verno /\ o.verdict = g.verdict /\ o.risk = g.risk /\ o.rec = g.rec
    <3>1. CASE o = [g EXCEPT !.val = "Pass"]
      BY <3>1 DEF GraphRows, Words
    <3>2. CASE o = [g EXCEPT !.val = "Fail", !.retries = g.retries + 1]
      <4>1. g.retries + 1 \in Nat
        BY <1>0
      <4> QED BY <3>2, <4>1 DEF GraphRows, Words
    <3> QED BY <3>1, <3>2 DEF PythonValidator
  <2>3. RouteAfterValidation(o) \in Nodes \cup {"END"}
    BY DEF RouteAfterValidation, Nodes
  <2>4. NodeEffect(g, h) /\ h.next = RouteAfterValidation(o) /\ h.verdict = o.verdict
    BY <1>7, <2>1, <2>2, <2>3, GotoRow DEF NodeEffect
  <2> QED BY <1>7, <2>2, <2>4 DEF Edge, RouteAfterValidation
<1>8. CASE g.next = "backtesting"
  <2>1. PICK o \in Backtesting(g) : h = [o EXCEPT !.next = "evaluator"]
    BY <1>8 DEF NodeOutcomes, Goto
  <2>2. /\ o \in GraphRows
        /\ o.idea = g.idea /\ o.verno = g.verno /\ o.verdict = g.verdict /\ o.risk = g.risk /\ o.rec = g.rec
    BY <1>0 DEF Backtesting, GraphRows
  <2>3. "evaluator" \in Nodes \cup {"END"}
    BY DEF Nodes
  <2>4. NodeEffect(g, h) /\ h.next = "evaluator"
    BY <1>8, <2>1, <2>2, <2>3, GotoRow DEF NodeEffect
  <2> QED BY <1>8, <2>2, <2>4 DEF Edge
<1>9. CASE g.next = "evaluator"
  <2>1. PICK o \in Evaluator(g) : h = [o EXCEPT !.next = RouteAfterEvaluation(o)]
    BY <1>9 DEF NodeOutcomes, Goto
  <2>2. /\ o \in GraphRows
        /\ o.idea = g.idea /\ o.verno = g.verno /\ o.risk = g.risk /\ o.rec = g.rec
    BY <1>0 DEF Evaluator, GraphRows, Words
  <2>3. RouteAfterEvaluation(o) \in Nodes \cup {"END"}
    BY DEF RouteAfterEvaluation, Nodes
  <2>4. NodeEffect(g, h) /\ h.next = RouteAfterEvaluation(o) /\ h.verdict = o.verdict
    BY <1>9, <2>1, <2>2, <2>3, GotoRow DEF NodeEffect
  <2> QED BY <1>9, <2>2, <2>4 DEF Edge, RouteAfterEvaluation
<1>10. CASE g.next = "memory_ingest"
  <2>1. PICK o \in MemoryIngest(g) : h = [o EXCEPT !.next = RouteAfterMemoryIngest(o)]
    BY <1>10 DEF NodeOutcomes, Goto
  <2>2. /\ o \in GraphRows
        /\ o.idea = g.idea /\ o.verno = g.verno /\ o.verdict = g.verdict /\ o.risk = g.risk /\ o.rec = g.rec
    BY <1>0 DEF MemoryIngest, GraphRows
  <2>3. RouteAfterMemoryIngest(o) \in Nodes \cup {"END"}
    BY DEF RouteAfterMemoryIngest, Nodes
  <2>4. NodeEffect(g, h) /\ h.next = RouteAfterMemoryIngest(o) /\ h.verdict = o.verdict
    BY <1>10, <2>1, <2>2, <2>3, GotoRow DEF NodeEffect
  <2> QED BY <1>10, <2>2, <2>4 DEF Edge, RouteAfterMemoryIngest
<1>11. CASE g.next = "optimization"
  <2>1. PICK o \in Optimization(g) : h = [o EXCEPT !.next = "risk_manager"]
    BY <1>11 DEF NodeOutcomes, Goto
  <2>2. /\ o \in GraphRows
        /\ o.idea = g.idea /\ o.verno = g.verno /\ o.verdict = g.verdict /\ o.risk = g.risk /\ o.rec = g.rec
    BY <1>0 DEF Optimization, GraphRows, Words
  <2>3. "risk_manager" \in Nodes \cup {"END"}
    BY DEF Nodes
  <2>4. NodeEffect(g, h) /\ h.next = "risk_manager"
    BY <1>11, <2>1, <2>2, <2>3, GotoRow DEF NodeEffect
  <2> QED BY <1>11, <2>2, <2>4 DEF Edge
<1>12. CASE g.next = "risk_manager"
  <2>1. PICK o \in RiskManager(g) : h = [o EXCEPT !.next = "deployment"]
    BY <1>12 DEF NodeOutcomes, Goto
  <2>2. /\ o \in GraphRows
        /\ o.idea = g.idea /\ o.verno = g.verno /\ o.verdict = g.verdict /\ o.rec = g.rec
    BY <1>0 DEF RiskManager, GraphRows, Words, Correlations
  <2>3. "deployment" \in Nodes \cup {"END"}
    BY DEF Nodes
  <2>4. NodeEffect(g, h) /\ h.next = "deployment"
    BY <1>12, <2>1, <2>2, <2>3, GotoRow DEF NodeEffect
  <2> QED BY <1>12, <2>2, <2>4 DEF Edge
<1>13. CASE g.next = "deployment"
  <2>1. PICK o \in Deployment(g) : h = [o EXCEPT !.next = "END"]
    BY <1>13 DEF NodeOutcomes, Goto
  <2>2. /\ o \in GraphRows
        /\ o.idea = g.idea /\ o.verno = g.verno /\ o.verdict = g.verdict /\ o.risk = g.risk /\ (o.rec = "PaperTrading" => g.risk # "Reject")
    BY <1>0 DEF Deployment, GraphRows, Words
  <2>3. "END" \in Nodes \cup {"END"}
    BY DEF Nodes
  <2>4. NodeEffect(g, h) /\ h.next = "END" /\ h.rec = o.rec
    BY <1>13, <2>1, <2>2, <2>3, GotoRow DEF NodeEffect
  <2> QED BY <1>13, <2>2, <2>4 DEF Edge
<1> QED BY <1>0, <1>1, <1>2, <1>3, <1>4, <1>5, <1>6, <1>7, <1>8, <1>9, <1>10, <1>11, <1>12, <1>13 DEF Nodes

-----------------------------------------------------------------------------
(* The rows and the tracking that go with a state of the graph. *)

Statuses == {"Ideation", "Coding", "Backtesting", "Optimizing", "RiskReview", "PendingPaperApproval", "Deprecated",
             "Pending", "Passed", "Failed"}
TrackRows == [sid : Nat, result : Nat, legs : Nat]
StrategyRows == [idea : Nat, status : Statuses, cur : Nat]
VersionRows == [sid : Nat, no : Nat, legs : Nat, checked : Nat, status : Statuses]
ResultRows == [ver : Nat, verdict : Words, risk : Words]
ApprovalRows == [sid : Nat, ver : Nat, org : BOOLEAN]
Dbs == [strategies : Seq(StrategyRows), versions : Seq(VersionRows), results : Seq(ResultRows),
        approvals : Seq(ApprovalRows), typed : BOOLEAN]

(* Nodes that work on an idea, on the code of its last version, on the backtest of that
   version, and on a backtest that passed. *)
OnResult == {"evaluator", "optimization", "risk_manager", "deployment"}
OnCode == {"compliance", "python_validator", "backtesting"} \cup OnResult
OnIdea == {"options_strategy_agent", "python_code_generator"} \cup OnCode
OnPassed == {"optimization", "risk_manager", "deployment"}

IdeaFits(g, t, d) ==
  /\ t.sid = g.idea /\ Len(d.strategies) = g.idea /\ Len(d.versions) = g.verno
  /\ g.next \in OnIdea => g.idea > 0
CodeFits(g, t, d) ==
  g.next \in OnCode => g.verno > 0 /\ d.strategies[t.sid].cur = g.verno /\ d.versions[g.verno].sid = t.sid
ResultFits(g, t, d) ==
  /\ g.next \in OnResult => t.result \in 1 .. Len(d.results) /\ d.results[t.result].ver = g.verno
  /\ g.next \in OnPassed => d.results[t.result].verdict = "PASS"
  /\ g.next = "deployment" => d.results[t.result].risk = g.risk
Announced(g, d) ==
  g.rec = "PaperTrading" =>
    /\ g.idea > 0 /\ d.strategies[g.idea].status = "PendingPaperApproval"
    /\ \E i \in DOMAIN d.approvals : d.approvals[i].sid = g.idea

RowsFit(g, t, d) ==
  /\ g.next # "END" => d.approvals = <<>> /\ g.rec = "none"
  /\ ~account => t.sid = 0 /\ t.result = 0 /\ d.approvals = <<>>
  /\ account => IdeaFits(g, t, d) /\ CodeFits(g, t, d) /\ ResultFits(g, t, d) /\ Announced(g, d)

Tested(d) ==
  \A i \in DOMAIN d.approvals :
    LET a == d.approvals[i] IN
    /\ a.ver = d.strategies[a.sid].cur
    /\ d.versions[a.ver].sid = a.sid
    /\ \E r \in DOMAIN d.results :
         d.results[r].ver = a.ver /\ d.results[r].verdict = "PASS" /\ d.results[r].risk # "Reject"

(* One persisted step: the rows fit the new state, and what is up for approval is tested. *)
Fits(h, t, d) == t \in TrackRows /\ d \in Dbs /\ RowsFit(h, t, d) /\ Tested(d)

LEMMA NoApprovals ==
    ASSUME NEW d, d.approvals = <<>>
    PROVE  Tested(d)
BY DEF Tested

LEMMA TrackFields ==
    ASSUME NEW t \in TrackRows
    PROVE  t.sid \in Nat /\ t.result \in Nat /\ t.legs \in Nat
BY DEF TrackRows

LEMMA DbFields ==
    ASSUME NEW d \in Dbs
    PROVE  /\ d.strategies \in Seq(StrategyRows) /\ d.versions \in Seq(VersionRows)
           /\ d.results \in Seq(ResultRows) /\ d.approvals \in Seq(ApprovalRows) /\ d.typed \in BOOLEAN
           /\ DOMAIN d = {"strategies", "versions", "results", "approvals", "typed"}
BY DEF Dbs

LEMMA SetRow ==
    ASSUME NEW S, NEW q \in Seq(S), NEW i \in 1 .. Len(q), NEW y \in S
    PROVE  /\ [q EXCEPT ![i] = y] \in Seq(S) /\ Len([q EXCEPT ![i] = y]) = Len(q)
           /\ [q EXCEPT ![i] = y][i] = y
           /\ \A j \in 1 .. Len(q) : j # i => [q EXCEPT ![i] = y][j] = q[j]
OBVIOUS

LEMMA AddRow ==
    ASSUME NEW S, NEW q \in Seq(S), NEW y \in S
    PROVE  /\ Append(q, y) \in Seq(S) /\ Len(Append(q, y)) = Len(q) + 1 /\ Append(q, y)[Len(q) + 1] = y
           /\ \A j \in 1 .. Len(q) : Append(q, y)[j] = q[j]
OBVIOUS

WithRows(d, a, b, c) ==
  [strategies |-> a, versions |-> b, results |-> c, approvals |-> d.approvals, typed |-> d.typed]

LEMMA DbUpdate ==
    ASSUME NEW d \in Dbs, NEW a \in Seq(StrategyRows), NEW b \in Seq(VersionRows), NEW c \in Seq(ResultRows),
           NEW e, e = WithRows(d, a, b, c)
    PROVE  e \in Dbs /\ e.strategies = a /\ e.versions = b /\ e.results = c /\ e.approvals = d.approvals
BY DEF Dbs, WithRows

(* The nodes after which nothing is written. *)
LEMMA QuietNodes ==
    ASSUME NEW g \in GraphRows, NEW h, NodeEffect(g, h), Edge(g, h), NEW t, NEW d, Fits(g, t, d),
           g.next \in {"ceo_agent", "market_analyst", "compliance", "memory_ingest"}
    PROVE  Fits(h, t, d)
<1>1. /\ h.idea = g.idea /\ h.verno = g.verno /\ h.rec = g.rec /\ g.next # "END"
      /\ g.next = "compliance" <=> h.next \in {"END", "python_validator"}
      /\ g.next # "compliance" => h.next \in {"market_analyst", "strategy_generator", "ceo_agent"}
  BY DEF NodeEffect, Edge
<1>2. RowsFit(g, t, d) /\ d.approvals = <<>> /\ g.rec = "none"
  BY <1>1 DEF Fits, RowsFit
<1>3. ASSUME account PROVE IdeaFits(h, t, d) /\ CodeFits(h, t, d) /\ ResultFits(h, t, d) /\ Announced(h, d)
  BY <1>1, <1>2, <1>3 DEF RowsFit, IdeaFits, CodeFits, ResultFits, Announced, OnIdea, OnCode, OnResult, OnPassed
<1>4. RowsFit(h, t, d)
  BY <1>1, <1>2, <1>3 DEF RowsFit
<1> QED BY <1>4 DEF Fits

(* Without an account no strategy is written, and so nothing else is. *)
LEMMA NoAccount ==
    ASSUME NEW g \in GraphRows, NEW h, NodeEffect(g, h), Edge(g, h), NEW t, NEW d, Fits(g, t, d), ~account,
           g.next # "END"
    PROVE  Fits(h, t, d)
<1>1. t.sid = 0 /\ t.result = 0 /\ d.approvals = <<>> /\ g.rec = "none" /\ (h.next # "END" => h.rec = g.rec)
  <2>1. t.sid = 0 /\ t.result = 0 /\ d.approvals = <<>> /\ g.rec = "none"
    BY DEF Fits, RowsFit
  <2>2. g.next # "deployment" => h.rec = g.rec
    BY DEF NodeEffect
  <2>3. g.next = "deployment" => h.next = "END"
    BY DEF Edge
  <2> QED BY <2>1, <2>2, <2>3
<1> QED BY <1>1 DEF Fits, RowsFit

LEMMA NewStrategy ==
    ASSUME NEW g \in GraphRows, NEW h, NodeEffect(g, h), Edge(g, h), NEW t, NEW d, Fits(g, t, d), account,
           g.next = "strategy_generator", NEW r \in PersistStrategy(h, d, t)
    PROVE  Fits(h, r[2], r[1])
<1>1. PICK e, u : /\ r[1] = e /\ r[2] = u /\ u = [t EXCEPT !.sid = Len(d.strategies) + 1]
                  /\ e = [d EXCEPT !.strategies = Append(d.strategies, [idea |-> h.idea, status |-> "Ideation", cur |-> 0])]
  BY DEF PersistStrategy
<1>2. /\ h.idea = g.idea + 1 /\ h.verno = g.verno /\ h.rec = "none" /\ h.next = "options_strategy_agent"
      /\ h.idea \in Nat /\ g.idea \in Nat /\ d.approvals = <<>> /\ IdeaFits(g, t, d)
  BY DEF NodeEffect, Edge, Fits, RowsFit, GraphRows
<1>3. [idea |-> h.idea, status |-> "Ideation", cur |-> 0] \in StrategyRows
  BY <1>2 DEF StrategyRows, Statuses
<1>4. d \in Dbs /\ t \in TrackRows /\ d.strategies \in Seq(StrategyRows) /\ Len(d.strategies) = g.idea /\ Len(d.versions) = g.verno
  BY <1>2, DbFields DEF Fits, IdeaFits
<1>5. u \in TrackRows /\ u.sid = h.idea
  BY <1>1, <1>2, <1>4 DEF TrackRows
<1>6. /\ e \in Dbs /\ Len(e.strategies) = h.idea /\ e.versions = d.versions /\ e.approvals = <<>>
  <2>1. PICK a : a = Append(d.strategies, [idea |-> h.idea, status |-> "Ideation", cur |-> 0])
    OBVIOUS
  <2>2. a \in Seq(StrategyRows) /\ Len(a) = h.idea
    BY <1>2, <1>3, <1>4, <2>1, AddRow
  <2>3. e = WithRows(d, a, d.versions, d.results)
    BY <1>1, <1>4, <2>1 DEF Dbs, WithRows
  <2>4. d \in Dbs /\ d.versions \in Seq(VersionRows) /\ d.results \in Seq(ResultRows)
    BY <1>4, DbFields
  <2>5. e \in Dbs /\ e.strategies = a /\ e.versions = d.versions /\ e.approvals = d.approvals
    BY <2>2, <2>3, <2>4, DbUpdate
  <2> QED BY <1>2, <2>2, <2>5
<1>7. IdeaFits(h, u, e)
  BY <1>2, <1>4, <1>5, <1>6 DEF IdeaFits
<1>8. CodeFits(h, u, e) /\ ResultFits(h, u, e) /\ Announced(h, e)
  BY <1>2 DEF CodeFits, ResultFits, Announced, OnCode, OnResult, OnPassed
<1> QED BY <1>1, <1>2, <1>5, <1>6, <1>7, <1>8, NoApprovals DEF Fits, RowsFit

LEMMA LegsStaged ==
    ASSUME NEW g \in GraphRows, NEW h, NodeEffect(g, h), Edge(g, h), NEW t, NEW d, Fits(g, t, d), account,
           g.next = "options_strategy_agent", NEW r \in StageLegs(h, d, t)
    PROVE  Fits(h, r[2], r[1])
<1>1. PICK u : r[1] = d /\ r[2] = u /\ (u = t \/ u = [t EXCEPT !.legs = h.legs])
  BY DEF StageLegs
<1>2. /\ h.idea = g.idea /\ h.verno = g.verno /\ h.rec = "none" /\ h.next = "python_code_generator" /\ h.legs \in Nat
      /\ d.approvals = <<>> /\ IdeaFits(g, t, d)
  BY DEF NodeEffect, Edge, Fits, RowsFit, GraphRows
<1>3. t \in TrackRows /\ d \in Dbs
  BY DEF Fits
<1>4. u \in TrackRows /\ u.sid = t.sid
  BY <1>1, <1>2, <1>3 DEF TrackRows
<1>5. IdeaFits(h, u, d)
  BY <1>2, <1>4 DEF IdeaFits, OnIdea
<1>6. CodeFits(h, u, d) /\ ResultFits(h, u, d) /\ Announced(h, d)
  BY <1>2 DEF CodeFits, ResultFits, Announced, OnCode, OnResult, OnPassed
<1> QED BY <1>1, <1>2, <1>3, <1>4, <1>5, <1>6, NoApprovals DEF Fits, RowsFit

LEMMA NewVersion ==
    ASSUME NEW g \in GraphRows, NEW h, NodeEffect(g, h), Edge(g, h), NEW t, NEW d, Fits(g, t, d), account,
           g.next = "python_code_generator", NEW r \in PersistVersion(h, d, t)
    PROVE  Fits(h, r[2], r[1])
<1>2. /\ h.idea = g.idea /\ h.verno = g.verno + 1 /\ h.rec = "none" /\ h.next = "compliance" /\ h.legs \in Nat
      /\ g.idea \in Nat /\ g.verno \in Nat /\ d.approvals = <<>> /\ IdeaFits(g, t, d) /\ t \in TrackRows /\ d \in Dbs
  BY DEF NodeEffect, Edge, Fits, RowsFit, GraphRows
<1>3. t.sid = g.idea /\ Len(d.strategies) = g.idea /\ Len(d.versions) = g.verno /\ g.idea > 0
  BY <1>2 DEF IdeaFits, OnIdea
<1>4. PICK v : v = [sid |-> t.sid, no |-> h.verno, legs |-> t.legs, checked |-> h.legs, status |-> "Pending"]
  OBVIOUS
<1>5. v \in VersionRows /\ v.sid = t.sid
  BY <1>2, <1>4, TrackFields DEF VersionRows, Statuses
<1>6. d.strategies \in Seq(StrategyRows) /\ d.versions \in Seq(VersionRows) /\ t.sid \in 1 .. Len(d.strategies)
  BY <1>2, <1>3, DbFields
<1>7. PICK s : s = [d.strategies[t.sid] EXCEPT !.cur = h.verno, !.status = "Coding"]
  OBVIOUS
<1>8. s \in StrategyRows /\ s.cur = h.verno
  <2>1. d.strategies[t.sid] \in StrategyRows /\ h.verno \in Nat
    BY <1>2, <1>6
  <2> QED BY <1>7, <2>1 DEF StrategyRows, Statuses
<1>9. PICK e : e = [d EXCEPT !.versions = Append(d.versions, v), !.strategies = [d.strategies EXCEPT ![t.sid] = s]]
  OBVIOUS
<1>10. r[1] = e /\ r[2] = t
  <2>1. r = <<[d EXCEPT !.versions = Append(@, v), !.strategies[t.sid].cur = Len(d.versions) + 1,
                        !.strategies[t.sid].status = "Coding"], t>>
    BY <1>4 DEF PersistVersion
  <2>2. d.strategies[t.sid] \in StrategyRows /\ DOMAIN d.strategies = 1 .. Len(d.strategies)
    BY <1>6
  <2>3. [d EXCEPT !.versions = Append(@, v), !.strategies[t.sid].cur = Len(d.versions) + 1,
                        !.strategies[t.sid].status = "Coding"] = e
    BY <1>2, <1>3, <1>6, <1>7, <1>9, <2>2, DbFields DEF StrategyRows
  <2> QED BY <2>1, <2>3
<1>11. /\ e \in Dbs /\ Len(e.strategies) = g.idea /\ e.strategies[t.sid] = s /\ Len(e.versions) = h.verno
       /\ e.versions[h.verno] = v /\ e.approvals = <<>>
  <2>1. PICK a, b : a = [d.strategies EXCEPT ![t.sid] = s] /\ b = Append(d.versions, v)
    OBVIOUS
  <2>2. /\ a \in Seq(StrategyRows) /\ Len(a) = g.idea /\ a[t.sid] = s
        /\ b \in Seq(VersionRows) /\ Len(b) = h.verno /\ b[h.verno] = v
    BY <1>2, <1>3, <1>5, <1>6, <1>8, <2>1, SetRow, AddRow
  <2>3. e = WithRows(d, a, b, d.results)
    BY <1>2, <1>9, <2>1 DEF Dbs, WithRows
  <2>4. d \in Dbs /\ d.versions \in Seq(VersionRows) /\ d.results \in Seq(ResultRows)
    BY <1>2, DbFields
  <2>5. e \in Dbs /\ e.strategies = a /\ e.versions = b /\ e.approvals = d.approvals
    BY <2>2, <2>3, <2>4, DbUpdate
  <2> QED BY <1>2, <2>2, <2>5
<1>12. IdeaFits(h, t, e) /\ CodeFits(h, t, e)
  BY <1>2, <1>3, <1>5, <1>8, <1>11 DEF IdeaFits, CodeFits
<1>13. ResultFits(h, t, e) /\ Announced(h, e)
  BY <1>2 DEF ResultFits, Announced, OnResult, OnPassed
<1> QED BY <1>2, <1>10, <1>11, <1>12, <1>13, NoApprovals DEF Fits, RowsFit

Relabel(q, i, st) == [q EXCEPT ![i].status = st]

LEMMA NewStatus ==
    ASSUME NEW q \in Seq(StrategyRows), NEW i \in 1 .. Len(q), NEW st \in Statuses
    PROVE  /\ Relabel(q, i, st) \in Seq(StrategyRows) /\ Len(Relabel(q, i, st)) = Len(q)
           /\ Relabel(q, i, st)[i].cur = q[i].cur /\ Relabel(q, i, st)[i].status = st
<1>1. q[i] \in StrategyRows /\ DOMAIN q = 1 .. Len(q)
  OBVIOUS
<1>2. PICK y : y = [q[i] EXCEPT !.status = st]
  OBVIOUS
<1>3. y \in StrategyRows /\ y.cur = q[i].cur /\ y.status = st
  BY <1>1, <1>2 DEF StrategyRows
<1>4. Relabel(q, i, st) = [q EXCEPT ![i] = y]
  BY <1>2 DEF Relabel
<1> QED BY <1>3, <1>4, SetRow

LEMMA NewVersionStatus ==
    ASSUME NEW q \in Seq(VersionRows), NEW i \in 1 .. Len(q), NEW st \in Statuses
    PROVE  /\ Relabel(q, i, st) \in Seq(VersionRows) /\ Len(Relabel(q, i, st)) = Len(q)
           /\ Relabel(q, i, st)[i].sid = q[i].sid
<1>1. q[i] \in VersionRows /\ DOMAIN q = 1 .. Len(q)
  OBVIOUS
<1>2. PICK y : y = [q[i] EXCEPT !.status = st]
  OBVIOUS
<1>3. y \in VersionRows /\ y.sid = q[i].sid
  BY <1>1, <1>2 DEF VersionRows
<1>4. Relabel(q, i, st) = [q EXCEPT ![i] = y]
  BY <1>2 DEF Relabel
<1> QED BY <1>3, <1>4, SetRow

(* What a step that works on code finds. *)
LEMMA CodeRows ==
    ASSUME NEW g \in GraphRows, NEW t, NEW d, Fits(g, t, d), account, g.next \in OnCode
    PROVE  /\ d \in Dbs /\ t \in TrackRows /\ g.idea \in Nat /\ g.verno \in Nat /\ g.rec = "none" /\ d.approvals = <<>>
           /\ d.strategies \in Seq(StrategyRows) /\ d.versions \in Seq(VersionRows) /\ d.results \in Seq(ResultRows)
           /\ t.sid = g.idea /\ t.sid \in 1 .. Len(d.strategies) /\ Len(d.strategies) = g.idea
           /\ g.verno \in 1 .. Len(d.versions) /\ Len(d.versions) = g.verno
           /\ d.strategies[t.sid].cur = g.verno /\ d.versions[g.verno].sid = t.sid
<1>1. RowsFit(g, t, d) /\ d \in Dbs /\ t \in TrackRows /\ g.next # "END" /\ g.next \in OnIdea
  BY DEF Fits, OnCode, OnResult, OnIdea
<1>2. g.idea \in Nat /\ g.verno \in Nat
  BY DEF GraphRows
<1>3. g.rec = "none" /\ d.approvals = <<>> /\ IdeaFits(g, t, d) /\ CodeFits(g, t, d)
  BY <1>1 DEF RowsFit
<1>4. /\ t.sid = g.idea /\ Len(d.strategies) = g.idea /\ Len(d.versions) = g.verno /\ g.idea > 0 /\ g.verno > 0
      /\ d.strategies[t.sid].cur = g.verno /\ d.versions[g.verno].sid = t.sid
  BY <1>1, <1>3 DEF IdeaFits, CodeFits
<1> QED BY <1>1, <1>2, <1>3, <1>4, DbFields

(* Rows that fit state h in the part that a step leaves alone. *)
LEMMA CodeStillFits ==
    ASSUME NEW g \in GraphRows, NEW h, NodeEffect(g, h), NEW t, NEW u, NEW d, NEW e, Fits(g, t, d), account,
           g.next \in OnCode, g.next # "deployment",
           u \in TrackRows, u.sid = t.sid, e \in Dbs, e.approvals = d.approvals,
           Len(e.strategies) = Len(d.strategies), Len(e.versions) = Len(d.versions),
           e.strategies[t.sid].cur = g.verno, e.versions[g.verno].sid = t.sid, ResultFits(h, u, e)
    PROVE  Fits(h, u, e)
<1>1. /\ g.rec = "none" /\ d.approvals = <<>> /\ t.sid = g.idea /\ t.sid > 0 /\ Len(d.strategies) = g.idea
      /\ g.verno > 0 /\ Len(d.versions) = g.verno
  BY CodeRows
<1>2. h.idea = g.idea /\ h.verno = g.verno /\ h.rec = "none"
  BY <1>1 DEF NodeEffect, OnCode, OnResult
<1>3. IdeaFits(h, u, e) /\ CodeFits(h, u, e) /\ Announced(h, e)
  BY <1>1, <1>2 DEF IdeaFits, CodeFits, Announced
<1> QED BY <1>1, <1>2, <1>3, NoApprovals DEF Fits, RowsFit

LEMMA Validated ==
    ASSUME NEW g \in GraphRows, NEW h, NodeEffect(g, h), Edge(g, h), NEW t, NEW d, Fits(g, t, d), account,
           g.next = "python_validator", NEW r \in PersistValidation(h, d, t)
    PROVE  Fits(h, r[2], r[1])
<1>1. g.next \in OnCode /\ g.next # "deployment"
  BY DEF OnCode
<1>2. d \in Dbs /\ t \in TrackRows /\ d.strategies[t.sid].cur = g.verno /\ d.versions[g.verno].sid = t.sid
  BY <1>1, CodeRows
<1>s. d.strategies \in Seq(StrategyRows) /\ t.sid \in 1 .. Len(d.strategies)
  BY <1>1, CodeRows
<1>v. d.versions \in Seq(VersionRows) /\ g.verno \in 1 .. Len(d.versions)
  BY <1>1, CodeRows
<1>r. d.results \in Seq(ResultRows)
  BY <1>1, CodeRows
<1>3. h.next \notin OnResult /\ h.next \notin OnPassed /\ h.next # "deployment"
  BY DEF Edge, OnResult, OnPassed
<1>4. \A e : ResultFits(h, t, e)
  BY <1>3 DEF ResultFits
<1>5. CASE r = <<[d EXCEPT !.versions[g.verno].status = "Failed"], t>>
  <2>1. "Failed" \in Statuses
    BY DEF Statuses
  <2>2. PICK b : b = Relabel(d.versions, g.verno, "Failed")
    OBVIOUS
  <2>3. b \in Seq(VersionRows) /\ Len(b) = Len(d.versions) /\ b[g.verno].sid = d.versions[g.verno].sid
    BY <1>v, <2>1, <2>2, NewVersionStatus
  <2>4. PICK e : e = WithRows(d, d.strategies, b, d.results)
    OBVIOUS
  <2>5. r[1] = e /\ r[2] = t
    BY <1>2, <1>5, <2>2, <2>4 DEF Dbs, WithRows, Relabel
  <2>6. e \in Dbs /\ e.strategies = d.strategies /\ e.versions = b /\ e.approvals = d.approvals
    BY <1>2, <1>s, <1>r, <2>3, <2>4, DbUpdate
  <2>7. /\ Len(e.strategies) = Len(d.strategies) /\ Len(e.versions) = Len(d.versions)
        /\ e.strategies[t.sid].cur = g.verno /\ e.versions[g.verno].sid = t.sid
    BY <1>2, <2>3, <2>6
  <2>8. e \in Dbs /\ e.approvals = d.approvals /\ ResultFits(h, t, e) /\ t \in TrackRows
    BY <1>2, <1>4, <2>6
  <2> QED BY <1>1, <2>5, <2>7, <2>8, CodeStillFits
<1>6. ASSUME NEW s \in {"Passed", "Failed"},
             r = <<[d EXCEPT !.versions[g.verno].status = s, !.strategies[t.sid].status = "Backtesting"], t>>
      PROVE  Fits(h, r[2], r[1])
  <2>1. s \in Statuses /\ "Backtesting" \in Statuses
    BY DEF Statuses
  <2>2. PICK a, b : a = Relabel(d.strategies, t.sid, "Backtesting") /\ b = Relabel(d.versions, g.verno, s)
    OBVIOUS
  <2>3. b \in Seq(VersionRows) /\ Len(b) = Len(d.versions) /\ b[g.verno].sid = d.versions[g.verno].sid
    BY <1>v, <2>1, <2>2, NewVersionStatus
  <2>4. a \in Seq(StrategyRows) /\ Len(a) = Len(d.strategies) /\ a[t.sid].cur = d.strategies[t.sid].cur
    BY <1>s, <2>1, <2>2, NewStatus
  <2>5. PICK e : e = WithRows(d, a, b, d.results)
    OBVIOUS
  <2>6. r[1] = e /\ r[2] = t
    BY <1>2, <1>6, <2>2, <2>5 DEF Dbs, WithRows, Relabel
  <2>7. e \in Dbs /\ e.strategies = a /\ e.versions = b /\ e.approvals = d.approvals
    BY <1>2, <1>r, <2>3, <2>4, <2>5, DbUpdate
  <2>8. /\ Len(e.strategies) = Len(d.strategies) /\ Len(e.versions) = Len(d.versions)
        /\ e.strategies[t.sid].cur = g.verno /\ e.versions[g.verno].sid = t.sid
    BY <1>2, <2>3, <2>4, <2>7
  <2>9. e \in Dbs /\ e.approvals = d.approvals /\ ResultFits(h, t, e) /\ t \in TrackRows
    BY <1>2, <1>4, <2>7
  <2> QED BY <1>1, <2>6, <2>8, <2>9, CodeStillFits
<1>7. g.verno # 0
  BY <1>v
<1> QED BY <1>2, <1>5, <1>6, <1>7 DEF PersistValidation

Judge(q, i, v) == [q EXCEPT ![i].verdict = v]
Rate(q, i, v) == [q EXCEPT ![i].risk = v]

LEMMA NewVerdict ==
    ASSUME NEW q \in Seq(ResultRows), NEW i \in 1 .. Len(q), NEW v \in Words
    PROVE  /\ Judge(q, i, v) \in Seq(ResultRows) /\ Len(Judge(q, i, v)) = Len(q)
           /\ Judge(q, i, v)[i].ver = q[i].ver /\ Judge(q, i, v)[i].verdict = v
<1>1. q[i] \in ResultRows /\ DOMAIN q = 1 .. Len(q)
  OBVIOUS
<1>2. PICK y : y = [q[i] EXCEPT !.verdict = v]
  OBVIOUS
<1>3. y \in ResultRows /\ y.ver = q[i].ver /\ y.verdict = v
  BY <1>1, <1>2 DEF ResultRows
<1>4. Judge(q, i, v) = [q EXCEPT ![i] = y]
  BY <1>2 DEF Judge
<1> QED BY <1>3, <1>4, SetRow

LEMMA NewRisk ==
    ASSUME NEW q \in Seq(ResultRows), NEW i \in 1 .. Len(q), NEW v \in Words
    PROVE  /\ Rate(q, i, v) \in Seq(ResultRows) /\ Len(Rate(q, i, v)) = Len(q)
           /\ Rate(q, i, v)[i].ver = q[i].ver /\ Rate(q, i, v)[i].verdict = q[i].verdict /\ Rate(q, i, v)[i].risk = v
<1>1. q[i] \in ResultRows /\ DOMAIN q = 1 .. Len(q)
  OBVIOUS
<1>2. PICK y : y = [q[i] EXCEPT !.risk = v]
  OBVIOUS
<1>3. y \in ResultRows /\ y.ver = q[i].ver /\ y.verdict = q[i].verdict /\ y.risk = v
  BY <1>1, <1>2 DEF ResultRows
<1>4. Rate(q, i, v) = [q EXCEPT ![i] = y]
  BY <1>2 DEF Rate
<1> QED BY <1>3, <1>4, SetRow

LEMMA Backtested ==
    ASSUME NEW g \in GraphRows, NEW h, NodeEffect(g, h), Edge(g, h), NEW t, NEW d, Fits(g, t, d), account,
           g.next = "backtesting", NEW r \in PersistBacktest(h, d, t)
    PROVE  Fits(h, r[2], r[1])
<1>1. g.next \in OnCode /\ g.next # "deployment"
  BY DEF OnCode
<1>2. d \in Dbs /\ t \in TrackRows /\ d.strategies[t.sid].cur = g.verno /\ d.versions[g.verno].sid = t.sid
      /\ g.verno \in Nat \ {0}
  BY <1>1, CodeRows
<1>3. d.strategies \in Seq(StrategyRows) /\ d.versions \in Seq(VersionRows) /\ d.results \in Seq(ResultRows)
  BY <1>1, CodeRows
<1>4. h.next = "evaluator" /\ h.verno = g.verno
  BY DEF Edge, NodeEffect
<1>5. PICK y : y = [ver |-> g.verno, verdict |-> "none", risk |-> "none"]
  OBVIOUS
<1>6. y \in ResultRows /\ y.ver = g.verno
  BY <1>2, <1>5 DEF ResultRows, Words
<1>7. PICK c, n : c = Append(d.results, y) /\ n = Len(d.results) + 1
  OBVIOUS
<1>8. c \in Seq(ResultRows) /\ n \in Nat /\ n \in 1 .. Len(c) /\ c[n] = y
  BY <1>3, <1>6, <1>7, AddRow
<1>9. PICK e, u : e = WithRows(d, d.strategies, d.versions, c) /\ u = [t EXCEPT !.result = n]
  OBVIOUS
<1>10. r[1] = e /\ r[2] = u
  <2>1. r = <<[d EXCEPT !.results = c], u>>
    BY <1>2, <1>5, <1>7, <1>9 DEF PersistBacktest
  <2> QED BY <1>2, <1>9, <2>1 DEF Dbs, WithRows
<1>11. u \in TrackRows /\ u.sid = t.sid /\ u.result = n
  BY <1>2, <1>8, <1>9 DEF TrackRows
<1>12. e \in Dbs /\ e.strategies = d.strategies /\ e.versions = d.versions /\ e.results = c /\ e.approvals = d.approvals
  BY <1>2, <1>3, <1>8, <1>9, DbUpdate
<1>13. ResultFits(h, u, e)
  BY <1>4, <1>6, <1>8, <1>11, <1>12 DEF ResultFits, OnPassed
<1>14. /\ Len(e.strategies) = Len(d.strategies) /\ Len(e.versions) = Len(d.versions)
       /\ e.strategies[t.sid].cur = g.verno /\ e.versions[g.verno].sid = t.sid
  BY <1>2, <1>12
<1> QED BY <1>1, <1>10, <1>11, <1>12, <1>13, <1>14, CodeStillFits

(* What a step that works on a backtest finds. *)
LEMMA ResultRow ==
    ASSUME NEW g \in GraphRows, NEW t, NEW d, Fits(g, t, d), account, g.next \in OnResult
    PROVE  /\ g.next \in OnCode /\ t.result \in 1 .. Len(d.results) /\ d.results[t.result].ver = g.verno
           /\ g.next \in OnPassed => d.results[t.result].verdict = "PASS"
           /\ g.next = "deployment" => d.results[t.result].risk = g.risk
BY DEF Fits, RowsFit, ResultFits, OnCode

LEMMA Judged ==
    ASSUME NEW g \in GraphRows, NEW h, NodeEffect(g, h), Edge(g, h), NEW t, NEW d, Fits(g, t, d), account,
           g.next = "evaluator", NEW r \in PersistVerdict(h, d, t)
    PROVE  Fits(h, r[2], r[1])
<1>1. g.next \in OnResult /\ g.next # "deployment" /\ g.next \in OnCode
  BY DEF OnResult, OnCode, OnPassed
<1>2. d \in Dbs /\ t \in TrackRows /\ d.strategies[t.sid].cur = g.verno /\ d.versions[g.verno].sid = t.sid
  BY <1>1, CodeRows
<1>3. d.strategies \in Seq(StrategyRows) /\ t.sid \in 1 .. Len(d.strategies)
  BY <1>1, CodeRows
<1>4. d.versions \in Seq(VersionRows) /\ d.results \in Seq(ResultRows)
  BY <1>1, CodeRows
<1>5. t.result \in 1 .. Len(d.results) /\ d.results[t.result].ver = g.verno
  BY <1>1, ResultRow
<1>6. h.verno = g.verno /\ h.verdict \in Words /\ (h.next = "memory_ingest" \/ (h.next = "optimization" /\ h.verdict = "PASS"))
  BY DEF Edge, NodeEffect, GraphRows
<1>7. PICK a, c : a = Relabel(d.strategies, t.sid, IF h.verdict = "PASS" THEN "Optimizing" ELSE d.strategies[t.sid].status) /\ c = Judge(d.results, t.result, h.verdict)
  OBVIOUS
<1>8. a \in Seq(StrategyRows) /\ Len(a) = Len(d.strategies) /\ a[t.sid].cur = d.strategies[t.sid].cur
  <2>1. d.strategies[t.sid].status \in Statuses
    <3>1. d.strategies[t.sid] \in StrategyRows
      BY <1>3
    <3> QED BY <3>1 DEF StrategyRows
  <2>2. (IF h.verdict = "PASS" THEN "Optimizing" ELSE d.strategies[t.sid].status) \in Statuses
    BY <2>1 DEF Statuses
  <2> QED BY <1>3, <1>7, <2>2, NewStatus
<1>9. c \in Seq(ResultRows) /\ Len(c) = Len(d.results) /\ c[t.result].ver = d.results[t.result].ver
      /\ c[t.result].verdict = h.verdict
  BY <1>4, <1>5, <1>6, <1>7, NewVerdict
<1>10. PICK e : e = WithRows(d, a, d.versions, c)
  OBVIOUS
<1>11. r[1] = e /\ r[2] = t
  <2>1. r = <<[d EXCEPT !.results[t.result].verdict = h.verdict,
                        !.strategies[t.sid].status = IF h.verdict = "PASS" THEN "Optimizing" ELSE @], t>>
    BY DEF PersistVerdict
  <2> QED BY <1>2, <1>7, <1>10, <2>1 DEF Dbs, WithRows, Relabel, Judge
<1>12. e \in Dbs /\ e.strategies = a /\ e.versions = d.versions /\ e.results = c /\ e.approvals = d.approvals
  BY <1>2, <1>4, <1>8, <1>9, <1>10, DbUpdate
<1>13. ResultFits(h, t, e)
  BY <1>5, <1>6, <1>9, <1>12 DEF ResultFits, OnPassed, OnResult
<1>14. /\ Len(e.strategies) = Len(d.strategies) /\ Len(e.versions) = Len(d.versions)
       /\ e.strategies[t.sid].cur = g.verno /\ e.versions[g.verno].sid = t.sid
  BY <1>2, <1>8, <1>12
<1> QED BY <1>1, <1>2, <1>11, <1>12, <1>13, <1>14, CodeStillFits

LEMMA Optimized ==
    ASSUME NEW g \in GraphRows, NEW h, NodeEffect(g, h), Edge(g, h), NEW t, NEW d, Fits(g, t, d), account,
           g.next = "optimization", NEW r \in PersistOptimization(h, d, t)
    PROVE  Fits(h, r[2], r[1])
<1>1. g.next \in OnResult /\ g.next # "deployment" /\ g.next \in OnCode /\ g.next \in OnPassed
  BY DEF OnResult, OnCode, OnPassed
<1>2. d \in Dbs /\ t \in TrackRows /\ d.strategies[t.sid].cur = g.verno /\ d.versions[g.verno].sid = t.sid
  BY <1>1, CodeRows
<1>3. d.strategies \in Seq(StrategyRows) /\ t.sid \in 1 .. Len(d.strategies)
  BY <1>1, CodeRows
<1>4. d.versions \in Seq(VersionRows) /\ d.results \in Seq(ResultRows)
  BY <1>1, CodeRows
<1>5. t.result \in 1 .. Len(d.results) /\ d.results[t.result].ver = g.verno /\ d.results[t.result].verdict = "PASS"
  BY <1>1, ResultRow
<1>6. h.verno = g.verno /\ h.next = "risk_manager"
  BY DEF Edge, NodeEffect, GraphRows
<1>7. PICK a, c : a = Relabel(d.strategies, t.sid, "RiskReview") /\ c = d.results
  OBVIOUS
<1>8. a \in Seq(StrategyRows) /\ Len(a) = Len(d.strategies) /\ a[t.sid].cur = d.strategies[t.sid].cur
  <2>1. "RiskReview" \in Statuses
    BY DEF Statuses
  <2> QED BY <1>3, <1>7, <2>1, NewStatus
<1>9. c \in Seq(ResultRows) /\ Len(c) = Len(d.results) /\ c[t.result].ver = d.results[t.result].ver
      /\ c[t.result].verdict = d.results[t.result].verdict
  BY <1>4, <1>5, <1>6, <1>7
<1>10. PICK e : e = WithRows(d, a, d.versions, c)
  OBVIOUS
<1>11. r[1] = e /\ r[2] = t
  <2>1. r = <<[d EXCEPT !.strategies[t.sid].status = "RiskReview"], t>>
    BY DEF PersistOptimization
  <2> QED BY <1>2, <1>7, <1>10, <2>1 DEF Dbs, WithRows, Relabel
<1>12. e \in Dbs /\ e.strategies = a /\ e.versions = d.versions /\ e.results = c /\ e.approvals = d.approvals
  BY <1>2, <1>4, <1>8, <1>9, <1>10, DbUpdate
<1>13. ResultFits(h, t, e)
  BY <1>5, <1>6, <1>9, <1>12 DEF ResultFits, OnPassed, OnResult
<1>14. /\ Len(e.strategies) = Len(d.strategies) /\ Len(e.versions) = Len(d.versions)
       /\ e.strategies[t.sid].cur = g.verno /\ e.versions[g.verno].sid = t.sid
  BY <1>2, <1>8, <1>12
<1> QED BY <1>1, <1>2, <1>11, <1>12, <1>13, <1>14, CodeStillFits

LEMMA RiskReviewed ==
    ASSUME NEW g \in GraphRows, NEW h, NodeEffect(g, h), Edge(g, h), NEW t, NEW d, Fits(g, t, d), account,
           g.next = "risk_manager", NEW r \in PersistRisk(h, d, t)
    PROVE  Fits(h, r[2], r[1])
<1>1. g.next \in OnResult /\ g.next # "deployment" /\ g.next \in OnCode /\ g.next \in OnPassed
  BY DEF OnResult, OnCode, OnPassed
<1>2. d \in Dbs /\ t \in TrackRows /\ d.strategies[t.sid].cur = g.verno /\ d.versions[g.verno].sid = t.sid
  BY <1>1, CodeRows
<1>3. d.strategies \in Seq(StrategyRows) /\ t.sid \in 1 .. Len(d.strategies)
  BY <1>1, CodeRows
<1>4. d.versions \in Seq(VersionRows) /\ d.results \in Seq(ResultRows)
  BY <1>1, CodeRows
<1>5. t.result \in 1 .. Len(d.results) /\ d.results[t.result].ver = g.verno /\ d.results[t.result].verdict = "PASS"
  BY <1>1, ResultRow
<1>6. h.verno = g.verno /\ h.risk \in Words /\ h.next = "deployment"
  BY DEF Edge, NodeEffect, GraphRows
<1>7. PICK a, c : a = d.strategies /\ c = Rate(d.results, t.result, h.risk)
  OBVIOUS
<1>8. a \in Seq(StrategyRows) /\ Len(a) = Len(d.strategies) /\ a[t.sid].cur = d.strategies[t.sid].cur
  BY <1>3, <1>7
<1>9. c \in Seq(ResultRows) /\ Len(c) = Len(d.results) /\ c[t.result].ver = d.results[t.result].ver
      /\ c[t.result].verdict = d.results[t.result].verdict /\ c[t.result].risk = h.risk
  BY <1>4, <1>5, <1>6, <1>7, NewRisk
<1>10. PICK e : e = WithRows(d, a, d.versions, c)
  OBVIOUS
<1>11. r[1] = e /\ r[2] = t
  <2>1. r = <<[d EXCEPT !.results[t.result].risk = h.risk], t>>
    BY DEF PersistRisk
  <2> QED BY <1>2, <1>7, <1>10, <2>1 DEF Dbs, WithRows, Rate
<1>12. e \in Dbs /\ e.strategies = a /\ e.versions = d.versions /\ e.results = c /\ e.approvals = d.approvals
  BY <1>2, <1>4, <1>8, <1>9, <1>10, DbUpdate
<1>13. ResultFits(h, t, e)
  BY <1>5, <1>6, <1>9, <1>12 DEF ResultFits, OnPassed, OnResult
<1>14. /\ Len(e.strategies) = Len(d.strategies) /\ Len(e.versions) = Len(d.versions)
       /\ e.strategies[t.sid].cur = g.verno /\ e.versions[g.verno].sid = t.sid
  BY <1>2, <1>8, <1>12
<1> QED BY <1>1, <1>2, <1>11, <1>12, <1>13, <1>14, CodeStillFits

LEMMA Deployed ==
    ASSUME NEW g \in GraphRows, NEW h, NodeEffect(g, h), Edge(g, h), NEW t, NEW d, Fits(g, t, d), account,
           g.next = "deployment", NEW org \in BOOLEAN, NEW r \in PersistDeployment(h, d, t, org)
    PROVE  Fits(h, r[2], r[1])
<1>1. g.next \in OnResult /\ g.next \in OnCode /\ g.next \in OnPassed
  BY DEF OnResult, OnCode, OnPassed
<1>2. /\ d \in Dbs /\ t \in TrackRows /\ d.strategies[t.sid].cur = g.verno /\ d.versions[g.verno].sid = t.sid
      /\ d.approvals = <<>> /\ t.sid = g.idea /\ Len(d.strategies) = g.idea /\ Len(d.versions) = g.verno
      /\ g.idea \in Nat /\ g.idea > 0 /\ g.verno \in Nat
  BY <1>1, CodeRows
<1>3. d.strategies \in Seq(StrategyRows) /\ t.sid \in 1 .. Len(d.strategies)
  BY <1>1, CodeRows
<1>4. d.versions \in Seq(VersionRows) /\ d.results \in Seq(ResultRows)
  BY <1>1, CodeRows
<1>5. /\ t.result \in 1 .. Len(d.results) /\ d.results[t.result].ver = g.verno
      /\ d.results[t.result].verdict = "PASS" /\ d.results[t.result].risk = g.risk
  BY <1>1, ResultRow
<1>6. h.verno = g.verno /\ h.idea = g.idea /\ h.next = "END" /\ (h.rec = "PaperTrading" => g.risk # "Reject")
  BY DEF Edge, NodeEffect
<1>7. \A e, u : CodeFits(h, u, e) /\ ResultFits(h, u, e)
  BY <1>6 DEF CodeFits, ResultFits, OnCode, OnResult, OnPassed
<1>8. \A e : Len(e.strategies) = g.idea /\ Len(e.versions) = g.verno => IdeaFits(h, t, e)
  BY <1>2, <1>6 DEF IdeaFits, OnIdea, OnCode, OnResult
<1>9. CASE h.rec # "PaperTrading"
  <2>1. PICK a : a = Relabel(d.strategies, t.sid, "Deprecated")
    OBVIOUS
  <2>2. a \in Seq(StrategyRows) /\ Len(a) = Len(d.strategies)
    <3>1. "Deprecated" \in Statuses
      BY DEF Statuses
    <3> QED BY <1>3, <2>1, <3>1, NewStatus
  <2>3. PICK e : e = WithRows(d, a, d.versions, d.results)
    OBVIOUS
  <2>4. r[1] = e /\ r[2] = t
    <3>1. r = <<[d EXCEPT !.strategies[t.sid].status = "Deprecated"], t>>
      BY <1>9 DEF PersistDeployment
    <3> QED BY <1>2, <2>1, <2>3, <3>1 DEF Dbs, WithRows, Relabel
  <2>5. e \in Dbs /\ e.strategies = a /\ e.versions = d.versions /\ e.approvals = d.approvals
    BY <1>2, <1>4, <2>2, <2>3, DbUpdate
  <2>6. IdeaFits(h, t, e) /\ Announced(h, e) /\ e.approvals = <<>>
    BY <1>2, <1>8, <1>9, <2>2, <2>5 DEF Announced
  <2> QED BY <1>2, <1>6, <1>7, <2>4, <2>5, <2>6, NoApprovals DEF Fits, RowsFit
<1>10. CASE h.rec = "PaperTrading"
  <2>1. PICK a : a = Relabel(d.strategies, t.sid, "PendingPaperApproval")
    OBVIOUS
  <2>2. /\ a \in Seq(StrategyRows) /\ Len(a) = Len(d.strategies) /\ a[t.sid].cur = d.strategies[t.sid].cur
        /\ a[t.sid].status = "PendingPaperApproval"
    <3>1. "PendingPaperApproval" \in Statuses
      BY DEF Statuses
    <3> QED BY <1>3, <2>1, <3>1, NewStatus
  <2>3. PICK f : f = WithRows(d, a, d.versions, d.results)
    OBVIOUS
  <2>4. /\ f \in Dbs /\ f.strategies = a /\ f.versions = d.versions /\ f.results = d.results
        /\ f.approvals = d.approvals
    BY <1>2, <1>4, <2>2, <2>3, DbUpdate
  <2>5. PICK p : p = [sid |-> t.sid, ver |-> g.verno, org |-> org]
    OBVIOUS
  <2>6. p \in ApprovalRows /\ p.sid = g.idea /\ p.ver = g.verno
    BY <1>2, <2>5 DEF ApprovalRows
  <2>7. PICK e : e = [f EXCEPT !.approvals = <<p>>]
    OBVIOUS
  <2>8. /\ e \in Dbs /\ e.strategies = a /\ e.versions = d.versions /\ e.results = d.results /\ e.approvals = <<p>>
    <3>1. <<p>> \in Seq(ApprovalRows)
      BY <2>6
    <3> QED BY <2>4, <2>7, <3>1 DEF Dbs
  <2>9. r[1] = e /\ r[2] = t
    <3>0. PICK k : k = [d EXCEPT !.strategies[t.sid].status = "PendingPaperApproval"]
      OBVIOUS
    <3>1. k = f
      <4>1. d \in Dbs
        BY <1>2
      <4>2. k = [d EXCEPT !.strategies = a]
        BY <2>1, <3>0, <4>1 DEF Dbs, Relabel
      <4>3. f = [d EXCEPT !.strategies = a]
        BY <2>3, <4>1 DEF Dbs, WithRows
      <4> QED BY <4>2, <4>3
    <3>2. r = <<OpenPaperApproval(f, t, org), t>>
      <4>1. r = <<OpenPaperApproval(k, t, org), t>>
        BY <1>10, <3>0 DEF PersistDeployment
      <4> QED BY <3>1, <4>1
    <3>3. f.approvals = <<>> /\ f.results[t.result].ver = g.verno
      BY <1>2, <1>5, <2>4
    <3>4. Append(<<>>, p) = <<p>>
      OBVIOUS
    <3>5. OpenPaperApproval(f, t, org) = [f EXCEPT !.approvals = Append(f.approvals, p)]
      BY <2>5, <3>3 DEF OpenPaperApproval
    <3> QED BY <2>7, <3>2, <3>3, <3>4, <3>5
  <2>10. DOMAIN e.approvals = {1} /\ e.approvals[1] = p
    BY <2>8
  <2>11. Tested(e)
    <3>1. e.strategies[p.sid].cur = g.verno /\ e.versions[g.verno].sid = p.sid
      BY <1>2, <2>2, <2>6, <2>8
    <3>2. /\ t.result \in DOMAIN e.results /\ e.results[t.result].ver = g.verno
          /\ e.results[t.result].verdict = "PASS" /\ e.results[t.result].risk # "Reject"
      BY <1>4, <1>5, <1>6, <1>10, <2>8
    <3> QED BY <2>6, <2>10, <3>1, <3>2 DEF Tested
  <2>12. IdeaFits(h, t, e) /\ Announced(h, e)
    <3>1. e.strategies[h.idea].status = "PendingPaperApproval" /\ h.idea > 0
      BY <1>2, <1>6, <2>2, <2>8
    <3>2. e.approvals[1].sid = h.idea
      BY <1>6, <2>6, <2>10
    <3> QED BY <1>2, <1>8, <2>2, <2>8, <2>10, <3>1, <3>2 DEF Announced
  <2> QED BY <1>2, <1>6, <1>7, <2>8, <2>9, <2>11, <2>12 DEF Fits, RowsFit
<1> QED BY <1>9, <1>10

(* Every step that is persisted leaves rows that fit the new state. *)
LEMMA PersistFits ==
    ASSUME NEW g \in GraphRows, g.next # "END", NEW h \in NodeOutcomes(g), NEW t, NEW d, Fits(g, t, d),
           NEW org \in BOOLEAN, NEW r \in PersistProgress(g.next, h, d, t, org)
    PROVE  Fits(h, r[2], r[1])
<1>1. NodeEffect(g, h) /\ Edge(g, h) /\ g.next \in Nodes
  BY NodeStep DEF GraphRows
<1>2. CASE ~account
  <2>1. t.sid = 0 /\ t.result = 0
    BY <1>2 DEF Fits, RowsFit
  <2>2. r = <<d, t>>
    BY <1>2, <2>1 DEF PersistProgress, PersistStrategy
  <2> QED BY <1>1, <1>2, <2>2, NoAccount
<1>3. CASE account /\ g.next \in {"ceo_agent", "market_analyst", "compliance", "memory_ingest"}
  <2>1. r = <<d, t>>
    BY <1>3 DEF PersistProgress
  <2> QED BY <1>1, <1>3, <2>1, QuietNodes
<1>4. CASE account /\ g.next = "strategy_generator"
  <2>1. r \in PersistStrategy(h, d, t)
    BY <1>4 DEF PersistProgress
  <2> QED BY <1>1, <1>4, <2>1, NewStrategy
<1>5. CASE account /\ g.next \in {"options_strategy_agent", "python_code_generator"}
  <2>1. t.sid # 0
    <3>1. t.sid = g.idea /\ g.idea > 0 /\ g.idea \in Nat
      BY <1>5 DEF Fits, RowsFit, IdeaFits, OnIdea, GraphRows
    <3> QED BY <3>1
  <2>2. CASE g.next = "options_strategy_agent"
    <3>1. r \in StageLegs(h, d, t)
      BY <2>1, <2>2 DEF PersistProgress
    <3> QED BY <1>1, <1>5, <2>2, <3>1, LegsStaged
  <2>3. CASE g.next = "python_code_generator"
    <3>1. r \in PersistVersion(h, d, t)
      BY <2>1, <2>3 DEF PersistProgress
    <3> QED BY <1>1, <1>5, <2>3, <3>1, NewVersion
  <2> QED BY <1>5, <2>2, <2>3
<1>6. CASE account /\ g.next \in {"python_validator", "backtesting"}
  <2>1. t.sid # 0
    <3>1. g.next \in OnCode
      BY <1>6 DEF OnCode
    <3> QED BY <1>6, <3>1, CodeRows
  <2>2. CASE g.next = "python_validator"
    <3>1. r \in PersistValidation(h, d, t)
      BY <2>1, <2>2 DEF PersistProgress
    <3> QED BY <1>1, <1>6, <2>2, <3>1, Validated
  <2>3. CASE g.next = "backtesting"
    <3>1. r \in PersistBacktest(h, d, t)
      BY <2>1, <2>3 DEF PersistProgress
    <3> QED BY <1>1, <1>6, <2>3, <3>1, Backtested
  <2> QED BY <1>6, <2>2, <2>3
<1>7. CASE account /\ g.next \in OnResult
  <2>1. t.result # 0
    BY <1>7, ResultRow
  <2>2. CASE g.next = "evaluator"
    <3>1. r \in PersistVerdict(h, d, t)
      BY <2>1, <2>2 DEF PersistProgress
    <3> QED BY <1>1, <1>7, <2>2, <3>1, Judged
  <2>3. CASE g.next = "optimization"
    <3>1. r \in PersistOptimization(h, d, t)
      BY <2>1, <2>3 DEF PersistProgress
    <3> QED BY <1>1, <1>7, <2>3, <3>1, Optimized
  <2>4. CASE g.next = "risk_manager"
    <3>1. r \in PersistRisk(h, d, t)
      BY <2>1, <2>4 DEF PersistProgress
    <3> QED BY <1>1, <1>7, <2>4, <3>1, RiskReviewed
  <2>5. CASE g.next = "deployment"
    <3>1. r \in PersistDeployment(h, d, t, org)
      BY <2>1, <2>5 DEF PersistProgress
    <3> QED BY <1>1, <1>7, <2>5, <3>1, Deployed
  <2> QED BY <1>7, <2>2, <2>3, <2>4, <2>5 DEF OnResult
<1> QED BY <1>1, <1>2, <1>3, <1>4, <1>5, <1>6, <1>7 DEF Nodes, OnResult

-----------------------------------------------------------------------------
(* The executor, the checkpoint and the root row. *)

RootRows == [status : {"None", "Running", "Paused", "Completed", "Failed", "Halted"}, pause : BOOLEAN,
             snapshot : TrackRows]
ExecutorRows == [phase : {"idle", "stream", "persist", "check", "failed", "halted"}, node : Nodes \cup {"none"},
                 g : GraphRows, tr : TrackRows, steps : Nat, org : BOOLEAN]

(* The thread that drives a run as long as no two requests to resume it overlapped. *)
Driver == x["first"]

ResearchTypeOK == root \in RootRows /\ cp \in GraphRows /\ x \in [Executors -> ExecutorRows]

(* Between two steps the rows fit the state; while a step waits for its transaction they
   fit the state before it. *)
ExecutorFits ==
  /\ Driver.phase # "idle" => cp = Driver.g
  /\ Driver.phase \in {"stream", "check"} => Fits(Driver.g, Driver.tr, db)
  /\ Driver.phase = "persist" =>
       \E g \in GraphRows : /\ g.next = Driver.node /\ g.next # "END" /\ Driver.g \in NodeOutcomes(g)
                            /\ Fits(g, Driver.tr, db)

(* A run that has not begun, is paused or complete has no executor, and the rows fit its
   checkpoint. *)
RootFits ==
  /\ root.status = "None" => Driver.phase = "idle" /\ db = EmptyDb
  /\ root.status = "Paused" => Driver.phase = "idle" /\ Fits(cp, root.snapshot, db)
  /\ root.status = "Completed" => Driver.phase = "idle" /\ \E t : Fits(cp, t, db)

(* Nothing is said of a run that two requests have resumed, until it is retried. *)
OneDriver ==
  /\ ResearchTypeOK /\ x["second"].phase = "idle"
  /\ ExecutorFits /\ RootFits /\ Tested(db)

ResearchInv == account \in BOOLEAN /\ (~overlapped => OneDriver)

LEMMA FirstRows ==
    /\ GraphState \in GraphRows /\ Tracking \in TrackRows /\ EmptyDb \in Dbs /\ Idle \in ExecutorRows
    /\ Fits(GraphState, Tracking, EmptyDb) /\ Tested(EmptyDb)
    /\ Idle.phase = "idle" /\ Idle.g = GraphState /\ Idle.tr = Tracking
<1>1. GraphState \in GraphRows /\ Tracking \in TrackRows
  BY DEF GraphState, Tracking, GraphRows, TrackRows, Nodes, Words
<1>2. EmptyDb \in Dbs /\ EmptyDb.approvals = <<>> /\ EmptyDb.strategies = <<>> /\ EmptyDb.versions = <<>>
  <2>1. /\ <<>> \in Seq(StrategyRows) /\ <<>> \in Seq(VersionRows) /\ <<>> \in Seq(ResultRows)
        /\ <<>> \in Seq(ApprovalRows)
    OBVIOUS
  <2> QED BY <2>1 DEF EmptyDb, Dbs
<1>3. /\ GraphState.next = "ceo_agent" /\ GraphState.rec = "none" /\ GraphState.idea = 0 /\ GraphState.verno = 0
      /\ Tracking.sid = 0 /\ Tracking.result = 0
  BY DEF GraphState, Tracking
<1>4. IdeaFits(GraphState, Tracking, EmptyDb)
  BY <1>2, <1>3 DEF IdeaFits, OnIdea, OnCode, OnResult
<1>5. CodeFits(GraphState, Tracking, EmptyDb) /\ ResultFits(GraphState, Tracking, EmptyDb)
      /\ Announced(GraphState, EmptyDb)
  BY <1>3 DEF CodeFits, ResultFits, Announced, OnCode, OnResult, OnPassed
<1>6. Fits(GraphState, Tracking, EmptyDb)
  BY <1>1, <1>2, <1>3, <1>4, <1>5, NoApprovals DEF Fits, RowsFit
<1>7. Idle \in ExecutorRows /\ Idle.phase = "idle" /\ Idle.g = GraphState /\ Idle.tr = Tracking
  BY <1>1 DEF Idle, ExecutorRows
<1> QED BY <1>1, <1>2, <1>6, <1>7 DEF Fits

LEMMA TypedFits ==
    ASSUME NEW g, NEW t, NEW d, NEW e, Fits(g, t, d), e = [d EXCEPT !.typed = TRUE]
    PROVE  Fits(g, t, e)
<1>1. d \in Dbs
  BY DEF Fits
<1>2. /\ e \in Dbs /\ e.strategies = d.strategies /\ e.versions = d.versions /\ e.results = d.results
      /\ e.approvals = d.approvals
  BY <1>1 DEF Dbs
<1> QED BY <1>2 DEF Fits, RowsFit, IdeaFits, CodeFits, ResultFits, Announced, Tested

LEMMA ResearchInitial == Init => ResearchInv
<1> SUFFICES ASSUME Init PROVE ResearchInv
  OBVIOUS
<1>1. root \in RootRows /\ root.status = "None"
  BY FirstRows DEF Init, RootRows
<1>2. x = [e \in Executors |-> Idle] /\ x["first"] = Idle /\ x["second"] = Idle
  BY DEF Init, Executors
<1> QED BY <1>1, <1>2, FirstRows DEF Init, ResearchInv, OneDriver, ResearchTypeOK, ExecutorFits, RootFits, Driver

LEMMA StartKeeps ==
    ASSUME ResearchInv, NEW org \in BOOLEAN, Start(org), account' = account, db' = EmptyDb
    PROVE  ResearchInv'
<1>1. root' \in RootRows /\ root'.status = "Running"
  BY FirstRows DEF Start, RootRows
<1>2. PICK r : r = [Idle EXCEPT !.phase = "stream", !.org = org]
  OBVIOUS
<1>3. r \in ExecutorRows /\ r.phase = "stream" /\ r.g = GraphState /\ r.tr = Tracking
  BY <1>2, FirstRows DEF ExecutorRows
<1>4. x' \in [Executors -> ExecutorRows] /\ x'["first"] = r /\ x'["second"] = Idle /\ cp' = GraphState
  BY <1>2, <1>3, FirstRows DEF Start, Executors
<1>5. ExecutorFits'
  BY <1>3, <1>4, FirstRows DEF ExecutorFits, Driver, Fits, RowsFit
<1>6. ResearchTypeOK'
  BY <1>1, <1>4, FirstRows DEF ResearchTypeOK
<1> QED BY <1>1, <1>4, <1>5, <1>6, FirstRows DEF ResearchInv, OneDriver, RootFits

LEMMA DriverFields ==
    ASSUME OneDriver
    PROVE  /\ Driver.g \in GraphRows /\ Driver.tr \in TrackRows /\ Driver.org \in BOOLEAN /\ Driver.steps \in Nat
           /\ Driver.node \in Nodes \cup {"none"} /\ Driver \in ExecutorRows /\ cp \in GraphRows
           /\ root \in RootRows /\ root.snapshot \in TrackRows
           /\ root.status \in {"None", "Running", "Paused", "Completed", "Failed", "Halted"}
<1>1. Driver \in ExecutorRows /\ root \in RootRows /\ cp \in GraphRows
  BY DEF OneDriver, ResearchTypeOK, Driver, Executors
<1> QED BY <1>1 DEF ExecutorRows, RootRows

(* The driver moves on, as r; the other executor does not exist. *)
LEMMA DriverMoves ==
    ASSUME OneDriver, NEW r \in ExecutorRows, x' = [x EXCEPT !["first"] = r]
    PROVE  x' \in [Executors -> ExecutorRows] /\ Driver' = r /\ x'["second"].phase = "idle"
BY DEF OneDriver, ResearchTypeOK, Driver, Executors

LEMMA TriggersKeep ==
    ASSUME ResearchInv, TriggerResearch \/ StrategyResearchTask \/ RetryRun
    PROVE  ResearchInv'
<1>1. PICK org \in BOOLEAN : Start(org)
  BY DEF TriggerResearch, StrategyResearchTask, RetryRun
<1>2. CASE RetryRun
  BY <1>1, <1>2, StartKeeps DEF RetryRun
<1>3. CASE TriggerResearch \/ StrategyResearchTask
  <2>1. root.status = "None" /\ UNCHANGED <<account, db, overlapped>>
    BY <1>3 DEF TriggerResearch, StrategyResearchTask
  <2>2. CASE overlapped
    BY <2>1, <2>2 DEF ResearchInv
  <2>3. CASE ~overlapped
    <3>1. db' = EmptyDb
      BY <2>1, <2>3 DEF ResearchInv, OneDriver, RootFits
    <3> QED BY <1>1, <2>1, <3>1, StartKeeps
  <2> QED BY <2>2, <2>3
<1> QED BY <1>2, <1>3

(* Steps that change only the status and the flags of the root row. *)
LEMMA RootMoves ==
    ASSUME OneDriver, UNCHANGED <<account, cp, x, db>>, root' \in RootRows,
           root'.status \in {"Running", "Failed"}
    PROVE  OneDriver'
<1>1. ResearchTypeOK'
  BY DEF OneDriver, ResearchTypeOK
<1>2. ExecutorFits'
  BY DEF OneDriver, ExecutorFits, Driver, Fits, RowsFit
<1> QED BY <1>1, <1>2 DEF OneDriver, RootFits, Tested

LEMMA RequestsKeep ==
    ASSUME OneDriver, PauseRun \/ CancelRun
    PROVE  OneDriver'
<1>1. CASE PauseRun
  <2>1. root' = [root EXCEPT !.pause = TRUE] /\ root.status = "Running"
    BY <1>1 DEF PauseRun
  <2>2. root' \in RootRows /\ root'.status = "Running"
    BY <2>1, DriverFields DEF RootRows
  <2> QED BY <1>1, <2>2, RootMoves DEF PauseRun
<1>2. CASE CancelRun
  <2>1. PICK t \in TrackRows : root' = [root EXCEPT !.status = "Failed", !.pause = FALSE, !.snapshot = t]
    BY <1>2, DriverFields, FirstRows DEF CancelRun
  <2>2. root' \in RootRows /\ root'.status = "Failed"
    BY <2>1, DriverFields DEF RootRows
  <2> QED BY <1>2, <2>2, RootMoves DEF CancelRun
<1> QED BY <1>1, <1>2

(* A request that still finds the run Paused is its only driver. *)
LEMMA ResumeKeeps ==
    ASSUME OneDriver, ResumeRun, root.status = "Paused"
    PROVE  OneDriver'
<1>1. Driver.phase = "idle" /\ Fits(cp, root.snapshot, db) /\ UNCHANGED <<account, cp, db>>
  BY DEF OneDriver, RootFits, ResumeRun
<1>2. PICK r : r = [Idle EXCEPT !.phase = "stream", !.g = cp, !.tr = root.snapshot]
  OBVIOUS
<1>3. r \in ExecutorRows /\ r.phase = "stream" /\ r.g = cp /\ r.tr = root.snapshot
  BY <1>2, DriverFields, FirstRows DEF ExecutorRows
<1>4. x' = [x EXCEPT !["first"] = r]
  BY <1>1, <1>2 DEF ResumeRun, Driver
<1>5. x' \in [Executors -> ExecutorRows] /\ Driver' = r /\ x'["second"].phase = "idle"
  BY <1>3, <1>4, DriverMoves
<1>6. PICK t \in TrackRows : root' = [root EXCEPT !.status = "Running", !.snapshot = t]
  BY DriverFields, FirstRows DEF ResumeRun
<1>7. root' \in RootRows /\ root'.status = "Running"
  BY <1>6, DriverFields DEF RootRows
<1>8. ExecutorFits'
  BY <1>1, <1>3, <1>5 DEF ExecutorFits, Fits, RowsFit
<1>9. ResearchTypeOK'
  BY <1>1, <1>5, <1>7, DriverFields DEF ResearchTypeOK
<1> QED BY <1>1, <1>5, <1>7, <1>8, <1>9 DEF OneDriver, RootFits, Tested

LEMMA StreamStepKeeps ==
    ASSUME OneDriver, StreamStep("first")
    PROVE  OneDriver'
<1>1. PICK g \in NodeOutcomes(Driver.g) :
        /\ cp' = g
        /\ x' = [x EXCEPT !["first"] = [x["first"] EXCEPT !.phase = "persist", !.node = Driver.g.next, !.g = g,
                                                          !.steps = Driver.steps + 1]]
  BY DEF StreamStep, Driver, OneDriver, ResearchTypeOK, Executors
<1>2. Driver.phase = "stream" /\ Driver.g.next # "END" /\ UNCHANGED <<account, root, db>>
  BY DEF StreamStep, Driver
<1>3. Fits(Driver.g, Driver.tr, db) /\ Driver.g \in GraphRows /\ Driver.g.next \in Nodes
  BY <1>2, DriverFields DEF OneDriver, ExecutorFits, GraphRows
<1>4. g \in GraphRows
  BY <1>2, <1>3, NodeStep DEF NodeEffect
<1>5. PICK r : r = [x["first"] EXCEPT !.phase = "persist", !.node = Driver.g.next, !.g = g, !.steps = Driver.steps + 1]
  OBVIOUS
<1>6. r \in ExecutorRows /\ r.phase = "persist" /\ r.node = Driver.g.next /\ r.g = g /\ r.tr = Driver.tr
  <2>1. x["first"] \in ExecutorRows /\ Driver.steps + 1 \in Nat /\ Driver.g.next \in Nodes
    BY <1>3, DriverFields DEF Driver
  <2> QED BY <1>4, <1>5, <2>1 DEF ExecutorRows, Driver
<1>7. x' \in [Executors -> ExecutorRows] /\ Driver' = r /\ x'["second"].phase = "idle"
  BY <1>1, <1>5, <1>6, DriverMoves
<1>8. ExecutorFits'
  BY <1>1, <1>2, <1>3, <1>6, <1>7 DEF ExecutorFits, Fits, RowsFit
<1>9. ResearchTypeOK'
  BY <1>1, <1>2, <1>4, <1>7, DriverFields DEF ResearchTypeOK
<1>10. RootFits'
  BY <1>2 DEF OneDriver, RootFits
<1> QED BY <1>2, <1>7, <1>8, <1>9, <1>10 DEF OneDriver, Tested

(* The stream or a transaction raises: the thread goes to its end. *)
LEMMA RaisesKeep ==
    ASSUME OneDriver, StreamRaises("first") \/ PersistRaises("first")
    PROVE  OneDriver'
<1>1. PICK p \in {"failed", "halted"} : x' = [x EXCEPT !["first"] = [x["first"] EXCEPT !.phase = p]]
  BY DEF StreamRaises, PersistRaises, OneDriver, ResearchTypeOK, Executors, ExecutorRows
<1>2. Driver.phase \in {"stream", "persist"} /\ UNCHANGED <<account, root, cp, db>>
  BY DEF StreamRaises, PersistRaises, Driver
<1>3. PICK r : r = [x["first"] EXCEPT !.phase = p]
  OBVIOUS
<1>4. r \in ExecutorRows /\ r.phase = p /\ r.g = Driver.g
  BY <1>3, DriverFields DEF ExecutorRows, Driver
<1>5. x' \in [Executors -> ExecutorRows] /\ Driver' = r /\ x'["second"].phase = "idle"
  BY <1>1, <1>3, <1>4, DriverMoves
<1>6. ExecutorFits'
  BY <1>2, <1>4, <1>5 DEF OneDriver, ExecutorFits
<1>7. ResearchTypeOK'
  BY <1>2, <1>5, DriverFields DEF ResearchTypeOK
<1>8. RootFits'
  BY <1>2 DEF OneDriver, RootFits
<1> QED BY <1>2, <1>5, <1>6, <1>7, <1>8 DEF OneDriver, Tested

LEMMA PersistStepKeeps ==
    ASSUME OneDriver, account \in BOOLEAN, PersistStep("first")
    PROVE  OneDriver'
<1>1. PICK r \in PersistProgress(Driver.node, Driver.g, db, Driver.tr, Driver.org) :
        /\ db' = [r[1] EXCEPT !.typed = TRUE]
        /\ x' = [x EXCEPT !["first"] = [x["first"] EXCEPT !.phase = "check", !.tr = r[2]]]
  BY DEF PersistStep, Driver, OneDriver, ResearchTypeOK, Executors
<1>2. Driver.phase = "persist" /\ UNCHANGED <<account, root, cp>>
  BY DEF PersistStep, Driver
<1>3. PICK g \in GraphRows :
        g.next = Driver.node /\ g.next # "END" /\ Driver.g \in NodeOutcomes(g) /\ Fits(g, Driver.tr, db)
  BY <1>2 DEF OneDriver, ExecutorFits
<1>4. Fits(Driver.g, r[2], r[1])
  BY <1>1, <1>3, DriverFields, PersistFits
<1>5. PICK d : d = [r[1] EXCEPT !.typed = TRUE]
  OBVIOUS
<1>6. Fits(Driver.g, r[2], d) /\ db' = d
  BY <1>1, <1>4, <1>5, TypedFits
<1>7. r[2] \in TrackRows /\ Tested(d)
  BY <1>6 DEF Fits
<1>8. PICK q : q = [x["first"] EXCEPT !.phase = "check", !.tr = r[2]]
  OBVIOUS
<1>9. q \in ExecutorRows /\ q.phase = "check" /\ q.g = Driver.g /\ q.tr = r[2]
  BY <1>7, <1>8, DriverFields DEF ExecutorRows, Driver
<1>10. x' \in [Executors -> ExecutorRows] /\ Driver' = q /\ x'["second"].phase = "idle"
  BY <1>1, <1>8, <1>9, DriverMoves
<1>11. ExecutorFits'
  BY <1>2, <1>6, <1>9, <1>10 DEF OneDriver, ExecutorFits, Fits, RowsFit
<1>12. ResearchTypeOK'
  BY <1>2, <1>10, DriverFields DEF ResearchTypeOK
<1>13. RootFits'
  BY <1>2 DEF OneDriver, RootFits
<1> QED BY <1>6, <1>7, <1>10, <1>11, <1>12, <1>13 DEF OneDriver

LEMMA PauseCheckKeeps ==
    ASSUME OneDriver, PauseCheck("first")
    PROVE  OneDriver'
<1>1. /\ Driver.phase = "check" /\ UNCHANGED <<account, cp, db>> /\ cp = Driver.g /\ Fits(cp, Driver.tr, db)
      /\ Driver.tr \in TrackRows
  BY DriverFields DEF PauseCheck, OneDriver, ExecutorFits, Driver
<1>2. CASE /\ root' = [status |-> "Paused", pause |-> FALSE, snapshot |-> TrackingSnapshot(Driver.tr)]
           /\ x' = [x EXCEPT !["first"] = Idle]
  <2>1. root' \in RootRows /\ root'.status = "Paused" /\ root'.snapshot = Driver.tr
    BY <1>1, <1>2 DEF RootRows, TrackingSnapshot
  <2>2. x' \in [Executors -> ExecutorRows] /\ Driver' = Idle /\ x'["second"].phase = "idle"
    BY <1>2, FirstRows, DriverMoves
  <2>3. RootFits'
    BY <1>1, <2>1, <2>2, FirstRows DEF RootFits, Fits, RowsFit
  <2>4. ExecutorFits' /\ ResearchTypeOK'
    BY <1>1, <2>1, <2>2, DriverFields, FirstRows DEF ExecutorFits, ResearchTypeOK
  <2> QED BY <1>1, <2>2, <2>3, <2>4 DEF OneDriver, Tested
<1>3. CASE x' = [x EXCEPT !["first"] = [x["first"] EXCEPT !.phase = "stream"]] /\ UNCHANGED root
  <2>1. PICK r : r = [x["first"] EXCEPT !.phase = "stream"]
    OBVIOUS
  <2>2. r \in ExecutorRows /\ r.phase = "stream" /\ r.g = Driver.g /\ r.tr = Driver.tr
    BY <2>1, DriverFields DEF ExecutorRows, Driver
  <2>3. x' \in [Executors -> ExecutorRows] /\ Driver' = r /\ x'["second"].phase = "idle"
    BY <1>3, <2>1, <2>2, DriverMoves
  <2>4. ExecutorFits'
    BY <1>1, <2>2, <2>3 DEF ExecutorFits, Fits, RowsFit
  <2>5. ResearchTypeOK' /\ RootFits'
    BY <1>1, <1>3, <2>3, DriverFields DEF OneDriver, RootFits, ResearchTypeOK
  <2> QED BY <1>1, <2>3, <2>4, <2>5 DEF OneDriver, Tested
<1>4. x' = [x EXCEPT !["first"].phase = "stream"] => x' = [x EXCEPT !["first"] = [x["first"] EXCEPT !.phase = "stream"]]
  BY DEF OneDriver, ResearchTypeOK, Executors, ExecutorRows
<1> QED BY <1>2, <1>3, <1>4 DEF PauseCheck, Driver

(* A thread that ends, in whatever way, leaves a row that fits. *)
LEMMA EndsKeep ==
    ASSUME OneDriver, CloseRun("first") \/ Crash("first")
    PROVE  OneDriver'
<1>0. x' = [x EXCEPT !["first"] = Idle] /\ UNCHANGED <<account, cp, db>> /\ Driver.phase # "idle"
  BY DEF CloseRun, Crash, Ending, Driver
<1>1. x' \in [Executors -> ExecutorRows] /\ Driver' = Idle /\ x'["second"].phase = "idle" /\ Idle.phase = "idle"
  BY <1>0, FirstRows, DriverMoves
<1>2. ExecutorFits'
  BY <1>1 DEF ExecutorFits
<1>3. CASE Crash("first")
  <2>1. root' = root
    BY <1>3 DEF Crash
  <2>2. ResearchTypeOK' /\ RootFits'
    BY <1>0, <1>1, <2>1, DriverFields DEF OneDriver, RootFits, ResearchTypeOK
  <2> QED BY <1>0, <1>1, <1>2, <2>2 DEF OneDriver, Tested
<1>4. CASE CloseRun("first")
  <2>1. PICK s \in {"Failed", "Halted", "Completed"}, t \in TrackRows :
          root' = [root EXCEPT !.status = s, !.snapshot = t] /\ (s = "Completed" => Driver.phase = "stream")
    BY <1>4, DriverFields, FirstRows DEF CloseRun, Ending, EndStatus, Driver
  <2>2. root' \in RootRows /\ root'.status = s
    BY <2>1, DriverFields DEF RootRows
  <2>3. Driver.phase = "stream" => Fits(cp, Driver.tr, db)
    BY DEF OneDriver, ExecutorFits
  <2>4. RootFits'
    BY <1>0, <1>1, <2>1, <2>2, <2>3 DEF RootFits, Fits, RowsFit
  <2>5. ResearchTypeOK'
    BY <1>0, <1>1, <2>2, DriverFields DEF ResearchTypeOK
  <2> QED BY <1>0, <1>1, <1>2, <2>4, <2>5 DEF OneDriver, Tested
<1> QED BY <1>3, <1>4

(* As long as no late request has resumed the run, whatever an executor does, the first one
   does. *)
LEMMA ExecutorsKeep ==
    ASSUME OneDriver, account \in BOOLEAN, NEW e \in Executors, Crash(e) \/ Executor(e)
    PROVE  OneDriver'
<1>1. e = "first"
  <2>1. x[e].phase # "idle"
    BY DEF Crash, Executor, StreamStep, StreamRaises, PersistStep, PersistRaises, PauseCheck, CloseRun, Ending
  <2> QED BY <2>1 DEF OneDriver, Executors
<1> QED BY <1>1, StreamStepKeeps, RaisesKeep, PersistStepKeeps, PauseCheckKeeps, EndsKeep DEF Executor

LEMMA ResearchSteps ==
    ASSUME ResearchInv, [Next]_vars
    PROVE  ResearchInv'
<1>1. CASE TriggerResearch \/ StrategyResearchTask \/ RetryRun
  BY <1>1, TriggersKeep
<1>2. CASE ~(TriggerResearch \/ StrategyResearchTask \/ RetryRun)
  <2>0. \/ UNCHANGED vars \/ StrategyResearchReturns \/ PauseRun \/ CancelRun \/ ResumeRequest \/ ResumeRun \/ ResumeFails
        \/ \E e \in Executors : Crash(e) \/ Executor(e)
    BY <1>2 DEF Next
  <2>1. account' = account /\ (overlapped' = overlapped \/ ResumeRun)
    BY <2>0 DEF vars, StrategyResearchReturns, PauseRun, CancelRun, ResumeRequest, ResumeRun, ResumeFails, Crash,
                Executor, StreamStep, StreamRaises, PersistStep, PersistRaises, PauseCheck, CloseRun
  <2>2. ASSUME ~overlapped' PROVE OneDriver'
    <3>0. ResumeRun => (overlapped' <=> overlapped \/ root.status # "Paused")
      BY Zenon DEF ResumeRun
    <3>1. ~overlapped /\ (ResumeRun => root.status = "Paused")
      <4>1. ResumeRun => ~overlapped /\ root.status = "Paused"
        BY <2>2, <3>0, Zenon
      <4>2. ASSUME overlapped' = overlapped PROVE ~overlapped
        <5>1. overlapped = overlapped'
          BY <4>2
        <5> QED BY <2>2, <5>1, Zenon
      <4> QED BY <2>1, <4>1, <4>2, Zenon
    <3>2. OneDriver /\ account \in BOOLEAN
      BY <3>1 DEF ResearchInv
    <3>3. CASE UNCHANGED <<account, root, cp, x, db>>
      BY <3>2, <3>3 DEF OneDriver, ResearchTypeOK, ExecutorFits, RootFits, Driver, Fits, RowsFit, Tested
    <3>4. UNCHANGED vars \/ StrategyResearchReturns \/ ResumeRequest \/ ResumeFails => UNCHANGED <<account, root, cp, x, db>>
      BY DEF vars, StrategyResearchReturns, ResumeRequest, ResumeFails
    <3> QED BY <2>0, <3>1, <3>2, <3>3, <3>4, RequestsKeep, ResumeKeeps, ExecutorsKeep
  <2> QED BY <2>1, <2>2 DEF ResearchInv
<1> QED BY <1>1, <1>2

(* A request for approval names the current version of its strategy, and a backtest of that
   very version passed and was not refused by risk, whatever was retried, rejected, paused,
   cancelled or lost in a crash, unless a request resumed a run that was not Paused any more (_persist_strategy_progress,
   _open_paper_approval_request). *)
THEOREM DeploysOnlyTested == Spec => []DeployOnlyTested
<1>1. Init => ResearchInv
  BY ResearchInitial
<1>2. ResearchInv /\ [Next]_vars => ResearchInv'
  BY ResearchSteps
<1>3. ResearchInv => DeployOnlyTested
  BY DEF ResearchInv, OneDriver, Tested, DeployOnlyTested
<1> QED BY <1>1, <1>2, <1>3, PTL DEF Spec

LEMMA NothingLost ==
    ASSUME ResearchInv
    PROVE  ResumeLosesNothing
<1>1. ASSUME account, ~overlapped, root.status \in {"Paused", "Completed"}
      PROVE  \E t : IdeaFits(cp, t, db) /\ Announced(cp, db)
  BY <1>1 DEF ResearchInv, OneDriver, RootFits, Fits, RowsFit
<1>2. RecommendationReachesHuman
  BY <1>1 DEF RecommendationReachesHuman, IdeaFits, Announced
<1>3. CheckpointNeverAhead
  BY <1>1 DEF CheckpointNeverAhead, IdeaFits
<1> QED BY <1>2, <1>3 DEF ResumeLosesNothing

(* Of a paused or completed run every idea and every version in the checkpoint has its row,
   and a recommendation to paper-trade has reached its approval request, however many
   requests to resume it are in flight, unless one of them found it Paused and wrote when it
   was not any more (_execute_graph_run, _tracking_to_snapshot, resume_run). *)
THEOREM ResumesLoseNothing == Spec => []ResumeLosesNothing
<1>1. Init => ResearchInv
  BY ResearchInitial
<1>2. ResearchInv /\ [Next]_vars => ResearchInv'
  BY ResearchSteps
<1>3. ResearchInv => ResumeLosesNothing
  BY NothingLost
<1> QED BY <1>1, <1>2, <1>3, PTL DEF Spec
=============================================================================
