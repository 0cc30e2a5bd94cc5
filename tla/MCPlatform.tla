----------------------------- MODULE MCPlatform -----------------------------
(* The services around the engine, which share no state: every behaviour exercises one
   of them, the unit, and leaves the others as they were. *)
EXTENDS Sessions, TransitKeys, AuditChain, PromptRegistry, RiskLimits, PaperAccount, PaperLegs,
        MarketData, BhavcopyCache, SkillCatalog, GoLiveGate, PlanCheck, LlmRouter, EventLog, Conflicts

VARIABLE unit

Units == {"sessions", "keys", "audit", "prompts", "limits", "paper", "legs",
          "market", "bhavcopy", "skills", "gate", "plan", "llm", "events", "conflicts"}

-----------------------------------------------------------------------------
(* Values of the constants *)
MCLegSizes == {1, 2, -1}
MCChain == <<"upstox_v3", "yfinance">>
MCRouting == << <<"huggingface", "m1">>, <<"ollama", "m2">> >>
MCCustomPairs == {<<"ollama", "m2">>}

PlanTask(k, cap, deps) == [key |-> k, capability |-> cap, depends_on |-> deps]
MCScaffold == << PlanTask("ctx_news", "news_ingestion", {}), PlanTask("ctx_assembly", "context_assembly", {"ctx_news"}) >>
MCSafetyOrder == << "code_validation", "backtesting", "risk_assessment" >>
MCPlanCapsInOrder == << "code_validation", "backtesting", "risk_assessment", "strategy_research", "context_assembly" >>
MCPlanCaps == {MCPlanCapsInOrder[i] : i \in 1 .. 5}

(* All plans of three tasks up to the names of the tasks, four with a prerequisite each, among
   them chains that need two passes, and the ones that are refused at first sight. *)
MCPlans ==
  { << PlanTask("a", MCPlanCapsInOrder[i], da), PlanTask("b", MCPlanCapsInOrder[j], db),
       PlanTask("c", MCPlanCapsInOrder[k], dc) >> :
      <<i, j, k>> \in {x \in (1 .. 5) \X (1 .. 5) \X (1 .. 5) : x[1] <= x[2] /\ x[2] <= x[3]},
      da \in SUBSET {"b", "c"}, db \in SUBSET {"a", "c"}, dc \in SUBSET {"a", "b"} }
  \cup { [n \in 1 .. 4 |-> PlanTask(<<"a", "b", "c", "d">>[n], MCPlanCapsInOrder[<<1, 2, 4, 5>>[n]],
                                     IF d[n] = "none" THEN {} ELSE {d[n]})] :
           d \in [1 .. 4 -> {"a", "b", "c", "d", "none"}] }
  \cup { << PlanTask("a", c, ds) >> : c \in MCPlanCaps \cup {"undeclared"}, ds \in {{}, {"a"}, {"zzz"}} }
  \cup { <<>>, << PlanTask("a", "backtesting", {}), PlanTask("a", "backtesting", {}) >> }
MCDeclared == MCPlanCaps \cup {"news_ingestion", "portfolio_read", "adhoc_synthesis"}

-----------------------------------------------------------------------------
Init ==
  /\ unit \in Units
  /\ SessionsInit /\ KeysInit /\ AuditInit /\ PromptInit /\ RiskLimitsInit /\ PaperInit /\ LegsInit
  /\ MarketInit /\ BhavInit /\ SkillInit /\ GateInit /\ PlanCheckInit /\ LlmInit /\ EventInit /\ ConflictInit
  /\ unit # "paper" => price = CHOOSE p \in Prices : TRUE
  /\ unit # "legs" => plan = CHOOSE p \in Plans : TRUE

(* The step of unit u, with which all others stand still. *)
Idle(u, others) == unit = u /\ UNCHANGED <<unit, others>>

PaperSide == <<paperVars, legVars, marketVars, bhavVars>>
AccessSide == <<sessionVars, keyVars, auditVars, promptVars, riskLimitVars>>
AgentSide == <<skillVars, gateVars, planVars, llmVars, evVars, conflictVars>>

Next ==
  \/ Idle("sessions", <<keyVars, auditVars, promptVars, riskLimitVars, PaperSide, AgentSide>>) /\ SessionsNext
  \/ Idle("keys", <<sessionVars, auditVars, promptVars, riskLimitVars, PaperSide, AgentSide>>) /\ KeysNext
  \/ Idle("audit", <<sessionVars, keyVars, promptVars, riskLimitVars, PaperSide, AgentSide>>) /\ AuditNext
  \/ Idle("prompts", <<sessionVars, keyVars, auditVars, riskLimitVars, PaperSide, AgentSide>>) /\ PromptNext
  \/ Idle("limits", <<sessionVars, keyVars, auditVars, promptVars, PaperSide, AgentSide>>) /\ RiskLimitsNext
  \/ Idle("paper", <<AccessSide, legVars, marketVars, bhavVars, AgentSide>>) /\ PaperNext
  \/ Idle("legs", <<AccessSide, paperVars, marketVars, bhavVars, AgentSide>>) /\ LegsNext
  \/ Idle("market", <<AccessSide, paperVars, legVars, bhavVars, AgentSide>>) /\ MarketNext
  \/ Idle("bhavcopy", <<AccessSide, paperVars, legVars, marketVars, AgentSide>>) /\ BhavNext
  \/ Idle("skills", <<AccessSide, PaperSide, gateVars, planVars, llmVars, evVars, conflictVars>>) /\ SkillNext
  \/ Idle("gate", <<AccessSide, PaperSide, skillVars, planVars, llmVars, evVars, conflictVars>>) /\ GateNext
  \/ Idle("plan", <<AccessSide, PaperSide, skillVars, gateVars, llmVars, evVars, conflictVars>>) /\ PlanCheckNext
  \/ Idle("llm", <<AccessSide, PaperSide, skillVars, gateVars, planVars, evVars, conflictVars>>) /\ LlmNext
  \/ Idle("events", <<AccessSide, PaperSide, skillVars, gateVars, planVars, llmVars, conflictVars>>) /\ EventNext
  \/ Idle("conflicts", <<AccessSide, PaperSide, skillVars, gateVars, planVars, llmVars, evVars>>) /\ ConflictNext

Spec == Init /\ [][Next]_<<unit, AccessSide, PaperSide, AgentSide>>
=============================================================================
