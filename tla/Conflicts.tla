------------------------------ MODULE Conflicts ------------------------------
(* What the organisation records when the results of its agents oppose each other:
   once all tasks of a run have ended, each scheduler loop that closes the run looks
   for an opposition and, in the same transaction, records a decision and, where a
   veto is involved, an escalation to a human.  An artefact is its type and the one
   thing about its payload that the comparison looks at. *)
EXTENDS Naturals, Sequences, FiniteSets

CONSTANTS
  Closers,       \* scheduler loops, of one process each
  MaxArtefacts,  \* bound on artefact rows of the run
  MaxUnavailable \* bound on tasks that find their agent unavailable

ASSUME ConflictBounds == MaxArtefacts \in Nat /\ MaxUnavailable \in Nat

VARIABLES
  results,     \* ResultArtefact rows
  tasksEnded,  \* no task of the run is left to work on
  decisions,   \* OrganizationalDecision rows, in order
  closer,      \* what a loop found and has not committed
  closed       \* history: some loop has committed its _finalize

conflictVars == <<results, tasksEnded, decisions, closer, closed>>

Views == [MarketContext |-> {"bullish", "bearish", "neutral"}, SentimentReport |-> {"positive", "negative", "neutral"},
          RiskReport |-> {"Reject", "Approve"}, ComplianceReport |-> {"Block", "Pass"},
          StrategyLogic |-> {"any"}, PortfolioRiskReport |-> {"any"}]

Proposals == {"StrategyLogic"}    \* _PROCEED_ARTEFACTS, as far as the comparison goes
Portfolio == {a \in results : a.type = "PortfolioRiskReport"}

NoConflict == [kind |-> "none", rows |-> {}]
NoCloser == [open |-> FALSE, conflict |-> NoConflict]

ConflictInit ==
  /\ results = {} /\ tasksEnded = FALSE /\ decisions = <<>>
  /\ closer = [c \in Closers |-> NoCloser] /\ closed = FALSE

PersistArtefact(t, v) ==
  /\ ~tasksEnded /\ Cardinality(results) < MaxArtefacts
  /\ results' = results \cup {[type |-> t, view |-> v]}
  /\ UNCHANGED <<tasksEnded, decisions, closer, closed>>

Decision(type, role, rows) == [type |-> type, role |-> role, inputs |-> rows]

(* A task without an available agent is reassigned, or escalated to a human. *)
AgentUnavailable(type) ==
  /\ ~tasksEnded /\ Len(decisions) < MaxUnavailable
  /\ decisions' = Append(decisions, Decision(type, IF type = "escalate_human" THEN "SystemAdministrator" ELSE "none", {}))
  /\ UNCHANGED <<results, tasksEnded, closer, closed>>

TasksEnd ==
  /\ ~tasksEnded /\ tasksEnded' = TRUE
  /\ UNCHANGED <<results, decisions, closer, closed>>

-----------------------------------------------------------------------------
RowsOf(rows, type) == {a \in rows : a.type = type}
Says(rows, type, view) == [type |-> type, view |-> view] \in rows
Proposed(rows) == {a \in rows : a.type \in Proposals}

MarketVsSentiment(rows) ==
  \/ Says(rows, "MarketContext", "bullish") /\ Says(rows, "SentimentReport", "negative")
  \/ Says(rows, "MarketContext", "bearish") /\ Says(rows, "SentimentReport", "positive")
RiskVsProposal(rows) == Says(rows, "RiskReport", "Reject") /\ Proposed(rows) # {}
ComplianceVsProposal(rows) == Says(rows, "ComplianceReport", "Block") /\ Proposed(rows) # {}

(* Of several rows of one type the query's first counts, in no particular order. *)
ByType ==
  {rows \in SUBSET results : /\ {a.type : a \in rows} = {a.type : a \in results}
                             /\ \A a, b \in rows : a.type = b.type => a = b}

(* The first opposition, in this order. *)
DetectConflict(rows) ==
  CASE MarketVsSentiment(rows) ->
         [kind |-> "market_vs_sentiment", rows |-> RowsOf(rows, "MarketContext") \cup RowsOf(rows, "SentimentReport")]
    [] ~MarketVsSentiment(rows) /\ RiskVsProposal(rows) ->
         [kind |-> "risk_vs_proposal", rows |-> RowsOf(rows, "RiskReport") \cup Proposed(rows)]
    [] ~MarketVsSentiment(rows) /\ ~RiskVsProposal(rows) /\ ComplianceVsProposal(rows) ->
         [kind |-> "compliance_vs_proposal", rows |-> RowsOf(rows, "ComplianceReport") \cup Proposed(rows)]
    [] OTHER -> NoConflict

(* Mutant: any decision of the run counts as the resolution. *)
AlreadyResolved_Any == decisions # <<>>

AlreadyResolved == \E i \in DOMAIN decisions : decisions[i].type = "resolve_conflict"

FinalizeDetects(c) ==
  /\ tasksEnded /\ ~closer[c].open
  /\ IF AlreadyResolved THEN closer' = [closer EXCEPT ![c] = [NoCloser EXCEPT !.open = TRUE]]
     ELSE \E rows \in ByType : closer' = [closer EXCEPT ![c] = [open |-> TRUE, conflict |-> DetectConflict(rows)]]
  /\ UNCHANGED <<results, tasksEnded, decisions, closed>>

RecordDecision(type, role, rows) == Decision(type, role, rows \cup Portfolio)

ResolveConflict(conflict) ==
  CASE conflict.kind = "none" -> <<>>
    [] conflict.kind = "market_vs_sentiment" -> <<RecordDecision("resolve_conflict", "none", conflict.rows)>>
    [] OTHER -> <<RecordDecision("resolve_conflict", "RiskManager", conflict.rows),
                  RecordDecision("escalate_human", "RiskManager", conflict.rows)>>

FinalizeCommits(c) ==
  /\ closer[c].open
  /\ decisions' = decisions \o ResolveConflict(closer[c].conflict)
  /\ closed' = TRUE
  /\ closer' = [closer EXCEPT ![c] = NoCloser]
  /\ UNCHANGED <<results, tasksEnded>>

(* The loop's thread or its process dies before the commit; the run is resumed. *)
CloserDies(c) ==
  /\ closer[c].open
  /\ closer' = [closer EXCEPT ![c] = NoCloser]
  /\ UNCHANGED <<results, tasksEnded, decisions, closed>>

ConflictNext ==
  \/ \E t \in DOMAIN Views : \E v \in Views[t] : PersistArtefact(t, v)
  \/ \E type \in {"reassign", "escalate_human"} : AgentUnavailable(type)
  \/ TasksEnd
  \/ \E c \in Closers : FinalizeDetects(c) \/ FinalizeCommits(c) \/ CloserDies(c)

ConflictSpec == ConflictInit /\ [][ConflictNext]_conflictVars

-----------------------------------------------------------------------------
(* Before a run is closed its oppositions have been decided: where its artefacts
   oppose each other a resolution is on record, with the artefacts it is about and the
   portfolio's; and a veto of risk or compliance against a proposal has reached a human,
   except where an opposition of market and sentiment was found first, which hides it. *)
VetoReachesHuman ==
  closed /\ (\A a, b \in results : a.type = b.type => a = b) =>
    /\ MarketVsSentiment(results) \/ RiskVsProposal(results) \/ ComplianceVsProposal(results) =>
         \E i \in DOMAIN decisions : decisions[i].type = "resolve_conflict" /\ Portfolio \subseteq decisions[i].inputs
    /\ (RiskVsProposal(results) \/ ComplianceVsProposal(results)) /\ ~MarketVsSentiment(results) =>
         \E i \in DOMAIN decisions :
           /\ decisions[i].type = "escalate_human" /\ decisions[i].role = "RiskManager"
           /\ decisions[i].inputs \cap Proposed(results) # {}
=============================================================================
