------------------------------ MODULE LlmRouter ------------------------------
(* complete() and the handlers that call it, each in a thread of its own: an ordered
   chain of (provider, model) pairs, the providers' keys, and the daily token budget
   of one provider. *)
EXTENDS Naturals, Sequences, FiniteSets, SequencesExt

CONSTANTS
  RoutingTable,   \* routing.yaml's chain of a task type, pairs <<provider, model>>
  Keyless,        \* providers that need no key (ollama)
  Budgeted,       \* the provider with a daily token budget (huggingface)
  TokenBudget,    \* hf_daily_token_budget
  CallTokens,     \* most tokens one call can use
  LlmThreads,     \* threads that call a model
  CustomPairs,    \* pairs an administrator may choose for the agent
  LlmRetries      \* calls a handler makes before it gives up

ASSUME LlmBounds ==
  /\ TokenBudget \in Nat \ {0} /\ CallTokens \in Nat \ {0} /\ LlmRetries \in Nat \ {0}
  /\ DOMAIN RoutingTable \subseteq Nat \ {0} /\ Budgeted \notin Keyless /\ IsFiniteSet(LlmThreads)

VARIABLES
  llm,         \* each thread's handler and call
  keyed,       \* providers with a key in Vault or the settings
  customPair,  \* the CUSTOM pair of the agent's AgentConfig, or AUTO
  tokensUsed   \* _HFUsageTracker

llmVars == <<llm, keyed, customPair, tokensUsed>>

AutoPair == <<"auto", "auto">>
LlmPairs == ToSet(RoutingTable)
Providers == {pm[1] : pm \in LlmPairs}

NoTask == [step |-> "idle", chain |-> <<>>, tries |-> 0]

LlmInit ==
  /\ llm = [t \in LlmThreads |-> NoTask]
  /\ keyed = {} /\ customPair = AutoPair /\ tokensUsed = 0

(* Mutant: the last token of the budget does not close it. *)
HasBudget_OffByOne == tokensUsed <= TokenBudget

HasBudget == tokensUsed < TokenBudget

IsConfigured(provider) ==
  provider \in Keyless \/ (provider \in keyed /\ (provider = Budgeted => HasBudget))

(* custom_pair: only while its provider is configured and the table knows the model.
   It comes before the table, at rank 0. *)
ChainHead ==
  IF customPair # AutoPair /\ customPair \in LlmPairs /\ IsConfigured(customPair[1]) THEN {0} ELSE {}

(* The pairs to try, by rank. *)
BuildFallbackChain ==
  LET listed == {r \in DOMAIN RoutingTable : /\ IsConfigured(RoutingTable[r][1])
                                             /\ ChainHead # {} => RoutingTable[r] # customPair}
  IN [r \in ChainHead \cup listed |-> IF r = 0 THEN customPair ELSE RoutingTable[r]]

FirstRank(chain) == CHOOSE r \in DOMAIN chain : \A s \in DOMAIN chain : r <= s

StartLlmTask(t) ==
  /\ llm[t].step = "idle"
  /\ llm' = [llm EXCEPT ![t].step = "call"]
  /\ UNCHANGED <<keyed, customPair, tokensUsed>>

(* The chain is built once per call; with nothing in it the call raises. *)
CompleteBegins(t) ==
  /\ llm[t].step = "call"
  /\ llm' = [llm EXCEPT ![t] = [@ EXCEPT !.step = IF DOMAIN BuildFallbackChain = {} THEN "error" ELSE "try",
                                         !.chain = BuildFallbackChain]]
  /\ UNCHANGED <<keyed, customPair, tokensUsed>>

ProviderSucceeds(t) ==
  /\ llm[t].step = "try"
  /\ \E tokens \in 1 .. CallTokens :
       tokensUsed' = IF llm[t].chain[FirstRank(llm[t].chain)][1] = Budgeted THEN tokensUsed + tokens ELSE tokensUsed
  /\ llm' = [llm EXCEPT ![t] = [@ EXCEPT !.step = "parse", !.chain = <<>>]]
  /\ UNCHANGED <<keyed, customPair>>

(* An error or the per-call timeout: on to the next pair, or NoProviderAvailableError. *)
ProviderErrs(t) ==
  LET chain == llm[t].chain
      rest == [r \in DOMAIN chain \ {FirstRank(chain)} |-> chain[r]]
  IN /\ llm[t].step = "try"
     /\ llm' = [llm EXCEPT ![t] = [@ EXCEPT !.chain = rest, !.step = IF DOMAIN rest = {} THEN "error" ELSE "try"]]
     /\ UNCHANGED <<keyed, customPair, tokensUsed>>

(* The answer is not the JSON asked for. *)
AnswerUnusable(t) ==
  /\ llm[t].step = "parse" /\ llm' = [llm EXCEPT ![t].step = "error"]
  /\ UNCHANGED <<keyed, customPair, tokensUsed>>

(* The artefact names the provider of this call and the event those that failed. *)
RecordLlmProvenance(t) ==
  /\ llm[t].step = "parse" /\ llm' = [llm EXCEPT ![t] = NoTask]
  /\ UNCHANGED <<keyed, customPair, tokensUsed>>

(* A fallback artefact, which names no provider. *)
HandlerGivesUp(t) ==
  /\ llm[t].step = "error" /\ llm[t].tries + 1 >= LlmRetries /\ llm' = [llm EXCEPT ![t] = NoTask]
  /\ UNCHANGED <<keyed, customPair, tokensUsed>>

HandlerRetries(t) ==
  /\ llm[t].step = "error" /\ llm[t].tries + 1 < LlmRetries
  /\ llm' = [llm EXCEPT ![t].step = "call", ![t].tries = @ + 1]
  /\ UNCHANGED <<keyed, customPair, tokensUsed>>

SetProviderKey(provider) ==
  /\ provider \notin Keyless
  /\ keyed' \in {keyed \cup {provider}, keyed \ {provider}} \ {keyed}
  /\ UNCHANGED <<llm, customPair, tokensUsed>>

(* PUT provider-model refuses a pair that is not valid now. *)
SetProviderModel(pm) ==
  /\ pm = AutoPair \/ (pm \in LlmPairs /\ IsConfigured(pm[1]))
  /\ customPair # pm /\ customPair' = pm
  /\ UNCHANGED <<llm, keyed, tokensUsed>>

(* The counter is reset by the first use on the next UTC day. *)
TokenDayEnds ==
  /\ tokensUsed > 0 /\ tokensUsed' = 0
  /\ UNCHANGED <<llm, keyed, customPair>>

LlmNext ==
  \/ \E t \in LlmThreads :
       \/ StartLlmTask(t) \/ CompleteBegins(t) \/ ProviderSucceeds(t) \/ ProviderErrs(t) \/ AnswerUnusable(t)
       \/ RecordLlmProvenance(t) \/ HandlerGivesUp(t) \/ HandlerRetries(t)
  \/ \E provider \in Providers : SetProviderKey(provider)
  \/ \E pm \in CustomPairs \cup {AutoPair} : SetProviderModel(pm)
  \/ TokenDayEnds

LlmSpec == LlmInit /\ [][LlmNext]_llmVars

-----------------------------------------------------------------------------
(* The budget is looked at when a chain is built and charged when the call returns, so
   calls of other threads and other pairs of the chain come between; still no more than
   one call of each thread is served beyond it. *)
BudgetOvershootBounded == tokensUsed <= TokenBudget - 1 + Cardinality(LlmThreads) * CallTokens
=============================================================================
