------------------------------ MODULE PlanCheck ------------------------------
(* What the planner lets through.  A plan of the model's making is validated, given
   the context tasks a strategy needs and the synthesis an ad-hoc question needs,
   and validated again, for a bounded number of attempts.  A capability outside
   Declared stands for a task whose agent is unknown, disabled or does not declare it.
   The search for cycles, the closure of the dependencies and the loop over the
   scaffold advance one step at a time, as the code's loops and its recursion do. *)
EXTENDS Integers, Sequences, FiniteSets

CONSTANTS
  GeneratedPlans,    \* the plans the model may come up with
  Declared,          \* capabilities some enabled agent declares
  StrategyCaps,      \* _STRATEGY_CAPS
  SafetyOrder,       \* _SAFETY_ORDER
  ContextScaffold,   \* _CONTEXT_SCAFFOLD, the assembly task last
  MaxPlanAttempts    \* _MAX_PLAN_ATTEMPTS

PlannedTask == [key : STRING, capability : STRING, depends_on : SUBSET STRING]

ASSUME PlanAssumption ==
  /\ GeneratedPlans \subseteq Seq(PlannedTask)
  /\ ContextScaffold \in Seq(PlannedTask) /\ ContextScaffold # <<>>
  /\ \A t \in {ContextScaffold[i] : i \in DOMAIN ContextScaffold} :
       \A k \in t.depends_on : \E i \in DOMAIN ContextScaffold : ContextScaffold[i].key = k
  /\ SafetyOrder \in Seq(STRING)
  /\ "portfolio_read" \notin StrategyCaps /\ "adhoc_synthesis" \notin StrategyCaps
  /\ MaxPlanAttempts \in Nat \ {0}
  /\ {"adhoc_portfolio", "portfolio_read", "adhoc_synthesis"} \subseteq STRING  \* a fact of TLA+

VARIABLES
  planAttempts,  \* attempts begun
  planStep,      \* where generate_plan is; "planned" and "cannot_plan" are its ends
  draft,         \* the plan under validation
  scaffolded,    \* the validation under way is the second one
  path,          \* the calls of visit under way, the outermost first: the code's stack
  visited,       \* visited
  reach,         \* reach
  at,            \* position of the loop under way
  grew           \* changed

planVars == <<planAttempts, planStep, draft, scaffolded, path, visited, reach, at, grew>>

Keys(p) == {p[i].key : i \in DOMAIN p}
TaskOf(p, k) == p[CHOOSE i \in DOMAIN p : p[i].key = k]
DependsOn(p, k) == TaskOf(p, k).depends_on
HasCapability(p, c) == \E i \in DOMAIN p : p[i].capability = c

(* by_cap, key_for_cap: of two tasks with one capability the later wins. *)
KeyForCap(p, c) == p[CHOOSE i \in DOMAIN p : p[i].capability = c /\ \A j \in DOMAIN p : p[j].capability = c => j <= i].key

(* The safety stages of a plan, by their places in _SAFETY_ORDER. *)
Present(p) == {i \in DOMAIN SafetyOrder : HasCapability(p, SafetyOrder[i])}

-----------------------------------------------------------------------------
PlanCheckInit ==
  /\ planAttempts = 0 /\ planStep = "ask" /\ draft = <<>> /\ scaffolded = FALSE
  /\ path = <<>> /\ visited = {} /\ reach = <<>> /\ at = 1 /\ grew = FALSE

(* _validate up to its two assertions. *)
WellFormed(p) ==
  /\ p # <<>> /\ Cardinality(Keys(p)) = Len(p)
  /\ \A i \in DOMAIN p : p[i].capability \in Declared /\ p[i].depends_on \subseteq Keys(p) \ {p[i].key}

Validate(p) ==
  /\ planStep' = IF WellFormed(p) THEN "visit" ELSE "invalid"
  /\ draft' = p

(* One attempt: a refusal to plan, no usable answer, or a plan. *)
PlanAttempt ==
  /\ planStep = "ask"
  /\ planAttempts' = planAttempts + 1
  /\ \/ planStep' = "cannot_plan" /\ UNCHANGED draft
     \/ planStep' = "invalid" /\ UNCHANGED draft
     \/ \E p \in GeneratedPlans : Validate(p)
  /\ UNCHANGED <<scaffolded, path, visited, reach, at, grew>>

(* PlanValidationError: the next attempt, if there is one. *)
PlanRefused ==
  /\ planStep \in {"invalid", "cycle", "disorder"}
  /\ planStep' = IF planAttempts = MaxPlanAttempts THEN "cannot_plan" ELSE "ask"
  /\ draft' = <<>> /\ scaffolded' = FALSE /\ path' = <<>> /\ visited' = {}
  /\ reach' = <<>> /\ at' = 1 /\ grew' = FALSE
  /\ UNCHANGED planAttempts

-----------------------------------------------------------------------------
(* _assert_acyclic: calls of visit that return at once are left out *)
Searching == planStep = "visit"
SearchLeaves == UNCHANGED <<planAttempts, draft, scaffolded, reach, at, grew>>
Top == path[Len(path)]
OnStack(n) == \E i \in DOMAIN path : path[i] = n

VisitRoot ==
  /\ Searching /\ path = <<>>
  /\ \E i \in DOMAIN draft :
       /\ draft[i].key \notin visited /\ \A j \in 1 .. i - 1 : draft[j].key \in visited
       /\ path' = <<draft[i].key>>
  /\ UNCHANGED <<planStep, visited>> /\ SearchLeaves

(* Mutant: a node counts as visited as soon as it is entered. *)
VisitDependency_MarksEarly ==
  /\ Searching /\ path # <<>>
  /\ \E n \in DependsOn(draft, Top) \ visited : path' = Append(path, n) /\ visited' = visited \cup {n}
  /\ UNCHANGED planStep /\ SearchLeaves

VisitDependency ==
  /\ Searching /\ path # <<>>
  /\ \E n \in DependsOn(draft, Top) \ visited :
       IF OnStack(n) THEN planStep' = "cycle" /\ UNCHANGED path
                     ELSE path' = Append(path, n) /\ UNCHANGED planStep
  /\ UNCHANGED visited /\ SearchLeaves

VisitReturns ==
  /\ Searching /\ path # <<>> /\ DependsOn(draft, Top) \subseteq visited
  /\ visited' = visited \cup {Top}
  /\ path' = SubSeq(path, 1, Len(path) - 1)
  /\ UNCHANGED planStep /\ SearchLeaves

-----------------------------------------------------------------------------
(* _assert_safety_order *)
Validated == IF scaffolded THEN "planned" ELSE "context"

OrderBegins ==
  /\ Searching /\ path = <<>> /\ Keys(draft) \subseteq visited
  /\ visited' = {} /\ at' = 1 /\ grew' = FALSE
  /\ \/ /\ \A i, j \in Present(draft) : i = j
        /\ planStep' = Validated /\ UNCHANGED reach
     \/ /\ \E i, j \in Present(draft) : i # j
        /\ planStep' = "close" /\ reach' = [k \in Keys(draft) |-> DependsOn(draft, k)]
  /\ UNCHANGED <<planAttempts, draft, scaffolded, path>>

(* One turn of the inner loop. *)
Propagate ==
  /\ planStep = "close" /\ at <= Len(draft)
  /\ LET k == draft[at].key
         new == reach[k] \cup UNION {reach[d] : d \in reach[k]}
     IN reach' = [reach EXCEPT ![k] = new] /\ grew' = (grew \/ new # reach[k])
  /\ at' = at + 1
  /\ UNCHANGED <<planAttempts, planStep, draft, scaffolded, path, visited>>

NextPass ==
  /\ planStep = "close" /\ at > Len(draft) /\ grew
  /\ at' = 1 /\ grew' = FALSE
  /\ UNCHANGED <<planAttempts, planStep, draft, scaffolded, path, visited, reach>>

(* zip(present, present[1:]): stages with none between them. *)
Adjacent(p) ==
  {e \in Present(p) \X Present(p) : e[1] < e[2] /\ \A k \in Present(p) : ~(e[1] < k /\ k < e[2])}

(* Mutant: one pass is taken for the closure. *)
OrderEnds_OnePass ==
  /\ planStep = "close" /\ at > Len(draft)
  /\ planStep' = IF \A e \in Adjacent(draft) :
                        KeyForCap(draft, SafetyOrder[e[1]]) \in reach[KeyForCap(draft, SafetyOrder[e[2]])]
                   THEN Validated ELSE "disorder"
  /\ reach' = <<>> /\ at' = 1 /\ grew' = FALSE
  /\ UNCHANGED <<planAttempts, draft, scaffolded, path, visited>>

OrderEnds ==
  /\ planStep = "close" /\ at > Len(draft) /\ ~grew
  /\ planStep' = IF \A e \in Adjacent(draft) :
                        KeyForCap(draft, SafetyOrder[e[1]]) \in reach[KeyForCap(draft, SafetyOrder[e[2]])]
                   THEN Validated ELSE "disorder"
  /\ reach' = <<>> /\ at' = 1
  /\ UNCHANGED <<planAttempts, draft, scaffolded, path, visited, grew>>

-----------------------------------------------------------------------------
(* The scaffolds *)
Assembly == ContextScaffold[Len(ContextScaffold)].capability

(* key_for_cap: the plan's own task, or the scaffold's. *)
ProviderKey(p, c) ==
  IF HasCapability(p, c) THEN KeyForCap(p, c) ELSE KeyForCap(ContextScaffold, c)

NeedsContext == \E i \in DOMAIN draft : draft[i].capability \in StrategyCaps
Scaffolding == planStep = "context"

AddContextTask ==
  /\ Scaffolding /\ NeedsContext /\ at <= Len(ContextScaffold)
  /\ LET t == ContextScaffold[at]
         added == [t EXCEPT !.depends_on = {ProviderKey(draft, TaskOf(ContextScaffold, k).capability) : k \in t.depends_on}]
     IN draft' = IF HasCapability(draft, t.capability) THEN draft ELSE Append(draft, added)
  /\ at' = at + 1
  /\ UNCHANGED <<planAttempts, planStep, scaffolded, path, visited, reach, grew>>

(* ensure_adhoc_scaffold, for the kinds of questions that have one. *)
WithSynthesis(p) ==
  LET read == IF HasCapability(p, "portfolio_read") THEN p
              ELSE Append(p, [key |-> "adhoc_portfolio", capability |-> "portfolio_read", depends_on |-> {}])
  IN IF HasCapability(read, "adhoc_synthesis") THEN read
     ELSE Append(read, [key |-> "adhoc_synthesis", capability |-> "adhoc_synthesis", depends_on |-> Keys(read)])

(* Every strategy task is made to wait for the assembled context. *)
Linked(p) ==
  [i \in DOMAIN p |-> IF p[i].capability \in StrategyCaps
                        THEN [p[i] EXCEPT !.depends_on = p[i].depends_on \cup {KeyForCap(p, Assembly)}] ELSE p[i]]

ScaffoldEnds ==
  /\ Scaffolding
  /\ NeedsContext => at > Len(ContextScaffold)
  /\ LET research == IF NeedsContext THEN Linked(draft) ELSE draft
     IN \E p \in {research, WithSynthesis(research)} : Validate(p)
  /\ scaffolded' = TRUE /\ at' = 1
  /\ UNCHANGED <<planAttempts, path, visited, reach, grew>>

PlanCheckNext ==
  \/ PlanAttempt \/ PlanRefused
  \/ VisitRoot \/ VisitDependency \/ VisitReturns
  \/ OrderBegins \/ Propagate \/ NextPass \/ OrderEnds
  \/ AddContextTask \/ ScaffoldEnds

PlanCheckSpec == PlanCheckInit /\ [][PlanCheckNext]_planVars

-----------------------------------------------------------------------------
(* The reference: of any tasks that are left one waits for none of the others ... *)
Executable(p) ==
  \A rest \in (SUBSET Keys(p)) \ {{}} : \E k \in rest : DependsOn(p, k) \cap rest = {}

(* ... and a task is behind k if it is in every set that has the prerequisites of k and
   of its own members. *)
Behind(p, k) ==
  {b \in Keys(p) : \A s \in SUBSET Keys(p) :
     DependsOn(p, k) \subseteq s /\ (\A x \in s : DependsOn(p, x) \subseteq s) => b \in s}

StagesInOrder(p) ==
  \A i, j \in Present(p) :
    i < j => KeyForCap(p, SafetyOrder[i]) \in Behind(p, KeyForCap(p, SafetyOrder[j]))

(* A plan that is accepted can be executed and in the right order: there is no cycle in
   it, every strategy task waits for the assembled context, and of two safety stages the
   earlier is behind the later one, whatever lies between them; of a stage planned
   twice that holds for the last task (_validate, ensure_research_scaffold). *)
AcceptedPlanIsSound ==
  planStep = "planned" =>
    /\ Executable(draft) /\ StagesInOrder(draft)
    /\ \A i \in DOMAIN draft : draft[i].capability \in StrategyCaps =>
         \E c \in draft[i].depends_on : TaskOf(draft, c).capability = Assembly

(* A plan refused for a cycle has one, and a plan refused for the order of its stages has
   two that are not in order (_assert_acyclic, _assert_safety_order). *)
RefusalIsJustified ==
  /\ planStep = "cycle" => ~Executable(draft)
  /\ planStep = "disorder" => ~StagesInOrder(draft)

(* Whatever plan the model comes up with, the planner judges it rightly. *)
PlanVerdictIsRight == AcceptedPlanIsSound /\ RefusalIsJustified
=============================================================================
