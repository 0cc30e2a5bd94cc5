------------------------------ MODULE PaperLegs ------------------------------
(* The daily cycle of one F&O strategy (_process_fno_strategy): the legs of the
   current version are entered and left one order at a time; any of them may be
   filled in part or fail, and the next cycle takes up what is left.  The cron
   run and a manual one may overlap.                                          *)
EXTENDS Integers, Sequences, FiniteSets, SequencesExt

CONSTANTS
  LegCycles,    \* the cron run and a manual one
  Legs,         \* option symbols
  LegSizes,     \* signed quantities a version may plan for a symbol
  MaxLegFills,  \* bound on fills
  MaxPlans      \* bound on versions

ASSUME LegBounds ==
  /\ MaxLegFills \in Nat /\ MaxPlans \in Nat
  /\ IsFiniteSet(Legs) /\ Legs # {} /\ LegSizes \subseteq Int \ {0}

VARIABLES
  legNet,      \* net quantity of each leg in the ledger
  plan,        \* legs of the strategy's current version: side and quantity of each symbol
  legCycle,    \* cycles in flight: orders to send, with what they read
  legFills,    \* fills so far
  plans,       \* versions so far
  legOverlap,  \* history: two cycles were in flight at once
  legSize,     \* history: what the latest entry ordered of each symbol
  turned       \* history: symbols whose side a new version changed while they were held or on order

legVars == <<legNet, plan, legCycle, legFills, plans, legOverlap, legSize, turned>>

Plans == UNION {[ls -> LegSizes] : ls \in (SUBSET Legs) \ {{}}}
NoLegCycle == [phase |-> "idle", todo |-> <<>>]

LegsInit ==
  /\ legNet = [l \in Legs |-> 0] /\ plan \in Plans
  /\ legCycle = [c \in LegCycles |-> NoLegCycle]
  /\ legFills = 0 /\ plans = 1 /\ legOverlap = FALSE /\ legSize = [l \in Legs |-> 0] /\ turned = {}

LegOpen(l) == legNet[l] # 0

(* Mutant: an entry sends every leg again. *)
EntryLegs_All == DOMAIN plan

EntryLegs == {l \in DOMAIN plan : ~LegOpen(l)}
ExitLegs == {l \in DOMAIN plan : LegOpen(l)}

(* _SIDE_MAP and the planned quantity *)
EntryOrder(l) == [leg |-> l, signed |-> plan[l]]

(* _CLOSING_SIDE_MAP looks at the plan's side, the quantity comes from the
   position that was read. *)
ExitOrder(l) ==
  LET held == IF legNet[l] < 0 THEN -legNet[l] ELSE legNet[l]
  IN [leg |-> l, signed |-> IF plan[l] > 0 THEN -held ELSE held]

Orders(legs, Order(_)) == LET s == SetToSeq(legs) IN [i \in 1 .. Len(s) |-> Order(s[i])]

(* The ledger is read, the backtest run and the orders made up; nothing is
   entered when all legs are open, nothing left when none is. *)
DecideLegs(c) ==
  /\ legCycle[c].phase = "idle"
  /\ \/ /\ EntryLegs # {}
        /\ legCycle' = [legCycle EXCEPT ![c] = [phase |-> "sending", todo |-> Orders(EntryLegs, EntryOrder)]]
        /\ legSize' = [l \in Legs |-> IF l \in EntryLegs THEN plan[l] ELSE legSize[l]]
     \/ /\ ExitLegs # {}
        /\ legCycle' = [legCycle EXCEPT ![c] = [phase |-> "sending", todo |-> Orders(ExitLegs, ExitOrder)]]
        /\ UNCHANGED legSize
  /\ legOverlap' = (legOverlap \/ \E o \in LegCycles \ {c} : legCycle[o].phase = "sending")
  /\ UNCHANGED <<legNet, plan, legFills, plans, turned>>

OrderDone(c) ==
  legCycle' = [legCycle EXCEPT ![c] = IF Len(@.todo) = 1 THEN NoLegCycle
                                      ELSE [phase |-> "sending", todo |-> Tail(@.todo)]]

FillLeg(c) ==
  /\ legCycle[c].phase = "sending" /\ legFills < MaxLegFills
  /\ LET o == Head(legCycle[c].todo)
     IN \E q \in IF o.signed > 0 THEN 1 .. o.signed ELSE o.signed .. -1 :
          legNet' = [legNet EXCEPT ![o.leg] = @ + q]
  /\ legFills' = legFills + 1
  /\ OrderDone(c)
  /\ UNCHANGED <<plan, plans, legOverlap, legSize, turned>>

(* One leg's failure does not stop the others. *)
LegFails(c) ==
  /\ legCycle[c].phase = "sending"
  /\ OrderDone(c)
  /\ UNCHANGED <<legNet, plan, legFills, plans, legOverlap, legSize, turned>>

OnOrder(l) ==
  \E c \in LegCycles :
    legCycle[c].phase = "sending" /\ \E i \in DOMAIN legCycle[c].todo : legCycle[c].todo[i].leg = l
SameSide(m, n) == (m > 0) = (n > 0)

(* A regenerated version carries legs of its own: other symbols, and the same ones with
   another side or quantity. *)
NewLegs ==
  /\ plans < MaxPlans /\ plans' = plans + 1
  /\ plan' \in Plans \ {plan}
  /\ turned' = turned \cup {l \in DOMAIN plan' : (LegOpen(l) \/ OnOrder(l)) /\ ~SameSide(plan'[l], legSize[l])}
  /\ UNCHANGED <<legNet, legCycle, legFills, legOverlap, legSize>>

LegsNext ==
  \/ \E c \in LegCycles : DecideLegs(c) \/ FillLeg(c) \/ LegFails(c)
  \/ NewLegs

LegsSpec == LegsInit /\ [][LegsNext]_legVars

-----------------------------------------------------------------------------
Between(n, m) == IF m > 0 THEN n \in 0 .. m ELSE n \in m .. 0

(* Through partial fills, failed legs and new versions, repeated entries and exits never
   take a leg past the size its entry ordered or to the other side.  Excepted are two
   cycles at once, and a leg whose side a new version changed while it was held: its exit
   adds to the position (_CLOSING_SIDE_MAP of the new plan's side). *)
LegsWithinPlan == ~legOverlap => \A l \in Legs \ turned : Between(legNet[l], legSize[l])
=============================================================================
