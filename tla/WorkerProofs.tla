---------------------------- MODULE WorkerProofs ----------------------------
(* Proofs about the workers beside the task engine, for any number of requests, jobs and
   updates: strategies on their way to paper trading, the webhook, the pool of sandbox
   workers and the agent scheduler. *)
EXTENDS StrategyLifecycle, ChatIntake, SandboxPool, JobScheduler, FiniteSetTheorems, TLAPS

-----------------------------------------------------------------------------
(* StrategyLifecycle: requests for approval and the status they guard *)

StrategyShape ==
  /\ strategy = [status |-> strategy.status, cur |-> strategy.cur]
  /\ strategy.status \in StrategyStatuses

ReqStatuses == {"pending", "approved", "rejected"}

Deciding == [phase : {"decide"}, req : Nat, verdict : {"approved", "rejected"}, move : BOOLEAN, seen : {<<>>}]
Promoting == [phase : {"promote"}, req : {0}, verdict : {"none"}, move : {FALSE}, seen : Seq(ReqStatuses)]

LatestApproved(rs) == rs # <<>> /\ rs[Len(rs)] = "approved"

(* What the rows say of approvals, and what the requests in flight have read: only the
   latest request is pending, a decision is on a request that exists, and whoever promotes
   saw the latest request approved. *)
LifecycleInv ==
  /\ StrategyShape /\ contested \in BOOLEAN
  /\ requests \in Seq(ReqStatuses)
  /\ \A r \in DOMAIN requests : requests[r] = "pending" => r = Len(requests)
  /\ decider \in [Deciders -> {NoDecider} \cup Deciding \cup Promoting]
  /\ \A d \in Deciders : /\ decider[d].phase = "decide" => decider[d].req \in DOMAIN requests
                         /\ decider[d].phase = "promote" => LatestApproved(decider[d].seen)
  /\ PaperTradingIsApproved

(* A step that touches neither requests nor those who decide on them, and moves the strategy
   anywhere but into paper trading. *)
LEMMA OtherStatusKeeps ==
    ASSUME LifecycleInv, UNCHANGED <<requests, contested, decider>>,
           \/ strategy' = strategy
           \/ \E s \in StrategyStatuses \ {"PaperTrading"} : strategy' = [strategy EXCEPT !.status = s]
           \/ \E n : strategy' = [status |-> "Coding", cur |-> n]
    PROVE  LifecycleInv'
<1>1. StrategyShape'
  BY DEF LifecycleInv, StrategyShape, StrategyStatuses
<1>2. strategy' = strategy \/ strategy'.status # "PaperTrading"
  BY DEF LifecycleInv, StrategyShape
<1>3. PaperTradingIsApproved'
  BY <1>2 DEF LifecycleInv, PaperTradingIsApproved
<1> QED BY <1>1, <1>3 DEF LifecycleInv

(* A new request is opened: the strategy waits for it. *)
LEMMA RecommendationKeeps ==
    ASSUME LifecycleInv, ResearchRecommends \/ RecommendedAgain
    PROVE  LifecycleInv'
<1>1. /\ strategy' = [strategy EXCEPT !.status = "PendingPaperApproval"]
      /\ requests' = Append(requests, "pending") /\ UNCHANGED <<contested, decider>>
      /\ \A r \in DOMAIN requests : requests[r] # "pending"
  <2>1. requests = <<>> => <<"pending">> = Append(requests, "pending") /\ DOMAIN requests = {}
    OBVIOUS
  <2> QED BY <2>1 DEF ResearchRecommends, RecommendedAgain
<1>2. StrategyShape' /\ strategy'.status = "PendingPaperApproval"
  BY <1>1 DEF LifecycleInv, StrategyShape, StrategyStatuses
<1>3. /\ requests' \in Seq(ReqStatuses) /\ DOMAIN requests \subseteq DOMAIN requests'
      /\ \A r \in DOMAIN requests' : requests'[r] = "pending" => r = Len(requests')
  BY <1>1 DEF LifecycleInv, ReqStatuses
<1>4. \A d \in Deciders : /\ decider'[d].phase = "decide" => decider'[d].req \in DOMAIN requests'
                          /\ decider'[d].phase = "promote" => LatestApproved(decider'[d].seen)
  BY <1>1, <1>3 DEF LifecycleInv
<1> QED BY <1>1, <1>2, <1>3, <1>4 DEF LifecycleInv, PaperTradingIsApproved

(* A request that is still pending is the latest; the decision settles it, and the strategy
   with it. *)
LEMMA DecisionKeeps ==
    ASSUME LifecycleInv, NEW d \in Deciders, NEW verdict \in {"approved", "rejected"},
           NEW status \in StrategyStatuses, status = "PaperTrading" => verdict = "approved",
           Decide(d, verdict, status)
    PROVE  LifecycleInv'
<1> DEFINE q == decider[d].req
<1>1. /\ q \in DOMAIN requests /\ requests' = [requests EXCEPT ![q] = verdict]
      /\ strategy' = [strategy EXCEPT !.status = status] \/ strategy' = strategy
      /\ decider' = [decider EXCEPT ![d] = NoDecider]
  BY DEF Decide, LifecycleInv
<1>2. contested' \in BOOLEAN /\ (~contested' => ~contested /\ requests[q] = "pending")
  BY Zenon DEF Decide, LifecycleInv
<1>3. /\ requests' \in Seq(ReqStatuses) /\ DOMAIN requests' = DOMAIN requests /\ Len(requests') = Len(requests)
      /\ \A r \in DOMAIN requests : requests'[r] = IF r = q THEN verdict ELSE requests[r]
  <2>1. requests \in [1 .. Len(requests) -> ReqStatuses] /\ Len(requests) \in Nat
    BY DEF LifecycleInv
  <2>2. requests' \in [1 .. Len(requests) -> ReqStatuses]
    BY <1>1, <2>1 DEF ReqStatuses
  <2> QED BY <1>1, <2>1, <2>2
<1>4. \A r \in DOMAIN requests' : requests'[r] = "pending" => r = Len(requests')
  BY <1>3 DEF LifecycleInv
<1>5. /\ decider' \in [Deciders -> {NoDecider} \cup Deciding \cup Promoting]
      /\ \A e \in Deciders : /\ decider'[e].phase = "decide" => decider'[e].req \in DOMAIN requests'
                             /\ decider'[e].phase = "promote" => LatestApproved(decider'[e].seen)
  BY <1>1, <1>3 DEF LifecycleInv, NoDecider
<1>6. StrategyShape'
  BY <1>1 DEF LifecycleInv, StrategyShape, StrategyStatuses
<1>7. PaperTradingIsApproved'
  <2>1. SUFFICES ASSUME strategy'.status = "PaperTrading", ~contested'
                 PROVE  requests' # <<>> /\ requests'[Len(requests')] = "approved"
    BY DEF PaperTradingIsApproved
  <2>2. ~contested /\ q = Len(requests) /\ requests[Len(requests)] = "pending"
    BY <1>1, <1>2, <2>1 DEF LifecycleInv
  <2>3. strategy.status # "PaperTrading"
    BY <2>2 DEF LifecycleInv, PaperTradingIsApproved
  <2>4. verdict = "approved"
    BY <1>1, <2>1, <2>3 DEF LifecycleInv, StrategyShape
  <2> QED BY <1>1, <1>3, <2>2, <2>4
<1> QED BY <1>2, <1>3, <1>4, <1>5, <1>6, <1>7 DEF LifecycleInv

LEMMA PromoteKeeps ==
    ASSUME LifecycleInv, NEW d \in Deciders, Promote(d)
    PROVE  LifecycleInv'
<1>1. /\ requests' = requests /\ decider' = [decider EXCEPT ![d] = NoDecider]
      /\ strategy' = [strategy EXCEPT !.status = "PaperTrading"] /\ LatestApproved(decider[d].seen)
  BY DEF Promote, LifecycleInv
<1>2. contested' \in BOOLEAN /\ (~contested' => requests = decider[d].seen)
  BY Zenon DEF Promote, LifecycleInv
<1>3. StrategyShape'
  BY <1>1 DEF LifecycleInv, StrategyShape, StrategyStatuses
<1>4. /\ decider' \in [Deciders -> {NoDecider} \cup Deciding \cup Promoting]
      /\ \A e \in Deciders : /\ decider'[e].phase = "decide" => decider'[e].req \in DOMAIN requests'
                             /\ decider'[e].phase = "promote" => LatestApproved(decider'[e].seen)
  BY <1>1 DEF LifecycleInv, NoDecider
<1>5. PaperTradingIsApproved'
  BY <1>1, <1>2 DEF PaperTradingIsApproved, LatestApproved
<1> QED BY <1>1, <1>2, <1>3, <1>4, <1>5 DEF LifecycleInv

LEMMA LoadsKeep ==
    ASSUME LifecycleInv, NEW d \in Deciders,
           LoadPromotion(d) \/ \E r \in DOMAIN requests, v \in {"approved", "rejected"} : LoadPending(d, r, v)
    PROVE  LifecycleInv'
<1>1. UNCHANGED <<strategy, requests, contested>>
  BY DEF LoadPromotion, LoadPending
<1>2. CASE LoadPromotion(d)
  <2>1. /\ decider' = [decider EXCEPT ![d] = [NoDecider EXCEPT !.phase = "promote", !.seen = requests]]
        /\ LatestApproved(requests)
    BY <1>2 DEF LoadPromotion, HasApprovedPaperRequest, LatestApproved
  <2>2. [NoDecider EXCEPT !.phase = "promote", !.seen = requests] \in Promoting
    BY DEF NoDecider, Promoting, LifecycleInv
  <2>3. decider'[d].phase = "promote" /\ decider'[d].seen = requests
    BY <2>1 DEF NoDecider, LifecycleInv
  <2>4. /\ decider' \in [Deciders -> {NoDecider} \cup Deciding \cup Promoting]
        /\ \A e \in Deciders : e # d => decider'[e] = decider[e]
    BY <2>1, <2>2 DEF LifecycleInv
  <2>5. \A e \in Deciders : /\ decider'[e].phase = "decide" => decider'[e].req \in DOMAIN requests'
                            /\ decider'[e].phase = "promote" => LatestApproved(decider'[e].seen)
    BY <1>1, <2>1, <2>3, <2>4 DEF LifecycleInv
  <2> QED BY <1>1, <2>4, <2>5 DEF LifecycleInv, StrategyShape, PaperTradingIsApproved
<1>3. ASSUME NEW r \in DOMAIN requests, NEW v \in {"approved", "rejected"}, LoadPending(d, r, v)
      PROVE  LifecycleInv'
  <2> DEFINE rec == [phase |-> "decide", req |-> r, verdict |-> v,
                     move |-> (strategy.status = "PendingPaperApproval"), seen |-> <<>>]
  <2>0. r \in Nat /\ (strategy.status = "PendingPaperApproval") \in BOOLEAN
    BY DEF LifecycleInv
  <2>1. rec \in Deciding
    BY <2>0, Zenon DEF Deciding
  <2>3. decider' = [decider EXCEPT ![d] = rec]
    BY <1>3, Zenon DEF LoadPending
  <2>4. rec.phase = "decide" /\ rec.req = r
    OBVIOUS
  <2> HIDE DEF rec
  <2>5. /\ decider' \in [Deciders -> {NoDecider} \cup Deciding \cup Promoting]
        /\ decider'[d] = rec /\ \A e \in Deciders : e # d => decider'[e] = decider[e]
    BY <2>1, <2>3 DEF LifecycleInv
  <2>6. \A e \in Deciders : /\ decider'[e].phase = "decide" => decider'[e].req \in DOMAIN requests'
                            /\ decider'[e].phase = "promote" => LatestApproved(decider'[e].seen)
    BY <1>1, <2>4, <2>5 DEF LifecycleInv
  <2> QED BY <1>1, <2>5, <2>6 DEF LifecycleInv, StrategyShape, PaperTradingIsApproved
<1> QED BY <1>2, <1>3

LEMMA RegenStepKeeps ==
    ASSUME LifecycleInv, NEW j \in Jobs, RegenStep(j) \/ RegenDies(j)
    PROVE  LifecycleInv'
<1>1. UNCHANGED <<requests, contested, decider>>
  BY DEF RegenStep, RegenBegin, Review, RegenPrepares, RegenWritesCode, RegenCompliance, RegenValidate, RegenFails,
         RegenResolves, RegenDies
<1>2. \/ strategy' = strategy \/ strategy' = [strategy EXCEPT !.status = "Backtesting"]
      \/ AddVersion(job[j].verno + 1)
  BY DEF RegenStep, RegenBegin, Review, RegenPrepares, RegenWritesCode, RegenCompliance, RegenValidate, RegenFails,
         RegenResolves, RegenDies
<1>3. "Backtesting" \in StrategyStatuses \ {"PaperTrading"}
  BY DEF StrategyStatuses
<1>4. ASSUME AddVersion(job[j].verno + 1)
      PROVE  \E n : strategy' = [status |-> "Coding", cur |-> n]
  BY <1>4 DEF AddVersion
<1> QED BY <1>1, <1>2, <1>3, <1>4, OtherStatusKeeps

(* A strategy in PaperTrading has its latest request approved, however many people decide
   and promote, and however recommendations and regenerations interleave with them, except
   after a decision written over another one of the same request or a promotion over a
   request opened or decided since it looked (approve, reject, promote_strategy,
   run_suggestion_regeneration). *)
THEOREM PaperNeedsApproval == LifecycleSpec => []PaperTradingIsApproved
<1>1. LifecycleInit => LifecycleInv
  <2> SUFFICES ASSUME LifecycleInit PROVE LifecycleInv
    OBVIOUS
  <2>1. StrategyShape /\ PaperTradingIsApproved /\ contested \in BOOLEAN
    BY DEF LifecycleInit, StrategyShape, StrategyStatuses, PaperTradingIsApproved
  <2>2. requests = <<>> /\ decider = [d \in Deciders |-> NoDecider]
    BY DEF LifecycleInit
  <2> QED BY <2>1, <2>2 DEF LifecycleInv, NoDecider
<1>2. LifecycleInv /\ [LifecycleNext]_lifecycleVars => LifecycleInv'
  <2> SUFFICES ASSUME LifecycleInv, [LifecycleNext]_lifecycleVars PROVE LifecycleInv'
    OBVIOUS
  <2>1. CASE ResearchWritesCode
    BY <2>1, OtherStatusKeeps DEF ResearchWritesCode, AddVersion
  <2>2. CASE UNCHANGED <<strategy, requests, contested, decider>>
    BY <2>2, OtherStatusKeeps
  <2>3. CASE \/ \E s \in Suggestions : SubmitSuggestion(s)
             \/ \E j \in Jobs, s \in Suggestions : TriggerReview(j, s)
    BY <2>2, <2>3 DEF SubmitSuggestion, TriggerReview
  <2>4. CASE ProcessDies
    BY <2>4 DEF ProcessDies, LifecycleInv, StrategyShape, PaperTradingIsApproved, NoDecider
  <2>5. CASE UNCHANGED lifecycleVars
    BY <2>2, <2>5 DEF lifecycleVars
  <2>6. CASE \E d \in Deciders : Approve(d) \/ Reject(d)
    BY <2>6, DecisionKeeps DEF Approve, Reject, StrategyStatuses
  <2>7. CASE \E to \in {"Backtesting", "Live", "Deprecated"} : PromoteElsewhere(to)
    BY <2>7, OtherStatusKeeps DEF PromoteElsewhere, StrategyStatuses
  <2> QED BY <2>1, <2>3, <2>4, <2>5, <2>6, <2>7, RecommendationKeeps, PromoteKeeps, LoadsKeep, RegenStepKeeps
             DEF LifecycleNext
<1>3. LifecycleInv => PaperTradingIsApproved
  BY DEF LifecycleInv
<1> QED BY <1>1, <1>2, <1>3, PTL DEF LifecycleSpec

-----------------------------------------------------------------------------
(* ChatIntake: an update delivered more than once *)

Hook == [upd : Updates, step : {"replay", "limit", "record", "route"}]

PastReplay(h) == hook[h].step \in {"limit", "record", "route"}

HookTypeOK == hook \in [Handlers -> {NoHook} \cup Hook] /\ copies \in [Msgs -> Nat]

(* SET NX lets one request for each update past the replay check, and only before its rows
   are inserted. *)
OnePastReplay ==
  \A h \in Handlers : PastReplay(h) =>
    /\ hook[h].upd \in seen /\ copies[hook[h].upd] = 0
    /\ \A g \in Handlers \ {h} : PastReplay(g) => hook[g].upd # hook[h].upd

InsertedWasSeen == \A m \in Updates : copies[m] <= 1 /\ (copies[m] = 1 => m \in seen)

(* What was seen is inserted, lost or under way. *)
SeenIsHandled ==
  \A m \in Routable \cap seen :
    copies[m] = 1 \/ m \in lost \/ \E h \in Handlers : PastReplay(h) /\ hook[h].upd = m

AckedWasSeen == Routable \cap acked \subseteq seen

ChatInv == HookTypeOK /\ OnePastReplay /\ InsertedWasSeen /\ SeenIsHandled /\ AckedWasSeen

LEMMA HookEffect ==
    ASSUME HookTypeOK, NEW h \in Handlers, NEW x \in {NoHook} \cup Hook, hook' = [hook EXCEPT ![h] = x],
           copies' = copies
    PROVE  HookTypeOK' /\ hook'[h] = x /\ \A g \in Handlers \ {h} : hook'[g] = hook[g]
BY DEF HookTypeOK

(* The types of a busy handler, and that an idle one is past no check. *)
LEMMA BusyHook ==
    ASSUME HookTypeOK, NEW h \in Handlers
    PROVE  /\ hook[h].step # "idle" => hook[h] \in Hook /\ hook[h].upd \in Updates /\ hook[h].upd \in Msgs
           /\ NoHook.step = "idle" /\ NoHook.upd = "none"
BY DEF HookTypeOK, NoHook, Hook, Msgs

(* A handler goes on to the next step with its update. *)
LEMMA StepForward ==
    ASSUME HookTypeOK, NEW h \in Handlers, hook[h].step # "idle",
           NEW s \in {"limit", "record", "route"}, hook' = [hook EXCEPT ![h].step = s], copies' = copies
    PROVE  /\ HookTypeOK' /\ hook'[h].upd = hook[h].upd /\ hook'[h].step = s
           /\ \A g \in Handlers \ {h} : hook'[g] = hook[g]
<1>1. hook' = [hook EXCEPT ![h] = [hook[h] EXCEPT !.step = s]]
  BY DEF HookTypeOK
<1>2. hook[h] \in Hook
  BY BusyHook
<1>3. [hook[h] EXCEPT !.step = s] \in Hook /\ [hook[h] EXCEPT !.step = s].upd = hook[h].upd
      /\ [hook[h] EXCEPT !.step = s].step = s
  BY <1>2 DEF Hook
<1> QED BY <1>1, <1>3, HookEffect

LEMMA ReplyEffect ==
    ASSUME HookTypeOK, NEW h \in Handlers, NEW ok \in BOOLEAN, Reply(h, ok), copies' = copies
    PROVE  /\ HookTypeOK' /\ hook'[h].step = "idle" /\ \A g \in Handlers \ {h} : hook'[g] = hook[g]
           /\ acked' = IF ok THEN acked \cup {hook[h].upd} ELSE acked
BY BusyHook, HookEffect DEF Reply

LEMMA ReplayCheckKeeps ==
    ASSUME ChatInv, NEW h \in Handlers, ReplayCheck(h)
    PROVE  ChatInv'
<1> USE DEF ChatInv
<1> DEFINE m == hook[h].upd
<1>1. /\ hook[h].step = "replay" /\ seen' = seen \cup {m} /\ UNCHANGED <<copies, lost>>
      /\ m \in Updates
  BY BusyHook DEF ReplayCheck
<1>2. CASE m \in seen
  <2>1. /\ HookTypeOK' /\ hook'[h].step = "idle" /\ \A g \in Handlers \ {h} : hook'[g] = hook[g]
        /\ acked' = acked \cup {m} /\ seen' = seen
    BY <1>1, <1>2, ReplyEffect DEF ReplayCheck, IsReplay
  <2>2. \A g \in Handlers : PastReplay(g)' <=> PastReplay(g)
    BY <1>1, <2>1 DEF PastReplay
  <2>3. \A g \in Handlers : PastReplay(g) => hook'[g] = hook[g]
    BY <1>1, <2>1 DEF PastReplay
  <2>4. OnePastReplay' /\ InsertedWasSeen' /\ AckedWasSeen'
    BY <1>1, <1>2, <2>1, <2>2, <2>3 DEF OnePastReplay, InsertedWasSeen, AckedWasSeen
  <2>5. SeenIsHandled'
    BY <1>1, <1>2, <2>1, <2>2, <2>3 DEF SeenIsHandled
  <2> QED BY <2>1, <2>4, <2>5
<1>3. CASE m \notin seen
  <2>1. /\ HookTypeOK' /\ hook'[h].upd = m /\ hook'[h].step = "limit"
        /\ \A g \in Handlers \ {h} : hook'[g] = hook[g]
    BY <1>1, <1>3, StepForward DEF ReplayCheck, IsReplay
  <2>2. acked' = acked
    BY <1>3 DEF ReplayCheck, IsReplay
  <2>3. /\ PastReplay(h)' /\ \A g \in Handlers \ {h} : PastReplay(g)' <=> PastReplay(g)
        /\ \A g \in Handlers : PastReplay(g) => hook[g].upd # m
    BY <1>1, <1>3, <2>1 DEF PastReplay, OnePastReplay
  <2>4. copies[m] = 0
    BY <1>1, <1>3 DEF InsertedWasSeen, HookTypeOK, Msgs
  <2>5. OnePastReplay'
    BY <1>1, <2>1, <2>3, <2>4 DEF OnePastReplay
  <2>6. InsertedWasSeen' /\ AckedWasSeen'
    BY <1>1, <2>2 DEF InsertedWasSeen, AckedWasSeen
  <2>7. SeenIsHandled'
    <3> SUFFICES ASSUME NEW k \in Routable \cap seen'
                 PROVE  copies'[k] = 1 \/ k \in lost' \/ \E g \in Handlers : PastReplay(g)' /\ hook'[g].upd = k
      BY DEF SeenIsHandled
    <3>1. CASE k = m
      BY <2>1, <2>3, <3>1
    <3>2. CASE k # m
      <4>1. k \in Routable \cap seen
        BY <1>1, <3>2
      <4>2. copies[k] = 1 \/ k \in lost \/ \E g \in Handlers : PastReplay(g) /\ hook[g].upd = k
        BY <4>1 DEF SeenIsHandled
      <4>3. ~PastReplay(h)
        BY <1>1 DEF PastReplay
      <4> QED BY <1>1, <2>1, <2>3, <4>2, <4>3
    <3> QED BY <3>1, <3>2
  <2> QED BY <2>1, <2>5, <2>6, <2>7
<1> QED BY <1>2, <1>3

(* A handler that is past the replay check moves on or gives up. *)
LEMMA MovingOnKeeps ==
    ASSUME ChatInv, NEW h \in Handlers, PastReplay(h), HookTypeOK',
           UNCHANGED <<copies, seen>>, lost \subseteq lost',
           \A g \in Handlers \ {h} : hook'[g] = hook[g],
           \/ hook'[h].upd = hook[h].upd /\ PastReplay(h)' /\ acked' = acked
           \/ hook'[h].step = "idle" /\ hook[h].upd \in lost' /\ acked' = acked
           \/ hook'[h].step = "idle" /\ hook[h].upd \notin Routable /\ acked' = acked \cup {hook[h].upd}
    PROVE  ChatInv'
<1> USE DEF ChatInv
<1>1. \A g \in Handlers \ {h} : PastReplay(g)' <=> PastReplay(g)
  BY DEF PastReplay
<1>2. PastReplay(h)' => hook'[h].upd = hook[h].upd
  BY DEF PastReplay
<1>3. OnePastReplay'
  BY <1>1, <1>2 DEF OnePastReplay
<1>4. InsertedWasSeen' /\ AckedWasSeen'
  BY DEF InsertedWasSeen, AckedWasSeen
<1>5. SeenIsHandled'
  <2> SUFFICES ASSUME NEW k \in Routable \cap seen
               PROVE  copies[k] = 1 \/ k \in lost' \/ \E g \in Handlers : PastReplay(g)' /\ hook'[g].upd = k
    BY DEF SeenIsHandled
  <2>1. CASE k = hook[h].upd
    BY <2>1, <1>2
  <2>2. CASE k # hook[h].upd
    <3>1. copies[k] = 1 \/ k \in lost \/ \E g \in Handlers : PastReplay(g) /\ hook[g].upd = k
      BY DEF SeenIsHandled
    <3> QED BY <1>1, <2>2, <3>1
  <2> QED BY <2>1, <2>2
<1> QED BY <1>3, <1>4, <1>5

LEMMA CheckRateLimitKeeps ==
    ASSUME ChatInv, NEW h \in Handlers, CheckRateLimit(h)
    PROVE  ChatInv'
<1>1. HookTypeOK /\ PastReplay(h) /\ hook[h].step # "idle" /\ UNCHANGED <<copies, seen>>
  BY DEF ChatInv, CheckRateLimit, PastReplay
<1>2. CASE counts.chat + 1 <= ChatLimit
  <2>1. hook' = [hook EXCEPT ![h].step = "record"] /\ UNCHANGED <<acked, lost>>
    BY <1>2 DEF CheckRateLimit
  <2>2. /\ HookTypeOK' /\ hook'[h].upd = hook[h].upd /\ hook'[h].step = "record"
        /\ \A g \in Handlers \ {h} : hook'[g] = hook[g]
    BY <1>1, <2>1, StepForward
  <2> QED BY <1>1, <2>1, <2>2, MovingOnKeeps DEF PastReplay
<1>3. CASE ~(counts.chat + 1 <= ChatLimit)
  <2>1. Reply(h, FALSE) /\ lost' = lost \cup {hook[h].upd}
    BY <1>3 DEF CheckRateLimit
  <2> QED BY <1>1, <2>1, ReplyEffect, MovingOnKeeps
<1> QED BY <1>2, <1>3

LEMMA RecordEventKeeps ==
    ASSUME ChatInv, NEW h \in Handlers, RecordEvent(h)
    PROVE  ChatInv'
<1>1. HookTypeOK /\ PastReplay(h) /\ hook[h].step # "idle" /\ UNCHANGED <<copies, seen, lost>>
  BY DEF ChatInv, RecordEvent, PastReplay
<1>2. CASE hook[h].upd \in Routable
  <2>1. hook' = [hook EXCEPT ![h].step = "route"] /\ UNCHANGED acked
    BY <1>2 DEF RecordEvent
  <2>2. /\ HookTypeOK' /\ hook'[h].upd = hook[h].upd /\ hook'[h].step = "route"
        /\ \A g \in Handlers \ {h} : hook'[g] = hook[g]
    BY <1>1, <2>1, StepForward
  <2> QED BY <1>1, <2>1, <2>2, MovingOnKeeps DEF PastReplay
<1>3. CASE hook[h].upd \notin Routable
  <2>1. Reply(h, TRUE)
    BY <1>3 DEF RecordEvent
  <2> QED BY <1>1, <1>3, <2>1, ReplyEffect, MovingOnKeeps
<1> QED BY <1>2, <1>3

LEMMA RouteKeeps ==
    ASSUME ChatInv, NEW h \in Handlers, RecordEventAndRoute(h)
    PROVE  ChatInv'
<1> USE DEF ChatInv
<1> DEFINE m == hook[h].upd
<1>1. /\ PastReplay(h) /\ hook[h].step # "idle" /\ UNCHANGED <<seen, lost>>
      /\ hook' = [hook EXCEPT ![h] = NoHook] /\ acked' = acked \cup {m}
      /\ copies' = [copies EXCEPT ![m] = @ + 1]
  BY DEF RecordEventAndRoute, PastReplay, Reply, InsertRows
<1>2. m \in Updates /\ m \in Msgs /\ copies[m] = 0 /\ m \in seen
  BY <1>1, BusyHook DEF OnePastReplay
<1>3. /\ HookTypeOK' /\ hook'[h].step = "idle" /\ \A g \in Handlers \ {h} : hook'[g] = hook[g]
      /\ copies'[m] = 1 /\ \A k \in Msgs \ {m} : copies'[k] = copies[k]
  BY <1>1, <1>2 DEF HookTypeOK, NoHook
<1>4. /\ ~PastReplay(h)' /\ \A g \in Handlers \ {h} : PastReplay(g)' <=> PastReplay(g)
      /\ \A g \in Handlers \ {h} : PastReplay(g) => hook[g].upd # m
  BY <1>1, <1>3 DEF PastReplay, OnePastReplay
<1>5. \A g \in Handlers : PastReplay(g) => hook[g].upd \in Msgs
  BY BusyHook DEF PastReplay
<1>6. OnePastReplay'
  BY <1>1, <1>3, <1>4, <1>5 DEF OnePastReplay
<1>7. InsertedWasSeen' /\ AckedWasSeen'
  BY <1>1, <1>2, <1>3 DEF InsertedWasSeen, AckedWasSeen, Msgs
<1>8. SeenIsHandled'
  <2> SUFFICES ASSUME NEW k \in Routable \cap seen
               PROVE  copies'[k] = 1 \/ k \in lost' \/ \E g \in Handlers : PastReplay(g)' /\ hook'[g].upd = k
    BY <1>1 DEF SeenIsHandled
  <2>1. CASE k = m
    BY <1>3, <2>1
  <2>2. CASE k # m
    <3>1. copies[k] = 1 \/ k \in lost \/ \E g \in Handlers : PastReplay(g) /\ hook[g].upd = k
      BY DEF SeenIsHandled
    <3>2. k \in Msgs
      BY ChatBounds DEF Msgs
    <3> QED BY <1>1, <1>3, <1>4, <2>2, <3>1, <3>2
  <2> QED BY <2>1, <2>2
<1> QED BY <1>3, <1>6, <1>7, <1>8

LEMMA HandlerFailsKeeps ==
    ASSUME ChatInv, NEW h \in Handlers, HandlerFails(h)
    PROVE  ChatInv'
<1>1. /\ HookTypeOK /\ hook[h].step # "idle" /\ UNCHANGED <<copies, seen>> /\ Reply(h, FALSE)
      /\ lost' = IF hook[h].step = "replay" THEN lost ELSE lost \cup {hook[h].upd}
  BY DEF ChatInv, HandlerFails
<1>2. /\ HookTypeOK' /\ hook'[h].step = "idle" /\ \A g \in Handlers \ {h} : hook'[g] = hook[g]
      /\ acked' = acked
  BY <1>1, ReplyEffect
<1>3. CASE PastReplay(h)
  BY <1>1, <1>2, <1>3, MovingOnKeeps DEF PastReplay
<1>4. CASE ~PastReplay(h)
  <2>1. lost \subseteq lost'
    BY <1>1
  <2>2. \A g \in Handlers : (PastReplay(g)' <=> PastReplay(g)) /\ (PastReplay(g) => hook'[g] = hook[g])
    BY <1>2, <1>4 DEF PastReplay
  <2>3. OnePastReplay' /\ InsertedWasSeen' /\ AckedWasSeen'
    BY <1>1, <1>2, <2>2 DEF ChatInv, OnePastReplay, InsertedWasSeen, AckedWasSeen
  <2>4. SeenIsHandled'
    BY <1>1, <2>1, <2>2 DEF ChatInv, SeenIsHandled
  <2> QED BY <1>2, <2>3, <2>4 DEF ChatInv
<1> QED BY <1>3, <1>4

LEMMA DeliverKeeps ==
    ASSUME ChatInv, NEW h \in Handlers, NEW m \in Updates, Deliver(h, m)
    PROVE  ChatInv'
<1>1. /\ hook[h].step = "idle" /\ hook' = [hook EXCEPT ![h] = [upd |-> m, step |-> "replay"]]
      /\ UNCHANGED <<copies, seen, lost, acked>> /\ HookTypeOK
  BY DEF ChatInv, Deliver
<1>2. [upd |-> m, step |-> "replay"] \in Hook
  BY DEF Hook
<1>3. /\ HookTypeOK' /\ hook'[h].step = "replay" /\ \A g \in Handlers \ {h} : hook'[g] = hook[g]
  <2>1. [upd |-> m, step |-> "replay"].step = "replay"
    OBVIOUS
  <2>2. \A x \in Hook : hook' = [hook EXCEPT ![h] = x] =>
          HookTypeOK' /\ hook'[h] = x /\ \A g \in Handlers \ {h} : hook'[g] = hook[g]
    BY <1>1, HookEffect
  <2> QED BY <1>1, <1>2, <2>1, <2>2
<1>4. \A g \in Handlers : (PastReplay(g)' <=> PastReplay(g)) /\ (PastReplay(g) => hook'[g] = hook[g])
  BY <1>1, <1>3 DEF PastReplay
<1>5. OnePastReplay' /\ InsertedWasSeen' /\ AckedWasSeen'
  BY <1>1, <1>4 DEF ChatInv, OnePastReplay, InsertedWasSeen, AckedWasSeen
<1>6. SeenIsHandled'
  BY <1>1, <1>4 DEF ChatInv, SeenIsHandled
<1> QED BY <1>3, <1>5, <1>6 DEF ChatInv

LEMMA SendMessageKeeps ==
    ASSUME ChatInv, NEW m \in WebMessages, SendMessage(m)
    PROVE  ChatInv'
<1>1. /\ UNCHANGED <<hook, seen, lost, acked>>
      /\ copies' = copies \/ copies' = [copies EXCEPT ![m] = @ + 1]
  BY DEF SendMessage, InsertRows
<1>2. /\ copies' \in [Msgs -> Nat] /\ \A k \in Updates : copies'[k] = copies[k]
  <2>1. m \in Msgs /\ m \notin Updates /\ copies \in [Msgs -> Nat] /\ Updates \subseteq Msgs
    BY ChatBounds DEF ChatInv, HookTypeOK, Msgs
  <2>2. copies[m] + 1 \in Nat
    BY <2>1
  <2> QED BY <1>1, <2>1, <2>2
<1>3. HookTypeOK' /\ \A h \in Handlers : PastReplay(h)' <=> PastReplay(h)
  BY <1>1, <1>2 DEF ChatInv, HookTypeOK, PastReplay
<1>4. \A h \in Handlers : PastReplay(h) => hook[h].upd \in Updates
  BY BusyHook DEF ChatInv, PastReplay
<1>5. OnePastReplay' /\ InsertedWasSeen' /\ AckedWasSeen'
  BY <1>1, <1>2, <1>3, <1>4 DEF ChatInv, OnePastReplay, InsertedWasSeen, AckedWasSeen
<1>6. SeenIsHandled'
  BY <1>1, <1>2, <1>3, ChatBounds DEF ChatInv, SeenIsHandled
<1> QED BY <1>3, <1>5, <1>6 DEF ChatInv

LEMMA ChatProcessDiesKeeps ==
    ASSUME ChatInv, ChatProcessDies
    PROVE  ChatInv'
<1>1. /\ hook' = [h \in Handlers |-> NoHook] /\ UNCHANGED <<copies, seen, acked>>
      /\ lost \subseteq lost' /\ \A h \in Handlers : PastReplay(h) => hook[h].upd \in lost'
  BY DEF ChatProcessDies, PastReplay
<1>2. HookTypeOK' /\ \A h \in Handlers : ~PastReplay(h)'
  BY <1>1 DEF ChatInv, HookTypeOK, PastReplay, NoHook
<1>3. OnePastReplay' /\ InsertedWasSeen' /\ AckedWasSeen'
  BY <1>1, <1>2 DEF ChatInv, OnePastReplay, InsertedWasSeen, AckedWasSeen
<1>4. SeenIsHandled'
  BY <1>1 DEF ChatInv, SeenIsHandled
<1> QED BY <1>2, <1>3, <1>4 DEF ChatInv

LEMMA ChatInvHolds == ChatInit /\ [][ChatNext]_chatVars => []ChatInv
<1>1. ChatInit => ChatInv
  BY DEF ChatInit, ChatInv, HookTypeOK, OnePastReplay, InsertedWasSeen, SeenIsHandled, AckedWasSeen,
         PastReplay, NoHook, Msgs
<1>2. ChatInv /\ [ChatNext]_chatVars => ChatInv'
  <2> SUFFICES ASSUME ChatInv, [ChatNext]_chatVars PROVE ChatInv'
    OBVIOUS
  <2>1. CASE UNCHANGED <<hook, copies, seen, lost, acked>>
    BY <2>1 DEF ChatInv, HookTypeOK, OnePastReplay, InsertedWasSeen, SeenIsHandled, AckedWasSeen, PastReplay
  <2>2. CASE \E m \in Msgs : AnswerStep(m)
    BY <2>1, <2>2 DEF AnswerStep, ClassifyMessage, ClassifyFails, CreateRun, ThreadDies, WatchRunAndReply,
                      GenerateAndStoreReply, OnComplete, Resolved
  <2>3. CASE NextWindow \/ UNCHANGED chatVars
    BY <2>1, <2>3 DEF NextWindow, chatVars
  <2> QED BY <2>2, <2>3, ReplayCheckKeeps, CheckRateLimitKeeps, RecordEventKeeps, RouteKeeps, HandlerFailsKeeps,
             DeliverKeeps, SendMessageKeeps, ChatProcessDiesKeeps DEF ChatNext
<1> QED BY <1>1, <1>2, PTL

(* Whatever the sender retries while its key lives, and wherever a handler fails or its process dies, an update
   is put before an agent at most once; one that was acknowledged has been put there, is
   being handled, or was lost to a refusal or failure after it was marked seen
   (is_replay, check_rate_limit, _record_event_and_route). *)
THEOREM DeliveredOnce == ChatSpec => []PutBeforeAgentOnce
<1>1. ChatInv => PutBeforeAgentOnce
  BY DEF ChatInv, PutBeforeAgentOnce, InsertedWasSeen, SeenIsHandled, AckedWasSeen
<1> QED BY <1>1, ChatInvHolds, PTL DEF ChatSpec

-----------------------------------------------------------------------------
(* ChatIntake: every pending reply is resolved *)

ReplyStatuses == {"none", "Pending", "Completed", "Failed"}
Answering == {"classify", "create", "direct", "watch"}
AnswerSteps == Answering \cup {"none", "notifyRun", "notifyDirect"}
ReplyDone(m) == rows[m] # "Pending" \/ m \in orphaned
AnswerIn(m, step) == answer[m] = step

ChatTypeOK == rows \in [Msgs -> ReplyStatuses] /\ answer \in [Msgs -> AnswerSteps]

(* A pending reply has a thread that will resolve it, unless the thread died; and a message with
   rows or a thread has been inserted, so that no webhook inserts it again (OnePastReplay). *)
RepliesAttended ==
  /\ ChatTypeOK
  /\ \A m \in Msgs : ReplyDone(m) \/ answer[m] \in Answering
  /\ \A m \in Msgs : rows[m] # "none" \/ answer[m] # "none" => copies[m] # 0

(* The thread of m goes forward or its reply is done. *)
LEMMA AnswerAdvances ==
    ASSUME RepliesAttended, NEW m \in Msgs, AnswerStep(m)
    PROVE  /\ ChatTypeOK' /\ answer[m] # "none" /\ copies' = copies /\ orphaned \subseteq orphaned'
           /\ \A k \in Msgs \ {m} : answer'[k] = answer[k] /\ rows'[k] = rows[k]
           /\ \/ ReplyDone(m)'
              \/ answer[m] = "classify" /\ answer'[m] \in {"direct", "create"}
              \/ answer[m] = "create" /\ answer'[m] = "watch"
<1> DEFINE Goal == /\ ChatTypeOK' /\ answer[m] # "none" /\ copies' = copies /\ orphaned \subseteq orphaned'
                   /\ \A k \in Msgs \ {m} : answer'[k] = answer[k] /\ rows'[k] = rows[k]
                   /\ \/ ReplyDone(m)'
                      \/ answer[m] = "classify" /\ answer'[m] \in {"direct", "create"}
                      \/ answer[m] = "create" /\ answer'[m] = "watch"
<1> SUFFICES Goal
  OBVIOUS
<1>1. rows \in [Msgs -> ReplyStatuses] /\ answer \in [Msgs -> AnswerSteps]
  BY DEF RepliesAttended, ChatTypeOK
<1>2. ASSUME NEW s \in Answering, answer' = [answer EXCEPT ![m] = s], UNCHANGED <<rows, copies, orphaned>>,
             \/ answer[m] = "classify" /\ s \in {"direct", "create"}
             \/ answer[m] = "create" /\ s = "watch"
      PROVE  Goal
  <2>1. answer' \in [Msgs -> AnswerSteps] /\ answer'[m] = s /\ \A k \in Msgs \ {m} : answer'[k] = answer[k]
    BY <1>1, <1>2 DEF AnswerSteps
  <2> QED BY <1>1, <1>2, <2>1 DEF ChatTypeOK
<1>3. ASSUME ThreadDies(m), answer[m] # "none" PROVE Goal
  <2>1. /\ answer' = [answer EXCEPT ![m] = "none"] /\ rows' = rows /\ copies' = copies
        /\ orphaned' = orphaned \cup {m}
    BY <1>3 DEF ThreadDies
  <2>2. answer' \in [Msgs -> AnswerSteps] /\ \A k \in Msgs \ {m} : answer'[k] = answer[k]
    BY <1>1, <2>1 DEF AnswerSteps
  <2>3. ReplyDone(m)'
    BY <2>1 DEF ReplyDone
  <2> QED BY <1>1, <1>3, <2>1, <2>2, <2>3 DEF ChatTypeOK
<1>4. ASSUME NEW s \in ReplyStatuses, NEW next \in AnswerSteps, Resolved(m, s, next), answer[m] # "none",
             s # "Pending" \/ m \in orphaned
      PROVE  Goal
  <2>1. /\ answer' = [answer EXCEPT ![m] = next] /\ rows' = [rows EXCEPT ![m] = s] /\ copies' = copies
        /\ orphaned' = orphaned
    BY <1>4 DEF Resolved
  <2>2. /\ answer' \in [Msgs -> AnswerSteps] /\ \A k \in Msgs \ {m} : answer'[k] = answer[k]
        /\ rows' \in [Msgs -> ReplyStatuses] /\ \A k \in Msgs \ {m} : rows'[k] = rows[k]
        /\ rows'[m] = s
    BY <1>1, <2>1
  <2>3. ReplyDone(m)'
    BY <1>4, <2>1, <2>2 DEF ReplyDone
  <2> QED BY <1>4, <2>1, <2>2, <2>3 DEF ChatTypeOK
<1>5. {"Completed", "Failed"} \subseteq ReplyStatuses /\ {"none", "notifyRun", "notifyDirect"} \subseteq AnswerSteps
      /\ {"direct", "create", "watch"} \subseteq Answering
  BY DEF ReplyStatuses, AnswerSteps, Answering
<1> HIDE DEF Goal
<1>6. CASE ClassifyMessage(m) \/ ClassifyFails(m)
  BY <1>2, <1>5, <1>6 DEF ClassifyMessage, ClassifyFails
<1>7. CASE CreateRun(m)
  BY <1>2, <1>3, <1>5, <1>7 DEF CreateRun
<1>8. CASE WatchRunAndReply(m) \/ GenerateAndStoreReply(m)
  BY <1>3, <1>4, <1>5, <1>8 DEF WatchRunAndReply, GenerateAndStoreReply
<1>9. CASE OnComplete(m)
  <2>1. answer[m] \in {"notifyRun", "notifyDirect"}
    BY <1>9 DEF OnComplete
  <2>2. rows[m] \in ReplyStatuses /\ (rows[m] # "Pending" \/ m \in orphaned)
    BY <1>1, <2>1 DEF RepliesAttended, Answering, ReplyDone
  <2>3. answer[m] # "none"
    BY <2>1
  <2>4. CASE Resolved(m, rows[m], "none") \/ Resolved(m, "Failed", "none")
    BY <1>4, <1>5, <2>2, <2>3, <2>4
  <2>5. CASE ThreadDies(m)
    BY <1>3, <2>3, <2>5
  <2> QED BY <1>9, <2>4, <2>5 DEF OnComplete
<1> QED BY <1>6, <1>7, <1>8, <1>9 DEF AnswerStep

(* Rows are inserted only for a message that has none, and their thread starts with them. *)
LEMMA InsertStarts ==
    ASSUME ChatTypeOK, copies \in [Msgs -> Nat], NEW m \in Msgs, InsertRows(m)
    PROVE  /\ ChatTypeOK' /\ copies'[m] # 0 /\ answer'[m] = "classify"
           /\ \A k \in Msgs \ {m} : answer'[k] = answer[k] /\ rows'[k] = rows[k] /\ copies'[k] = copies[k]
<1>1. "Pending" \in ReplyStatuses /\ "classify" \in AnswerSteps
  BY DEF ReplyStatuses, AnswerSteps, Answering
<1>2. copies[m] \in Nat /\ copies' = [copies EXCEPT ![m] = copies[m] + 1]
  BY DEF InsertRows
<1>3. copies'[m] = copies[m] + 1 /\ copies[m] + 1 # 0
  BY <1>2
<1> QED BY <1>1, <1>2, <1>3 DEF InsertRows, ChatTypeOK

LEMMA RouteOnlyNew ==
    ASSUME ChatInv, RepliesAttended, NEW h \in Handlers, RecordEventAndRoute(h)
    PROVE  /\ hook[h].upd \in Msgs /\ rows[hook[h].upd] = "none" /\ answer[hook[h].upd] = "none"
           /\ InsertRows(hook[h].upd) /\ orphaned' = orphaned
<1>1. hook[h].step = "route"
  BY DEF RecordEventAndRoute
<1>2. hook[h].upd \in Msgs
  BY <1>1, BusyHook DEF ChatInv
<1>3. copies[hook[h].upd] = 0
  BY <1>1 DEF ChatInv, OnePastReplay, PastReplay
<1> QED BY <1>2, <1>3 DEF RecordEventAndRoute, RepliesAttended

(* Every step leaves the replies alone, is one of an answering thread, inserts a new message or
   kills all threads. *)
LEMMA ChatSteps ==
    ASSUME ChatInv, RepliesAttended, [ChatNext]_chatVars
    PROVE  \/ UNCHANGED <<rows, answer, copies, orphaned>>
           \/ \E m \in Msgs : AnswerStep(m)
           \/ \E m \in Msgs : rows[m] = "none" /\ InsertRows(m) /\ orphaned' = orphaned
           \/ ChatProcessDies
<1>1. ASSUME NEW m \in WebMessages, SendMessage(m)
      PROVE  \/ UNCHANGED <<rows, answer, copies, orphaned>>
             \/ \E k \in Msgs : rows[k] = "none" /\ InsertRows(k) /\ orphaned' = orphaned
  BY <1>1 DEF SendMessage, Msgs
<1>2. ASSUME NEW h \in Handlers,
             ReplayCheck(h) \/ CheckRateLimit(h) \/ RecordEvent(h) \/ HandlerFails(h) \/ \E m \in Updates : Deliver(h, m)
      PROVE  UNCHANGED <<rows, answer, copies, orphaned>>
  BY <1>2 DEF ReplayCheck, CheckRateLimit, RecordEvent, HandlerFails, Deliver
<1>3. ASSUME NEW h \in Handlers, RecordEventAndRoute(h)
      PROVE  \E m \in Msgs : rows[m] = "none" /\ InsertRows(m) /\ orphaned' = orphaned
  BY <1>3, RouteOnlyNew
<1>4. CASE NextWindow \/ UNCHANGED chatVars
  BY <1>4 DEF NextWindow, chatVars
<1> QED BY <1>1, <1>2, <1>3, <1>4 DEF ChatNext

LEMMA DyingEndsAll ==
    ASSUME RepliesAttended, ChatProcessDies
    PROVE  /\ ChatTypeOK' /\ rows' = rows /\ copies' = copies
           /\ \A m \in Msgs : answer'[m] = "none" /\ ReplyDone(m)'
<1>1. /\ answer' = [m \in Msgs |-> "none"] /\ rows' = rows /\ copies' = copies
      /\ orphaned' = orphaned \cup {m \in Msgs : answer[m] # "none"}
  BY DEF ChatProcessDies
<1>2. ASSUME NEW m \in Msgs PROVE ReplyDone(m)'
  <2>1. rows[m] # "Pending" \/ m \in orphaned \/ answer[m] # "none"
    BY DEF RepliesAttended, ReplyDone, Answering
  <2> QED BY <1>1, <2>1 DEF ReplyDone
<1>3. "none" \in AnswerSteps
  BY DEF AnswerSteps
<1> QED BY <1>1, <1>2, <1>3 DEF RepliesAttended, ChatTypeOK

LEMMA RepliesStayAttended == ChatInit /\ [][ChatNext]_chatVars => [](ChatInv /\ RepliesAttended)
<1>1. ChatInit => RepliesAttended
  BY DEF ChatInit, RepliesAttended, ChatTypeOK, ReplyDone, AnswerSteps, ReplyStatuses
<1>2. ChatInv /\ RepliesAttended /\ [ChatNext]_chatVars => RepliesAttended'
  <2> SUFFICES ASSUME ChatInv, RepliesAttended, [ChatNext]_chatVars PROVE RepliesAttended'
    OBVIOUS
  <2>1. ChatTypeOK /\ copies \in [Msgs -> Nat]
    BY DEF RepliesAttended, ChatInv, HookTypeOK
  <2>2. CASE UNCHANGED <<rows, answer, copies, orphaned>>
    BY <2>2 DEF RepliesAttended, ChatTypeOK, ReplyDone
  <2>3. ASSUME NEW m \in Msgs, AnswerStep(m) PROVE RepliesAttended'
    <3>1. ASSUME NEW k \in Msgs PROVE ReplyDone(k)' \/ answer'[k] \in Answering
      <4>1. CASE k = m
        BY <2>3, <4>1, AnswerAdvances DEF Answering
      <4>2. CASE k # m
        BY <2>3, <4>2, AnswerAdvances DEF RepliesAttended, ReplyDone
      <4> QED BY <4>1, <4>2
    <3>2. ASSUME NEW k \in Msgs, rows'[k] # "none" \/ answer'[k] # "none" PROVE copies'[k] # 0
      BY <2>3, <3>2, AnswerAdvances DEF RepliesAttended
    <3> QED BY <2>3, <3>1, <3>2, AnswerAdvances DEF RepliesAttended
  <2>4. ASSUME NEW m \in Msgs, InsertRows(m), orphaned' = orphaned PROVE RepliesAttended'
    <3>1. /\ ChatTypeOK' /\ copies'[m] # 0 /\ answer'[m] = "classify"
          /\ \A k \in Msgs \ {m} : answer'[k] = answer[k] /\ rows'[k] = rows[k] /\ copies'[k] = copies[k]
      BY <2>1, <2>4, InsertStarts
    <3> QED BY <2>4, <3>1 DEF RepliesAttended, ReplyDone, Answering
  <2>5. CASE ChatProcessDies
    BY <2>5, DyingEndsAll DEF RepliesAttended
  <2> QED BY <2>2, <2>3, <2>4, <2>5, ChatSteps
<1> QED BY <1>1, <1>2, ChatInvHolds, PTL

(* What the provers cannot derive of weak fairness: that a thread on its way to a reply can take
   a step, which the guards of the steps say. *)
AnswerCanMove(m) == [](answer[m] \in Answering => ENABLED <<AnswerStep(m)>>_chatVars)
AnswersCanMove == \A m \in Msgs : AnswerCanMove(m)

LEMMA OneReplyResolves ==
    ASSUME NEW m \in Msgs
    PROVE  ChatInit /\ [][ChatNext]_chatVars /\ AnswerFairness(m) /\ AnswerCanMove(m)
             => (rows[m] = "Pending" ~> ReplyDone(m))
<1> DEFINE Inv == ChatInv /\ RepliesAttended
           Done == ReplyDone(m)
           Busy == answer[m] \in Answering
           Classify == AnswerIn(m, "classify")
           Create == AnswerIn(m, "create")
           Last == AnswerIn(m, "direct") \/ AnswerIn(m, "watch")
<1>1. Inv => Done \/ Classify \/ Create \/ Last
  BY DEF RepliesAttended, Answering, AnswerIn
<1>2. Classify \/ Create \/ Last => Busy
  BY DEF Answering, AnswerIn
<1>3. Inv /\ ~Done /\ [ChatNext]_chatVars =>
        \/ AnswerStep(m) \/ Done'
        \/ /\ Classify => Classify'
           /\ Create => Create'
           /\ Last => Last'
  <2> SUFFICES ASSUME ChatInv, RepliesAttended, rows[m] = "Pending", [ChatNext]_chatVars
               PROVE  AnswerStep(m) \/ ReplyDone(m)' \/ answer'[m] = answer[m]
    BY DEF ReplyDone, AnswerIn
  <2>1. ASSUME NEW k \in Msgs, AnswerStep(k) PROVE AnswerStep(m) \/ answer'[m] = answer[m]
    BY <2>1, AnswerAdvances
  <2>2. ASSUME NEW k \in Msgs, rows[k] = "none", InsertRows(k) PROVE answer'[m] = answer[m]
    BY <2>2 DEF InsertRows, RepliesAttended, ChatTypeOK
  <2> QED BY <2>1, <2>2, ChatSteps, DyingEndsAll
<1>4. Inv /\ AnswerStep(m) =>
        /\ Classify => Create' \/ Last' \/ Done'
        /\ Create => Last' \/ Done'
        /\ Last => Done'
  BY AnswerAdvances DEF AnswerIn
<1> HIDE DEF Inv, Done, Busy, Classify, Create, Last
<1>5. ChatInit /\ [][ChatNext]_chatVars => []Inv
  BY RepliesStayAttended DEF Inv
<1>6. AnswerCanMove(m) => [](Busy => ENABLED <<AnswerStep(m)>>_chatVars)
  BY DEF AnswerCanMove, Busy
<1>7. ChatInit /\ [][ChatNext]_chatVars /\ AnswerFairness(m) /\ AnswerCanMove(m) => []<>Done
  BY <1>1, <1>2, <1>3, <1>4, <1>5, <1>6, PTL DEF AnswerFairness
<1>8. ChatInit /\ [][ChatNext]_chatVars /\ AnswerFairness(m) /\ AnswerCanMove(m) => (rows[m] = "Pending" ~> Done)
  BY <1>7, PTL
<1> QED BY <1>8 DEF Done

(* Every pending reply is resolved unless its thread died under it, for any number of messages
   and deliveries: weak fairness of the message's own thread suffices, if a thread on its way can
   always go on (classify_and_dispatch, generate_and_store_reply, watch_run_and_reply). *)
THEOREM RepliesAreResolved == ChatSpec /\ AnswersCanMove => RepliesResolve
<1> SUFFICES ASSUME NEW m \in Msgs
             PROVE  ChatSpec /\ AnswersCanMove => (rows[m] = "Pending" ~> ReplyDone(m))
  BY DEF RepliesResolve, ReplyDone
<1>1. ChatFairness => AnswerFairness(m)
  BY DEF ChatFairness
<1>2. AnswersCanMove => AnswerCanMove(m)
  BY DEF AnswersCanMove
<1> QED BY <1>1, <1>2, OneReplyResolves, PTL DEF ChatSpec

-----------------------------------------------------------------------------
(* SandboxPool: jobs, their workers and their pipes *)

BacktestRec ==
  [phase : {"idle", "start", "send", "read", "oneshot", "persist", "simulate", "ended"},
   status : {"none", "Running", "Failed", "Completed"}, at : Workers \cup {NoWorker},
   got : BtJobs \cup {"none"}, raised : BOOLEAN, tainted : BOOLEAN]
WorkerRec ==
  [alive : BOOLEAN, overflow : BOOLEAN, done : Nat, inbox : Seq(BtJobs),
   pipe : Seq(BtJobs \cup {"noise"}), noised : BOOLEAN]

PoolTypeOK ==
  /\ bt \in [BtJobs -> BacktestRec] /\ worker \in [Workers -> WorkerRec]
  /\ pool \subseteq Workers /\ lostSlots \in Nat

(* A job has a worker from checkout to checkin, alone, and no worker of the pool; those are
   never overflow workers. *)
SeatsOK ==
  /\ \A j \in BtJobs : bt[j].at # NoWorker <=> bt[j].phase \in {"send", "read"}
  /\ \A j \in BtJobs : bt[j].at \notin pool
  /\ \A i, j \in BtJobs : bt[i].at = bt[j].at /\ bt[i].at # NoWorker => i = j
  /\ \A w \in pool : ~worker[w].overflow

Quiet(w) == worker[w].inbox = <<>> /\ worker[w].pipe = <<>>
Working(w, j) ==
  \/ worker[w].inbox = <<j>> /\ worker[w].pipe = <<>>
  \/ worker[w].inbox = <<>> /\ worker[w].pipe \in {<<>>, <<j>>}

(* As long as nothing was printed, a worker's pipes hold at most the job it was sent, or
   that job's answer. *)
PipesHold ==
  \A w \in Workers : ~worker[w].noised =>
    /\ w \in pool => Quiet(w)
    /\ \A j \in BtJobs : bt[j].at = w =>
         (bt[j].phase = "send" => Quiet(w)) /\ (bt[j].phase = "read" => Working(w, j))

Seated == {j \in BtJobs : bt[j].at # NoWorker /\ ~worker[bt[j].at].overflow}

(* PoolKeepsItsSize, with the sets it counts. *)
PoolCounts ==
  /\ IsFiniteSet(pool) /\ IsFiniteSet(Seated)
  /\ Cardinality(pool) + Cardinality(Seated) = PoolSize - lostSlots

PoolInv == PoolTypeOK /\ SeatsOK /\ PipesHold /\ PoolCounts /\ ResultsAreOwn

-----------------------------------------------------------------------------
LEMMA WorkerShapes ==
    /\ \A o \in BOOLEAN : /\ Fresh(o) \in WorkerRec /\ Fresh(o).overflow = o /\ ~Fresh(o).noised
                          /\ Fresh(o).inbox = <<>> /\ Fresh(o).pipe = <<>>
    /\ Dead \in WorkerRec /\ ~Dead.overflow /\ ~Dead.noised /\ Dead.inbox = <<>> /\ Dead.pipe = <<>>
<1>1. <<>> \in Seq(BtJobs) /\ <<>> \in Seq(BtJobs \cup {"noise"})
  OBVIOUS
<1>2. \A o \in BOOLEAN : /\ Fresh(o) \in WorkerRec /\ Fresh(o).overflow = o /\ ~Fresh(o).noised
                         /\ Fresh(o).inbox = <<>> /\ Fresh(o).pipe = <<>>
  BY <1>1 DEF Fresh, WorkerRec
<1>3. Dead \in WorkerRec /\ ~Dead.overflow /\ ~Dead.noised /\ Dead.inbox = <<>> /\ Dead.pipe = <<>>
  BY <1>1 DEF Fresh, WorkerRec, Dead
<1> QED BY <1>2, <1>3

LEMMA JobShapes ==
    ASSUME PoolTypeOK, NEW j \in BtJobs
    PROVE  /\ bt[j] \in BacktestRec
           /\ \A s \in {"Failed", "Completed"} :
                /\ Settled(j, s) \in BacktestRec /\ Settled(j, s).at = NoWorker
                /\ Settled(j, s).phase = "ended" /\ Settled(j, s).got = bt[j].got
                /\ Settled(j, s).tainted = bt[j].tainted
<1>1. bt[j] \in BacktestRec
  BY DEF PoolTypeOK
<1> QED BY <1>1 DEF Settled, BacktestRec

(* A job that has no worker goes on to a phase that needs none. *)
LEMMA UnseatedKeeps ==
    ASSUME PoolInv, NEW j \in BtJobs, NEW x \in BacktestRec, bt' = [bt EXCEPT ![j] = x],
           bt[j].at = NoWorker, x.at = NoWorker, x.phase \notin {"send", "read"},
           x.got \in {"none", j} \/ x.tainted, UNCHANGED <<worker, pool, lostSlots>>
    PROVE  PoolInv'
<1> USE DEF PoolInv
<1>1. bt' \in [BtJobs -> BacktestRec] /\ bt'[j] = x /\ \A i \in BtJobs \ {j} : bt'[i] = bt[i]
  BY DEF PoolTypeOK
<1>2. PoolTypeOK'
  BY <1>1 DEF PoolTypeOK
<1>3. SeatsOK'
  BY <1>1 DEF SeatsOK
<1>4. PipesHold'
  BY <1>1 DEF PipesHold, Quiet, Working
<1>5. Seated' = Seated
  BY <1>1 DEF Seated
<1>6. PoolCounts'
  BY <1>5 DEF PoolCounts
<1>7. ResultsAreOwn'
  BY <1>1 DEF ResultsAreOwn
<1> QED BY <1>2, <1>3, <1>4, <1>6, <1>7

(* A worker comes back with its job's outcome. *)
LEMMA CheckinKeeps ==
    ASSUME PoolInv, NEW j \in BtJobs, bt[j].phase \in {"send", "read"},
           NEW rec \in WorkerRec, rec.overflow = worker[bt[j].at].overflow,
           NEW healthy \in BOOLEAN, healthy /\ ~rec.noised => rec.inbox = <<>> /\ rec.pipe = <<>>,
           NEW outcome \in BacktestRec, outcome.at = NoWorker, outcome.phase \notin {"send", "read"},
           outcome.got \in {"none", j} \/ outcome.tainted,
           Checkin(bt[j].at, rec, healthy, j, outcome)
    PROVE  PoolInv'
<1> USE DEF PoolInv
<1> DEFINE w == bt[j].at
<1>1. w \in Workers /\ w # NoWorker /\ w \notin pool /\ bt[j] \in BacktestRec
  BY DEF PoolTypeOK, SeatsOK, BacktestRec
<1>2. PICK x \in BacktestRec, v \in WorkerRec :
        /\ bt' = [bt EXCEPT ![j] = x] /\ worker' = [worker EXCEPT ![w] = v]
        /\ x.at = NoWorker /\ x.phase \notin {"send", "read"} /\ (x.got \in {"none", j} \/ x.tainted)
        /\ \/ /\ worker[w].overflow /\ UNCHANGED <<pool, lostSlots>>
           \/ /\ ~worker[w].overflow /\ pool' = pool \cup {w} /\ UNCHANGED lostSlots
              /\ ~v.overflow /\ (~v.noised => v.inbox = <<>> /\ v.pipe = <<>>)
           \/ /\ ~worker[w].overflow /\ pool' = pool /\ lostSlots' = lostSlots + 1
  <2> DEFINE reusable == healthy /\ rec.done < MaxJobsPerWorker
  <2>1. CASE /\ rec.overflow /\ worker' = [worker EXCEPT ![w] = Dead]
             /\ bt' = [bt EXCEPT ![j] = outcome] /\ UNCHANGED <<pool, lostSlots>>
    BY <2>1, WorkerShapes
  <2>2. CASE /\ ~rec.overflow /\ worker' = [worker EXCEPT ![w] = IF reusable THEN rec ELSE Fresh(FALSE)]
             /\ pool' = pool \cup {w} /\ bt' = [bt EXCEPT ![j] = outcome] /\ UNCHANGED lostSlots
    <3>1. Fresh(FALSE) \in WorkerRec /\ ~Fresh(FALSE).overflow
          /\ Fresh(FALSE).inbox = <<>> /\ Fresh(FALSE).pipe = <<>>
      BY WorkerShapes
    <3>2. CASE reusable
      BY <2>2, <3>2
    <3>3. CASE ~reusable
      BY <2>2, <3>1, <3>3
    <3> QED BY <3>2, <3>3
  <2>3. CASE /\ ~rec.overflow /\ worker' = [worker EXCEPT ![w] = Dead]
             /\ bt' = [bt EXCEPT ![j].phase = "oneshot", ![j].at = NoWorker]
             /\ lostSlots' = lostSlots + 1 /\ UNCHANGED pool
    <3> DEFINE x == [bt[j] EXCEPT !.phase = "oneshot", !.at = NoWorker]
    <3>1. x \in BacktestRec /\ x.at = NoWorker /\ x.phase = "oneshot" /\ x.got = bt[j].got /\ x.tainted = bt[j].tainted
      BY <1>1 DEF BacktestRec
    <3>2. bt' = [bt EXCEPT ![j] = x]
      BY <2>3 DEF PoolTypeOK
    <3> HIDE DEF x
    <3>3. x.got \in {"none", j} \/ x.tainted
      BY <3>1 DEF ResultsAreOwn
    <3> QED BY <2>3, <3>1, <3>2, <3>3, WorkerShapes
  <2> QED BY <2>1, <2>2, <2>3 DEF Checkin
<1>3. /\ bt' \in [BtJobs -> BacktestRec] /\ bt'[j] = x /\ \A i \in BtJobs \ {j} : bt'[i] = bt[i]
      /\ worker' \in [Workers -> WorkerRec] /\ worker'[w] = v
      /\ \A u \in Workers \ {w} : worker'[u] = worker[u]
  BY <1>1, <1>2 DEF PoolTypeOK
<1>4. \A i \in BtJobs \ {j} : bt[i].at # w
  BY <1>1 DEF SeatsOK
<1>5. PoolTypeOK'
  BY <1>1, <1>2, <1>3 DEF PoolTypeOK
<1>6. SeatsOK'
  <2>1. \A i \in BtJobs : bt'[i].at # NoWorker <=> bt'[i].phase \in {"send", "read"}
    BY <1>2, <1>3 DEF SeatsOK
  <2>2. \A i, k \in BtJobs : bt'[i].at = bt'[k].at /\ bt'[i].at # NoWorker => i = k
    BY <1>2, <1>3 DEF SeatsOK
  <2>3. NoWorker \notin Workers
    BY PoolBounds DEF NoWorker
  <2>4. \A i \in BtJobs : bt'[i].at \notin pool'
    BY <1>1, <1>2, <1>3, <1>4, <2>3 DEF SeatsOK, PoolTypeOK
  <2>5. \A u \in pool' : ~worker'[u].overflow
    BY <1>1, <1>2, <1>3 DEF SeatsOK, PoolTypeOK
  <2> QED BY <2>1, <2>2, <2>4, <2>5 DEF SeatsOK
<1>7. PipesHold'
  <2> SUFFICES ASSUME NEW u \in Workers, ~worker'[u].noised
               PROVE  /\ u \in pool' => Quiet(u)'
                      /\ \A i \in BtJobs : bt'[i].at = u =>
                           (bt'[i].phase = "send" => Quiet(u)') /\ (bt'[i].phase = "read" => Working(u, i)')
    BY DEF PipesHold
  <2>1. CASE u = w
    <3>1. \A i \in BtJobs : bt'[i].at # w
      BY <1>1, <1>2, <1>3, <1>4
    <3> QED BY <1>1, <1>2, <1>3, <2>1, <3>1 DEF Quiet
  <2>2. CASE u # w
    <3>1. worker'[u] = worker[u] /\ (u \in pool' => u \in pool)
      BY <1>2, <1>3, <2>2
    <3>2. \A i \in BtJobs : bt'[i].at = u => bt'[i] = bt[i]
      BY <1>2, <1>3, PoolBounds DEF NoWorker
    <3> QED BY <3>1, <3>2 DEF PipesHold, Quiet, Working
  <2> QED BY <2>1, <2>2
<1>8. Seated' = Seated \ {j}
  <2>1. \A i \in BtJobs \ {j} : bt'[i] = bt[i] /\ (bt[i].at # NoWorker => worker'[bt[i].at] = worker[bt[i].at])
    <3>1. \A i \in BtJobs : bt[i].at \in Workers \cup {NoWorker}
      BY DEF PoolTypeOK, BacktestRec
    <3> QED BY <1>3, <1>4, <3>1
  <2> QED BY <1>2, <1>3, <2>1 DEF Seated
<1>9. PoolCounts'
  <2>1. Cardinality(pool) \in Nat /\ Cardinality(Seated) \in Nat /\ IsFiniteSet(Seated) /\ IsFiniteSet(pool)
    BY FS_CardinalityType DEF PoolCounts
  <2>2. /\ IsFiniteSet(Seated')
        /\ Cardinality(Seated') = IF j \in Seated THEN Cardinality(Seated) - 1 ELSE Cardinality(Seated)
    BY <1>8, <2>1, FS_RemoveElement
  <2>3. j \in Seated <=> ~worker[w].overflow
    BY <1>1 DEF Seated
  <2>4. IsFiniteSet(pool \cup {w}) /\ Cardinality(pool \cup {w}) = Cardinality(pool) + 1
    BY <1>1, <2>1, FS_AddElement
  <2>5. lostSlots \in Nat /\ PoolSize \in Nat
    BY PoolBounds DEF PoolTypeOK
  <2>6. Cardinality(pool) + Cardinality(Seated) = PoolSize - lostSlots
    BY DEF PoolCounts
  <2> DEFINE cp == Cardinality(pool)
             cs == Cardinality(Seated)
             cq == Cardinality(Seated')
  <2>7. \/ worker[w].overflow /\ pool' = pool /\ lostSlots' = lostSlots
        \/ ~worker[w].overflow /\ pool' = pool \cup {w} /\ lostSlots' = lostSlots
        \/ ~worker[w].overflow /\ pool' = pool /\ lostSlots' = lostSlots + 1
    BY <1>2
  <2>8. IsFiniteSet(pool') /\ IsFiniteSet(Seated')
    BY <2>1, <2>2, <2>4, <2>7
  <2>9. Cardinality(pool') + cq = PoolSize - lostSlots'
    <3>1. CASE worker[w].overflow /\ pool' = pool /\ lostSlots' = lostSlots
      BY <2>2, <2>3, <2>6, <3>1
    <3>2. CASE ~worker[w].overflow /\ pool' = pool \cup {w} /\ lostSlots' = lostSlots
      <4>1. Cardinality(pool') = cp + 1 /\ cq = cs - 1 /\ cp \in Nat /\ cs \in Nat
        BY <2>1, <2>2, <2>3, <2>4, <3>2
      <4>2. cp + cs = PoolSize - lostSlots
        BY <2>6
      <4> HIDE DEF cp, cs, cq
      <4> QED BY <2>5, <3>2, <4>1, <4>2
    <3>3. CASE ~worker[w].overflow /\ pool' = pool /\ lostSlots' = lostSlots + 1
      <4>1. Cardinality(pool') = cp /\ cq = cs - 1 /\ cp \in Nat /\ cs \in Nat
        BY <2>1, <2>2, <2>3, <3>3
      <4>2. cp + cs = PoolSize - lostSlots
        BY <2>6
      <4> HIDE DEF cp, cs, cq
      <4> QED BY <2>5, <3>3, <4>1, <4>2
    <3> QED BY <2>7, <3>1, <3>2, <3>3
  <2> QED BY <2>8, <2>9 DEF PoolCounts
<1>10. ResultsAreOwn'
  BY <1>2, <1>3 DEF ResultsAreOwn
<1> QED BY <1>5, <1>6, <1>7, <1>9, <1>10

(* The worker a job is given: out of the pool, or a fresh one of its own. *)
LEMMA CheckoutKeeps ==
    ASSUME PoolInv, NEW j \in BtJobs, Checkout(j)
    PROVE  PoolInv'
<1> USE DEF PoolInv
<1>1. bt[j] \in BacktestRec /\ bt[j].phase = "start" /\ bt[j].at = NoWorker /\ NoWorker \notin Workers
  BY PoolBounds DEF PoolTypeOK, SeatsOK, Checkout, NoWorker
<1>2. bt[j].got \in {"none", j} \/ bt[j].tainted
  BY DEF ResultsAreOwn
<1>3. CASE bt' = [bt EXCEPT ![j].phase = "oneshot"] /\ UNCHANGED <<pool, worker, lostSlots>>
  <2> DEFINE x == [bt[j] EXCEPT !.phase = "oneshot"]
  <2>1. x \in BacktestRec /\ x.at = NoWorker /\ x.phase = "oneshot" /\ x.got = bt[j].got /\ x.tainted = bt[j].tainted
    BY <1>1 DEF BacktestRec
  <2>2. bt' = [bt EXCEPT ![j] = x]
    BY <1>3 DEF PoolTypeOK
  <2> HIDE DEF x
  <2> QED BY <1>1, <1>2, <1>3, <2>1, <2>2, UnseatedKeeps
<1>4. ASSUME NEW w \in Workers, \A i \in BtJobs : bt[i].at # w,
             NEW v \in WorkerRec, ~v.noised => v.inbox = <<>> /\ v.pipe = <<>>,
             worker' = [worker EXCEPT ![w] = v],
             pool' = pool \ {w}, w \in pool <=> ~v.overflow,
             bt' = [bt EXCEPT ![j].phase = "send", ![j].at = w], UNCHANGED lostSlots
      PROVE  PoolInv'
  <2> DEFINE x == [bt[j] EXCEPT !.phase = "send", !.at = w]
  <2>1. x \in BacktestRec /\ x.at = w /\ x.phase = "send" /\ x.got = bt[j].got /\ x.tainted = bt[j].tainted
    BY <1>1 DEF BacktestRec
  <2>2. bt' = [bt EXCEPT ![j] = x]
    BY <1>4 DEF PoolTypeOK
  <2> HIDE DEF x
  <2>3. /\ bt' \in [BtJobs -> BacktestRec] /\ bt'[j] = x /\ \A i \in BtJobs \ {j} : bt'[i] = bt[i]
        /\ worker' \in [Workers -> WorkerRec] /\ worker'[w] = v
        /\ \A u \in Workers \ {w} : worker'[u] = worker[u]
    BY <1>4, <2>1, <2>2 DEF PoolTypeOK
  <2>4. PoolTypeOK'
    BY <1>4, <2>3 DEF PoolTypeOK
  <2>5. SeatsOK'
    <3>1. \A i \in BtJobs : bt'[i].at # NoWorker <=> bt'[i].phase \in {"send", "read"}
      BY <1>1, <2>1, <2>3 DEF SeatsOK
    <3>2. \A i, k \in BtJobs : bt'[i].at = bt'[k].at /\ bt'[i].at # NoWorker => i = k
      BY <1>4, <2>1, <2>3 DEF SeatsOK
    <3>3. \A i \in BtJobs : bt'[i].at \notin pool'
      BY <1>4, <2>1, <2>3 DEF SeatsOK
    <3>4. \A u \in pool' : ~worker'[u].overflow
      BY <1>4, <2>3 DEF SeatsOK, PoolTypeOK
    <3> QED BY <3>1, <3>2, <3>3, <3>4 DEF SeatsOK
  <2>6. PipesHold'
    <3> SUFFICES ASSUME NEW u \in Workers, ~worker'[u].noised
                 PROVE  /\ u \in pool' => Quiet(u)'
                        /\ \A i \in BtJobs : bt'[i].at = u =>
                             (bt'[i].phase = "send" => Quiet(u)') /\ (bt'[i].phase = "read" => Working(u, i)')
      BY DEF PipesHold
    <3>1. CASE u = w
      <4>1. Quiet(u)'
        BY <1>4, <2>3, <3>1 DEF Quiet
      <4>2. \A i \in BtJobs : bt'[i].at = u => bt'[i].phase = "send"
        BY <1>4, <2>1, <2>3, <3>1
      <4> QED BY <4>1, <4>2
    <3>2. CASE u # w
      <4>1. worker'[u] = worker[u] /\ (u \in pool' => u \in pool)
        BY <1>4, <2>3, <3>2
      <4>2. \A i \in BtJobs : bt'[i].at = u => bt'[i] = bt[i]
        BY <2>1, <2>3, <3>2
      <4> QED BY <4>1, <4>2 DEF PipesHold, Quiet, Working
    <3> QED BY <3>1, <3>2
  <2>7. Seated' = IF v.overflow THEN Seated ELSE Seated \cup {j}
    <3>1. \A i \in BtJobs \ {j} : bt'[i] = bt[i] /\ (bt[i].at # NoWorker => worker'[bt[i].at] = worker[bt[i].at])
      <4>1. \A i \in BtJobs : bt[i].at \in Workers \cup {NoWorker}
        BY DEF PoolTypeOK, BacktestRec
      <4> QED BY <1>4, <2>3, <4>1
    <3>2. j \in Seated' <=> ~v.overflow
      BY <1>1, <1>4, <2>1, <2>3 DEF Seated
    <3>3. j \notin Seated
      BY <1>1 DEF Seated
    <3>4. \A i \in BtJobs \ {j} : i \in Seated' <=> i \in Seated
      BY <3>1 DEF Seated
    <3>5. Seated \subseteq BtJobs /\ Seated' \subseteq BtJobs
      BY DEF Seated
    <3> QED BY <3>2, <3>3, <3>4, <3>5
  <2>8. PoolCounts'
    <3>1. IsFiniteSet(pool) /\ IsFiniteSet(Seated) /\ Cardinality(pool) + Cardinality(Seated) = PoolSize - lostSlots
      BY DEF PoolCounts
    <3>2. Cardinality(pool) \in Nat /\ Cardinality(Seated) \in Nat
      BY <3>1, FS_CardinalityType
    <3>3. j \notin Seated
      BY <1>1 DEF Seated
    <3>4. CASE v.overflow
      <4>1. pool' = pool /\ Seated' = Seated /\ lostSlots' = lostSlots
        BY <1>4, <2>7, <3>4
      <4> QED BY <3>1, <4>1 DEF PoolCounts
    <3>5. CASE ~v.overflow
      <4>1. w \in pool /\ pool' = pool \ {w} /\ Seated' = Seated \cup {j} /\ lostSlots' = lostSlots
        BY <1>4, <2>7, <3>5
      <4>2. IsFiniteSet(pool \ {w}) /\ Cardinality(pool \ {w}) = Cardinality(pool) - 1
        BY <3>1, <4>1, FS_RemoveElement
      <4>3. IsFiniteSet(Seated \cup {j}) /\ Cardinality(Seated \cup {j}) = Cardinality(Seated) + 1
        BY <3>1, <3>3, FS_AddElement
      <4>4. IsFiniteSet(pool') /\ IsFiniteSet(Seated')
        BY <4>1, <4>2, <4>3
      <4>5. Cardinality(pool') + Cardinality(Seated') = PoolSize - lostSlots'
        <5> DEFINE cp == Cardinality(pool)
                   cs == Cardinality(Seated)
        <5>1. Cardinality(pool') = cp - 1 /\ Cardinality(Seated') = cs + 1 /\ cp \in Nat /\ cs \in Nat
          BY <3>2, <4>1, <4>2, <4>3
        <5>2. cp + cs = PoolSize - lostSlots
          BY <3>1
        <5> HIDE DEF cp, cs
        <5> QED BY <4>1, <5>1, <5>2
      <4> QED BY <4>4, <4>5 DEF PoolCounts
    <3> QED BY <3>4, <3>5
  <2>9. ResultsAreOwn'
    BY <1>2, <2>1, <2>3 DEF ResultsAreOwn
  <2> QED BY <2>4, <2>5, <2>6, <2>8, <2>9
<1>5. ASSUME NEW w \in pool, pool' = pool \ {w}, UNCHANGED <<worker, lostSlots>>,
             bt' = [bt EXCEPT ![j].phase = "send", ![j].at = w]
      PROVE  PoolInv'
  <2>1. w \in Workers /\ \A i \in BtJobs : bt[i].at # w
    BY DEF PoolTypeOK, SeatsOK
  <2>2. worker[w] \in WorkerRec /\ ~worker[w].overflow /\ worker' = [worker EXCEPT ![w] = worker[w]]
    BY <1>5, <2>1 DEF PoolTypeOK, SeatsOK
  <2>3. ~worker[w].noised => worker[w].inbox = <<>> /\ worker[w].pipe = <<>>
    BY <2>1 DEF PipesHold, Quiet
  <2> QED BY <1>4, <1>5, <2>1, <2>2, <2>3
<1>6. ASSUME pool = {}, Unused # {}, UNCHANGED <<pool, lostSlots>>,
             worker' = [worker EXCEPT ![CHOOSE u \in Unused : TRUE] = Fresh(TRUE)],
             bt' = [bt EXCEPT ![j].phase = "send", ![j].at = CHOOSE u \in Unused : TRUE]
      PROVE  PoolInv'
  <2> DEFINE w == CHOOSE u \in Unused : TRUE
  <2>1. w \in Unused
    BY <1>6
  <2>2. worker' = [worker EXCEPT ![w] = Fresh(TRUE)] /\ bt' = [bt EXCEPT ![j].phase = "send", ![j].at = w]
    BY <1>6
  <2> HIDE DEF w
  <2>3. w \in Workers /\ \A i \in BtJobs : bt[i].at # w
    BY <2>1 DEF Unused, InUse
  <2>4. Fresh(TRUE) \in WorkerRec /\ Fresh(TRUE).overflow /\ Fresh(TRUE).inbox = <<>> /\ Fresh(TRUE).pipe = <<>>
    BY WorkerShapes
  <2>5. pool' = pool \ {w} /\ w \notin pool /\ UNCHANGED lostSlots
    BY <1>6
  <2> QED BY <1>4, <2>2, <2>3, <2>4, <2>5
<1> QED BY <1>3, <1>5, <1>6 DEF Checkout

(* A worker that stays where it is may be sent a job, answer it, or die. *)
LEMMA WorkerKeeps ==
    ASSUME PoolInv, NEW w \in Workers, NEW v \in WorkerRec, v.overflow = worker[w].overflow,
           worker' = [worker EXCEPT ![w] = v], UNCHANGED <<pool, lostSlots>>,
           bt' \in [BtJobs -> BacktestRec],
           \A i \in BtJobs : /\ bt'[i].at = bt[i].at /\ bt'[i].got = bt[i].got /\ bt'[i].tainted = bt[i].tainted
                             /\ \/ bt'[i].phase = bt[i].phase
                                \/ bt[i].at = w /\ bt[i].phase = "send" /\ bt'[i].phase = "read",
           ~v.noised => /\ w \in pool => Quiet(w)'
                        /\ \A i \in BtJobs : bt'[i].at = w =>
                             (bt'[i].phase = "send" => Quiet(w)') /\ (bt'[i].phase = "read" => Working(w, i)')
    PROVE  PoolInv'
<1> USE DEF PoolInv
<1>1. /\ worker' \in [Workers -> WorkerRec] /\ worker'[w] = v
      /\ \A u \in Workers \ {w} : worker'[u] = worker[u]
  BY DEF PoolTypeOK
<1>2. PoolTypeOK'
  BY <1>1 DEF PoolTypeOK
<1>3. SeatsOK'
  <2>1. \A i \in BtJobs : bt'[i].at # NoWorker <=> bt'[i].phase \in {"send", "read"}
    BY DEF SeatsOK
  <2>2. \A i, k \in BtJobs : bt'[i].at = bt'[k].at /\ bt'[i].at # NoWorker => i = k
    BY DEF SeatsOK
  <2>3. \A i \in BtJobs : bt'[i].at \notin pool'
    BY DEF SeatsOK
  <2>4. \A u \in pool' : ~worker'[u].overflow
    BY <1>1 DEF SeatsOK, PoolTypeOK
  <2> QED BY <2>1, <2>2, <2>3, <2>4 DEF SeatsOK
<1>4. PipesHold'
  <2> SUFFICES ASSUME NEW u \in Workers, ~worker'[u].noised
               PROVE  /\ u \in pool' => Quiet(u)'
                      /\ \A i \in BtJobs : bt'[i].at = u =>
                           (bt'[i].phase = "send" => Quiet(u)') /\ (bt'[i].phase = "read" => Working(u, i)')
    BY DEF PipesHold
  <2>1. CASE u = w
    BY <1>1, <2>1
  <2>2. CASE u # w
    <3>1. worker'[u] = worker[u] /\ (u \in pool' => u \in pool)
      BY <1>1, <2>2
    <3>2. \A i \in BtJobs : bt'[i].at = u => bt[i].at = u /\ bt'[i].phase = bt[i].phase
      BY <2>2
    <3> QED BY <3>1, <3>2 DEF PipesHold, Quiet, Working
  <2> QED BY <2>1, <2>2
<1>5. Seated' = Seated
  <2>1. \A u \in Workers : worker'[u].overflow = worker[u].overflow
    BY <1>1
  <2>2. \A i \in BtJobs : bt[i].at \in Workers \cup {NoWorker}
    BY DEF PoolTypeOK, BacktestRec
  <2> QED BY <2>1, <2>2 DEF Seated
<1>6. PoolCounts'
  BY <1>5 DEF PoolCounts
<1>7. ResultsAreOwn'
  BY DEF ResultsAreOwn
<1> QED BY <1>2, <1>3, <1>4, <1>6, <1>7

LEMMA SendJobKeeps ==
    ASSUME PoolInv, NEW j \in BtJobs, SendJob(j)
    PROVE  PoolInv'
<1> USE DEF PoolInv
<1>0. bt[j].at \in Workers
  BY DEF PoolTypeOK, SeatsOK, BacktestRec, SendJob
<1>w. PICK w \in Workers : w = bt[j].at
  BY <1>0
<1>1. w = bt[j].at /\ w # NoWorker /\ w \notin pool /\ bt[j] \in BacktestRec /\ bt[j].phase = "send"
  BY <1>w DEF PoolTypeOK, SeatsOK, BacktestRec, SendJob
<1>2. worker[w] \in WorkerRec
  BY <1>1 DEF PoolTypeOK
<1>3. CASE worker[w].alive
  <2> DEFINE v == [worker[w] EXCEPT !.inbox = Append(@, j)]
             x == [bt[j] EXCEPT !.phase = "read"]
  <2>1. /\ worker' = [worker EXCEPT ![w].inbox = Append(@, j)] /\ bt' = [bt EXCEPT ![j].phase = "read"]
        /\ UNCHANGED <<pool, lostSlots>>
    BY <1>3, <1>w DEF SendJob
  <2>2. worker[w].inbox \in Seq(BtJobs) /\ Append(worker[w].inbox, j) \in Seq(BtJobs)
    BY <1>2 DEF WorkerRec
  <2>3. /\ v \in WorkerRec /\ v.overflow = worker[w].overflow /\ v.noised = worker[w].noised
        /\ v.inbox = Append(worker[w].inbox, j) /\ v.pipe = worker[w].pipe
    BY <1>2, <2>2 DEF WorkerRec
  <2>4. x \in BacktestRec /\ x.at = w /\ x.phase = "read" /\ x.got = bt[j].got /\ x.tainted = bt[j].tainted
    BY <1>1 DEF BacktestRec
  <2>5. worker' = [worker EXCEPT ![w] = v] /\ bt' = [bt EXCEPT ![j] = x]
    BY <1>1, <2>1 DEF PoolTypeOK
  <2> HIDE DEF v, x
  <2>6. /\ bt' \in [BtJobs -> BacktestRec] /\ bt'[j] = x /\ \A i \in BtJobs \ {j} : bt'[i] = bt[i]
        /\ worker'[w] = v
    BY <1>1, <2>3, <2>4, <2>5 DEF PoolTypeOK
  <2>7. \A i \in BtJobs \ {j} : bt[i].at # w
    BY <1>1 DEF SeatsOK
  <2>8. ~v.noised => Working(w, j)'
    <3>1. ~v.noised => v.inbox = <<j>> /\ v.pipe = <<>>
      <4>1. Append(<<>>, j) = <<j>>
        OBVIOUS
      <4>2. ~v.noised => worker[w].inbox = <<>> /\ worker[w].pipe = <<>>
        BY <1>1, <2>3 DEF PipesHold, Quiet
      <4> QED BY <2>3, <4>1, <4>2
    <3> QED BY <2>6, <3>1 DEF Working
  <2>9. \A i \in BtJobs : /\ bt'[i].at = bt[i].at /\ bt'[i].got = bt[i].got /\ bt'[i].tainted = bt[i].tainted
                          /\ \/ bt'[i].phase = bt[i].phase
                             \/ bt[i].at = w /\ bt[i].phase = "send" /\ bt'[i].phase = "read"
    BY <1>1, <2>4, <2>6
  <2>10. ~v.noised => /\ w \in pool => Quiet(w)'
                      /\ \A i \in BtJobs : bt'[i].at = w =>
                           (bt'[i].phase = "send" => Quiet(w)') /\ (bt'[i].phase = "read" => Working(w, i)')
    BY <1>1, <2>4, <2>6, <2>7, <2>8
  <2>11. /\ UNCHANGED <<pool, lostSlots>> /\ v \in WorkerRec /\ v.overflow = worker[w].overflow
         /\ worker' = [worker EXCEPT ![w] = v] /\ bt' \in [BtJobs -> BacktestRec]
    BY <2>1, <2>3, <2>5, <2>6
  <2> HIDE DEF PoolInv
  <2> QED BY <2>9, <2>10, <2>11, WorkerKeeps
<1>4. CASE ~worker[w].alive
  <2>1. Checkin(w, worker[w], FALSE, j, Settled(j, "Failed"))
    BY <1>4, <1>w DEF SendJob
  <2>2. /\ Settled(j, "Failed") \in BacktestRec /\ Settled(j, "Failed").at = NoWorker
        /\ Settled(j, "Failed").phase = "ended"
        /\ Settled(j, "Failed").got \in {"none", j} \/ Settled(j, "Failed").tainted
    BY JobShapes DEF ResultsAreOwn
  <2> QED BY <1>1, <1>2, <2>1, <2>2, CheckinKeeps
<1> QED BY <1>3, <1>4

LEMMA ReadTimeoutKeeps ==
    ASSUME PoolInv, NEW j \in BtJobs, ReadTimeout(j)
    PROVE  PoolInv'
<1> USE DEF PoolInv
<1>1. bt[j].at \in Workers /\ bt[j].phase = "read"
  BY DEF PoolTypeOK, SeatsOK, BacktestRec, ReadTimeout
<1>2. worker[bt[j].at] \in WorkerRec
  BY <1>1 DEF PoolTypeOK
<1>3. Checkin(bt[j].at, worker[bt[j].at], FALSE, j, Settled(j, "Failed"))
  BY DEF ReadTimeout
<1>4. /\ Settled(j, "Failed") \in BacktestRec /\ Settled(j, "Failed").at = NoWorker
      /\ Settled(j, "Failed").phase = "ended"
      /\ Settled(j, "Failed").got \in {"none", j} \/ Settled(j, "Failed").tainted
  BY JobShapes DEF ResultsAreOwn
<1> QED BY <1>1, <1>2, <1>3, <1>4, CheckinKeeps

LEMMA ReadLineKeeps ==
    ASSUME PoolInv, NEW j \in BtJobs, ReadLine(j)
    PROVE  PoolInv'
<1> USE DEF PoolInv
<1> DEFINE w == bt[j].at
           lines == worker[w].pipe
           reply == [bt[j] EXCEPT !.phase = "persist", !.at = NoWorker, !.got = Head(lines),
                                   !.tainted = worker[w].noised]
<1>1. w \in Workers /\ bt[j] \in BacktestRec /\ bt[j].phase = "read" /\ lines # <<>>
  BY DEF PoolTypeOK, SeatsOK, BacktestRec, ReadLine
<1>2. worker[w] \in WorkerRec
  BY <1>1 DEF PoolTypeOK
<1>3. PICK k \in 1 .. Len(lines), outcome \in {Settled(j, "Failed")} \cup
                                   (IF Head(lines) = "noise" THEN {} ELSE {reply}) :
        Checkin(w, [worker[w] EXCEPT !.pipe = SubSeq(lines, k + 1, Len(lines)), !.done = @ + 1],
                TRUE, j, outcome)
  BY DEF ReadLine
<1> DEFINE rec == [worker[w] EXCEPT !.pipe = SubSeq(lines, k + 1, Len(lines)), !.done = @ + 1]
<1>4. lines \in Seq(BtJobs \cup {"noise"}) /\ worker[w].done \in Nat /\ worker[w].noised \in BOOLEAN
  BY <1>2 DEF WorkerRec
<1>5. ~worker[w].noised => worker[w].inbox = <<>> /\ lines = <<j>>
  BY <1>1 DEF PipesHold, Working
<1>6. SubSeq(lines, k + 1, Len(lines)) \in Seq(BtJobs \cup {"noise"})
  BY <1>4
<1>7. /\ rec \in WorkerRec /\ rec.overflow = worker[w].overflow /\ rec.noised = worker[w].noised
      /\ rec.inbox = worker[w].inbox /\ rec.pipe = SubSeq(lines, k + 1, Len(lines))
  <2> DEFINE rest == SubSeq(lines, k + 1, Len(lines))
  <2>1. rest \in Seq(BtJobs \cup {"noise"}) /\ worker[w].done + 1 \in Nat
    BY <1>4, <1>6
  <2>2. rec = [worker[w] EXCEPT !.pipe = rest, !.done = worker[w].done + 1]
    OBVIOUS
  <2> HIDE DEF rest, rec
  <2>3. /\ rec \in WorkerRec /\ rec.overflow = worker[w].overflow /\ rec.noised = worker[w].noised
        /\ rec.inbox = worker[w].inbox /\ rec.pipe = rest
    BY <1>2, <2>1, <2>2 DEF WorkerRec
  <2> QED BY <2>3 DEF rest
<1>8. ~rec.noised => rec.inbox = <<>> /\ rec.pipe = <<>>
  <2> SUFFICES ASSUME ~rec.noised PROVE rec.inbox = <<>> /\ rec.pipe = <<>>
    OBVIOUS
  <2>1. lines = <<j>> /\ rec.inbox = <<>>
    BY <1>5, <1>7
  <2>2. k = 1 /\ Len(lines) = 1
    BY <2>1
  <2>3. SubSeq(<<j>>, 2, 1) = <<>>
    OBVIOUS
  <2> QED BY <1>7, <2>1, <2>2, <2>3
<1>9. /\ Settled(j, "Failed") \in BacktestRec /\ Settled(j, "Failed").at = NoWorker
      /\ Settled(j, "Failed").phase = "ended"
      /\ Settled(j, "Failed").got \in {"none", j} \/ Settled(j, "Failed").tainted
  BY JobShapes DEF ResultsAreOwn
<1>10. Head(lines) # "noise" =>
         /\ reply \in BacktestRec /\ reply.at = NoWorker /\ reply.phase = "persist"
         /\ reply.got \in {"none", j} \/ reply.tainted
  <2> SUFFICES ASSUME Head(lines) # "noise"
               PROVE  /\ reply \in BacktestRec /\ reply.at = NoWorker /\ reply.phase = "persist"
                      /\ reply.got \in {"none", j} \/ reply.tainted
    OBVIOUS
  <2> HIDE DEF lines
  <2>1. Head(lines) \in BtJobs
    BY <1>1, <1>4
  <2>2. /\ reply \in BacktestRec /\ reply.at = NoWorker /\ reply.phase = "persist"
        /\ reply.got = Head(lines) /\ reply.tainted = worker[w].noised
    BY <1>1, <1>4, <2>1 DEF BacktestRec
  <2>3. ~worker[w].noised => Head(lines) = j
    BY <1>5
  <2> QED BY <2>2, <2>3
<1>11. /\ outcome \in BacktestRec /\ outcome.at = NoWorker /\ outcome.phase \notin {"send", "read"}
       /\ outcome.got \in {"none", j} \/ outcome.tainted
  <2> HIDE DEF reply
  <2> QED BY <1>3, <1>9, <1>10
<1>12. Checkin(w, rec, TRUE, j, outcome)
  BY <1>3
<1> HIDE DEF rec
<1> QED BY <1>1, <1>7, <1>8, <1>11, <1>12, CheckinKeeps

LEMMA WorkerStepsKeep ==
    ASSUME PoolInv, NEW w \in Workers, WorkerAnswers(w) \/ WorkerDies(w)
    PROVE  PoolInv'
<1> USE DEF PoolInv
<1>1. worker[w] \in WorkerRec /\ bt' = bt /\ pool' = pool /\ lostSlots' = lostSlots
  BY DEF PoolTypeOK, WorkerAnswers, WorkerDies
<1>2. bt' \in [BtJobs -> BacktestRec]
  BY <1>1 DEF PoolTypeOK
<1>3. CASE WorkerDies(w)
  <2> DEFINE v == [worker[w] EXCEPT !.alive = FALSE, !.inbox = <<>>]
  <2>1. <<>> \in Seq(BtJobs)
    OBVIOUS
  <2>2. v \in WorkerRec /\ v.overflow = worker[w].overflow /\ v.noised = worker[w].noised
        /\ v.inbox = <<>> /\ v.pipe = worker[w].pipe
    BY <1>1, <2>1 DEF WorkerRec
  <2>3. worker' = [worker EXCEPT ![w] = v]
    BY <1>3 DEF WorkerDies, PoolTypeOK
  <2> HIDE DEF v
  <2>4. worker'[w] = v
    BY <2>3 DEF PoolTypeOK
  <2>5. ~v.noised => /\ w \in pool => Quiet(w)'
                     /\ \A i \in BtJobs : bt'[i].at = w =>
                          (bt'[i].phase = "send" => Quiet(w)') /\ (bt'[i].phase = "read" => Working(w, i)')
    BY <1>1, <2>2, <2>4 DEF PipesHold, Quiet, Working
  <2> QED BY <1>1, <1>2, <2>2, <2>3, <2>5, WorkerKeeps
<1>4. CASE WorkerAnswers(w)
  <2> DEFINE in == worker[w].inbox
             out == worker[w].pipe
             j == Head(in)
  <2>1. in \in Seq(BtJobs) /\ in # <<>> /\ out \in Seq(BtJobs \cup {"noise"})
    BY <1>1, <1>4 DEF WorkerAnswers, WorkerRec
  <2>2. PICK noise \in {<<>>, <<"noise">>} :
          worker' = [worker EXCEPT ![w].inbox = Tail(@), ![w].pipe = @ \o noise \o <<j>>,
                                   ![w].noised = @ \/ noise # <<>>]
    BY <1>4 DEF WorkerAnswers
  <2>3. j \in BtJobs /\ Tail(in) \in Seq(BtJobs)
    <3> HIDE DEF in
    <3> QED BY <2>1
  <2>4. out \o noise \o <<j>> \in Seq(BtJobs \cup {"noise"})
    <3> HIDE DEF out, j
    <3>1. j \in BtJobs \cup {"noise"} /\ "noise" \in BtJobs \cup {"noise"}
      BY <2>3
    <3>2. <<j>> \in Seq(BtJobs \cup {"noise"})
      BY <3>1
    <3>3. <<>> \in Seq(BtJobs \cup {"noise"}) /\ <<"noise">> \in Seq(BtJobs \cup {"noise"})
      BY <3>1
    <3>4. noise \in Seq(BtJobs \cup {"noise"})
      BY <3>3
    <3> QED BY <2>1, <3>2, <3>4
  <2> DEFINE spoilt == worker[w].noised \/ noise # <<>>
  <2>5. spoilt \in BOOLEAN
    OBVIOUS
  <2> DEFINE v == [worker[w] EXCEPT !.inbox = Tail(in), !.pipe = out \o noise \o <<j>>, !.noised = spoilt]
  <2>6. worker' = [worker EXCEPT ![w] = v]
    BY <2>2 DEF PoolTypeOK
  <2>7. v \in WorkerRec /\ v.overflow = worker[w].overflow /\ v.noised = spoilt
        /\ v.inbox = Tail(in) /\ v.pipe = out \o noise \o <<j>>
    <3> HIDE DEF spoilt, in, out, j
    <3> QED BY <1>1, <2>3, <2>4, <2>5 DEF WorkerRec
  <2> HIDE DEF v
  <2>8. worker'[w] = v
    BY <2>6 DEF PoolTypeOK
  <2>9. ASSUME ~v.noised
        PROVE /\ w \in pool => Quiet(w)'
              /\ \A i \in BtJobs : bt'[i].at = w =>
                   (bt'[i].phase = "send" => Quiet(w)') /\ (bt'[i].phase = "read" => Working(w, i)')
    <3>1. ~worker[w].noised /\ noise = <<>>
      BY <2>7, <2>9
    <3>2. w \notin pool /\ \A i \in BtJobs : bt[i].at = w => bt[i].phase # "send"
      BY <2>1, <3>1 DEF PipesHold, Quiet
    <3>3. ASSUME NEW i \in BtJobs, bt[i].at = w, bt[i].phase = "read" PROVE Working(w, i)'
      <4>1. in = <<i>> /\ out = <<>>
        BY <2>1, <3>1, <3>3 DEF PipesHold, Working
      <4>2. v.inbox = <<>> /\ v.pipe = <<i>>
        <5>1. Tail(<<i>>) = <<>> /\ Head(<<i>>) = i /\ <<>> \o <<>> \o <<i>> = <<i>>
          OBVIOUS
        <5> QED BY <2>7, <3>1, <4>1, <5>1
      <4> QED BY <2>8, <4>2 DEF Working
    <3> QED BY <1>1, <3>2, <3>3
  <2> QED BY <1>1, <1>2, <2>6, <2>7, <2>9, WorkerKeeps
<1> QED BY <1>3, <1>4

(* The steps of a thread that has no worker. *)
LEMMA UnseatedStepsKeep ==
    ASSUME PoolInv, NEW j \in BtJobs,
           TriggerBacktest(j) \/ NoData(j) \/ ThreadRaises(j) \/ OneShot(j) \/ PersistResult(j) \/ Simulate(j)
    PROVE  PoolInv'
<1>1. /\ UNCHANGED <<worker, pool, lostSlots>>
      /\ bt[j].phase \notin {"send", "read"} /\ bt[j] \in BacktestRec /\ bt \in [BtJobs -> BacktestRec]
  BY DEF PoolInv, PoolTypeOK, TriggerBacktest, NoData, ThreadRaises, OneShot, PersistResult, Simulate
<1>2. bt[j].at = NoWorker /\ (bt[j].got \in {"none", j} \/ bt[j].tainted)
  BY <1>1 DEF PoolInv, SeatsOK, ResultsAreOwn
<1> DEFINE Next1(x) == /\ x \in BacktestRec /\ bt' = [bt EXCEPT ![j] = x] /\ x.at = NoWorker
                       /\ x.phase \notin {"send", "read"} /\ (x.got \in {"none", j} \/ x.tainted)
<1>3. ASSUME NEW x, Next1(x) PROVE PoolInv'
  BY <1>1, <1>2, <1>3, UnseatedKeeps
<1>4. CASE TriggerBacktest(j)
  <2> DEFINE x == [bt[j] EXCEPT !.phase = "start", !.status = "Running"]
  <2>1. bt' = [bt EXCEPT ![j] = x]
    BY <1>1, <1>4 DEF TriggerBacktest
  <2>2. Next1(x)
    BY <1>1, <1>2, <2>1 DEF BacktestRec
  <2> HIDE DEF x, Next1
  <2> QED BY <1>3, <2>2
<1>5. ASSUME NEW s \in {"Failed", "Completed"}, bt' = [bt EXCEPT ![j] = Settled(j, s)] PROVE PoolInv'
  <2>1. Next1(Settled(j, s))
    BY <1>2, <1>5, JobShapes DEF PoolInv
  <2> HIDE DEF Next1
  <2> QED BY <1>3, <2>1
<1>6. CASE ThreadRaises(j)
  <2> DEFINE x == [bt[j] EXCEPT !.phase = "ended", !.raised = TRUE]
  <2>1. bt' = [bt EXCEPT ![j] = x]
    BY <1>1, <1>6 DEF ThreadRaises
  <2>2. Next1(x)
    BY <1>1, <1>2, <2>1 DEF BacktestRec
  <2> HIDE DEF x, Next1
  <2> QED BY <1>3, <2>2
<1>7. ASSUME bt' = [bt EXCEPT ![j].phase = "persist", ![j].got = j] PROVE PoolInv'
  <2> DEFINE x == [bt[j] EXCEPT !.phase = "persist", !.got = j]
  <2>1. bt' = [bt EXCEPT ![j] = x]
    BY <1>1, <1>7
  <2>2. Next1(x)
    BY <1>1, <1>2, <2>1 DEF BacktestRec
  <2> HIDE DEF x, Next1
  <2> QED BY <1>3, <2>2
<1>8. CASE PersistResult(j)
  <2> DEFINE x == [bt[j] EXCEPT !.phase = "simulate"]
  <2>1. bt' = [bt EXCEPT ![j] = x]
    BY <1>1, <1>8 DEF PersistResult
  <2>2. Next1(x)
    BY <1>1, <1>2, <2>1 DEF BacktestRec
  <2> HIDE DEF x, Next1
  <2> QED BY <1>3, <2>2
<1> QED BY <1>4, <1>5, <1>6, <1>7, <1>8 DEF NoData, OneShot, Simulate

(* There are workers enough to choose the first ones. *)
LEMMA FirstWorkers ==
    \E first \in SUBSET Workers : Cardinality(first) = PoolSize
<1>1. IsFiniteSet(Workers) /\ Cardinality(Workers) \in Nat /\ PoolSize \in Nat /\ PoolSize < Cardinality(Workers)
  BY PoolBounds, FS_CardinalityType
<1>2. ExistsBijection(1 .. Cardinality(Workers), Workers)
  BY <1>1, FS_CardinalityType
<1>3. PICK f : f \in Bijection(1 .. Cardinality(Workers), Workers)
  BY <1>2 DEF ExistsBijection
<1> DEFINE dom == 1 .. Cardinality(Workers)
<1>4. (\A n \in dom : f[n] \in Workers) /\ (\A n, m \in dom : f[n] = f[m] => n = m)
  <2> HIDE DEF dom
  <2>1. f \in Injection(dom, Workers)
    BY <1>3 DEF Bijection, dom
  <2>2. f \in [dom -> Workers] /\ (\A n, m \in dom : f[n] = f[m] => n = m)
    BY <2>1 DEF Injection, IsInjective
  <2> QED BY <2>2
<1> DEFINE first == {f[n] : n \in 1 .. PoolSize}
           g == [n \in 1 .. PoolSize |-> f[n]]
<1>5. \A n \in 1 .. PoolSize : n \in 1 .. Cardinality(Workers)
  BY <1>1
<1>6. first \in SUBSET Workers
  BY <1>4, <1>5
<1>7. g \in Bijection(1 .. PoolSize, first)
  <2> DEFINE part == 1 .. PoolSize
  <2>1. \A n \in part : n \in dom
    BY <1>5
  <2>2. first = {f[n] : n \in part} /\ g = [n \in part |-> f[n]]
    OBVIOUS
  <2> HIDE DEF part, dom, first, g
  <2>3. g \in [part -> first]
    BY <2>2
  <2>4. \A n, m \in part : g[n] = g[m] => n = m
    BY <1>4, <2>1, <2>2
  <2>5. \A t \in first : \E n \in part : g[n] = t
    BY <2>2
  <2>6. g \in Injection(part, first) /\ g \in Surjection(part, first)
    BY <2>3, <2>4, <2>5 DEF Injection, IsInjective, Surjection
  <2> QED BY <2>6 DEF Bijection, part
<1>8. ExistsBijection(1 .. PoolSize, first)
  BY <1>7 DEF ExistsBijection
<1>9. Cardinality(first) = PoolSize
  <2> HIDE DEF first
  <2> QED BY <1>1, <1>8, FS_CountingElements
<1> QED BY <1>6, <1>9

LEMMA PoolInitHolds == PoolInit => PoolInv
<1> SUFFICES ASSUME PoolInit PROVE PoolInv
  OBVIOUS
<1>1. pool \in SUBSET Workers /\ Cardinality(pool) = PoolSize
  BY FirstWorkers DEF PoolInit
<1>2. IsFiniteSet(pool)
  BY <1>1, PoolBounds, FS_Subset
<1>3. \A j \in BtJobs : bt[j] = NoBacktest
  BY DEF PoolInit
<1>4. NoBacktest \in BacktestRec /\ NoBacktest.at = NoWorker /\ NoBacktest.phase = "idle" /\ NoBacktest.got = "none"
  BY DEF NoBacktest, BacktestRec
<1>5. /\ \A w \in Workers : /\ worker[w] \in WorkerRec /\ ~worker[w].overflow
                            /\ worker[w].inbox = <<>> /\ worker[w].pipe = <<>>
      /\ worker \in [Workers -> WorkerRec]
  BY WorkerShapes DEF PoolInit
<1>6. NoWorker \notin Workers
  BY PoolBounds DEF NoWorker
<1>7. PoolTypeOK
  <2>1. bt \in [BtJobs -> BacktestRec] /\ lostSlots \in Nat
    BY <1>4 DEF PoolInit
  <2> QED BY <1>1, <1>5, <2>1 DEF PoolTypeOK
<1>8. SeatsOK
  BY <1>1, <1>3, <1>4, <1>5, <1>6 DEF SeatsOK
<1>9. PipesHold
  BY <1>3, <1>4, <1>5, <1>6 DEF PipesHold, Quiet, Working
<1>10. Seated = {}
  BY <1>3, <1>4 DEF Seated
<1>11. PoolCounts
  <2>1. lostSlots = 0 /\ PoolSize \in Nat
    BY PoolBounds DEF PoolInit
  <2> QED BY <1>1, <1>2, <1>10, <2>1, FS_EmptySet DEF PoolCounts
<1>12. ResultsAreOwn
  BY <1>3, <1>4 DEF ResultsAreOwn
<1> QED BY <1>7, <1>8, <1>9, <1>11, <1>12 DEF PoolInv

LEMMA PoolStutters == PoolInv /\ UNCHANGED poolVars => PoolInv'
<1> SUFFICES ASSUME PoolInv, UNCHANGED poolVars PROVE PoolInv'
  OBVIOUS
<1>1. bt' = bt /\ worker' = worker /\ pool' = pool /\ lostSlots' = lostSlots
  BY DEF poolVars
<1> QED
  BY <1>1 DEF PoolInv, PoolTypeOK, SeatsOK, PipesHold, Quiet, Working, PoolCounts, Seated, ResultsAreOwn

LEMMA PoolInvHolds == PoolInit /\ [][PoolNext]_poolVars => []PoolInv
<1>1. PoolInv /\ [PoolNext]_poolVars => PoolInv'
  <2> SUFFICES ASSUME PoolInv, [PoolNext]_poolVars PROVE PoolInv'
    OBVIOUS
  <2>1. ASSUME NEW j \in BtJobs, TriggerBacktest(j) \/ ThreadStep(j) PROVE PoolInv'
    BY <2>1, UnseatedStepsKeep, CheckoutKeeps, SendJobKeeps, ReadLineKeeps, ReadTimeoutKeeps DEF ThreadStep
  <2>2. ASSUME NEW w \in Workers, WorkerAnswers(w) \/ WorkerDies(w) PROVE PoolInv'
    BY <2>2, WorkerStepsKeep
  <2> QED BY <2>1, <2>2, PoolStutters DEF PoolNext
<1> QED BY <1>1, PoolInitHolds, PTL

(* No backtest stores the result of another one, unless a strategy that prints ran in the
   same worker, and idle and busy pooled workers always add up to the pool's size less the
   slots that could not be filled again, over crashes, timeouts and late lines
   (_checkout, _checkin, execute). *)
THEOREM PoolIsSafe == PoolSpec => []PoolHolds
<1>1. PoolInv => PoolHolds
  BY DEF PoolInv, PoolHolds, PoolCounts, Seated, PoolKeepsItsSize
<1> QED BY <1>1, PoolInvHolds, PTL DEF PoolSpec

-----------------------------------------------------------------------------
(* SandboxPool: every job comes to an end *)

(* Where a thread can go from each phase: never back. *)
Later ==
  [start |-> {"send", "oneshot", "ended"}, send |-> {"read", "oneshot", "ended"},
   read |-> {"oneshot", "persist", "ended"}, oneshot |-> {"persist", "ended"},
   persist |-> {"simulate", "ended"}, simulate |-> {"ended"}]

JobDone(j) == bt[j].status # "Running" \/ bt[j].raised
JobIn(j, p) == bt[j].phase = p

(* A job that is Running has a thread in one of the phases, unless the thread raised. *)
JobsAttended == \A j \in BtJobs : JobDone(j) \/ bt[j].phase \in DOMAIN Later

LEMMA CheckinMoves ==
    ASSUME PoolTypeOK, NEW j \in BtJobs, NEW w, NEW rec, NEW healthy, NEW outcome \in BacktestRec,
           Checkin(w, rec, healthy, j, outcome)
    PROVE  bt'[j] = outcome \/ bt'[j].phase = "oneshot"
<1>1. bt \in [BtJobs -> BacktestRec] /\ bt[j] \in BacktestRec
  BY DEF PoolTypeOK
<1>2. CASE bt' = [bt EXCEPT ![j] = outcome]
  BY <1>1, <1>2
<1>3. CASE bt' = [bt EXCEPT ![j].phase = "oneshot", ![j].at = NoWorker]
  BY <1>1, <1>3 DEF BacktestRec
<1> QED BY <1>2, <1>3 DEF Checkin

(* A thread's step takes it to a later phase, and to the end only with an outcome or raising. *)
LEMMA ThreadAdvances ==
    ASSUME PoolTypeOK, NEW j \in BtJobs, ThreadStep(j)
    PROVE  /\ bt[j].phase \in DOMAIN Later /\ bt'[j].phase \in Later[bt[j].phase]
           /\ bt'[j].phase = "ended" => JobDone(j)'
<1> DEFINE Goal == /\ bt[j].phase \in DOMAIN Later /\ bt'[j].phase \in Later[bt[j].phase]
                   /\ bt'[j].phase = "ended" => JobDone(j)'
<1>1. bt \in [BtJobs -> BacktestRec] /\ bt[j] \in BacktestRec
  BY DEF PoolTypeOK
<1>2. \A s \in {"Failed", "Completed"} : /\ Settled(j, s) \in BacktestRec /\ Settled(j, s).phase = "ended"
                                         /\ Settled(j, s).status # "Running"
  BY <1>1 DEF Settled, BacktestRec
<1>3. ASSUME NEW s \in {"Failed", "Completed"}, bt'[j] = Settled(j, s), bt[j].phase \in DOMAIN Later PROVE Goal
  BY <1>2, <1>3 DEF Later, JobDone
<1>4. ASSUME NEW s \in {"Failed", "Completed"}, bt' = [bt EXCEPT ![j] = Settled(j, s)], bt[j].phase \in DOMAIN Later
      PROVE  Goal
  <2>1. bt'[j] = Settled(j, s)
    BY <1>1, <1>4
  <2> QED BY <1>3, <1>4, <2>1
<1>5. CASE NoData(j) \/ Simulate(j)
  BY <1>4, <1>5 DEF NoData, Simulate, Later
<1>6. CASE ThreadRaises(j)
  <2>1. bt'[j].phase = "ended" /\ bt'[j].raised
    BY <1>1, <1>6 DEF ThreadRaises, BacktestRec
  <2> QED BY <1>6, <2>1 DEF ThreadRaises, Later, JobDone
<1>7. CASE Checkout(j)
  <2>1. ASSUME NEW w, bt' = [bt EXCEPT ![j].phase = "send", ![j].at = w] PROVE bt'[j].phase = "send"
    <3>1. bt' = [bt EXCEPT ![j] = [bt[j] EXCEPT !.phase = "send", !.at = w]]
      BY <1>1, <2>1
    <3>2. [bt[j] EXCEPT !.phase = "send", !.at = w].phase = "send"
      BY <1>1 DEF BacktestRec
    <3> QED BY <1>1, <3>1, <3>2
  <2>2. ASSUME bt' = [bt EXCEPT ![j].phase = "oneshot"] PROVE bt'[j].phase = "oneshot"
    BY <1>1, <2>2 DEF BacktestRec
  <2>3. bt'[j].phase \in {"send", "oneshot"}
    BY <1>7, <2>1, <2>2 DEF Checkout
  <2> QED BY <1>7, <2>3 DEF Checkout, Later
<1>8. CASE SendJob(j)
  <2>1. CASE worker[bt[j].at].alive
    <3>1. bt'[j].phase = "read"
      BY <1>1, <1>8, <2>1 DEF SendJob, BacktestRec
    <3> QED BY <1>8, <3>1 DEF SendJob, Later
  <2>2. CASE ~worker[bt[j].at].alive
    <3>1. bt'[j] = Settled(j, "Failed") \/ bt'[j].phase = "oneshot"
      BY <1>2, <1>8, <2>2, CheckinMoves DEF SendJob
    <3>2. bt[j].phase = "send"
      BY <1>8 DEF SendJob
    <3> QED BY <1>3, <3>1, <3>2 DEF Later
  <2> QED BY <2>1, <2>2
<1>9. CASE ReadTimeout(j)
  <2>1. bt'[j] = Settled(j, "Failed") \/ bt'[j].phase = "oneshot"
    BY <1>2, <1>9, CheckinMoves DEF ReadTimeout
  <2>2. bt[j].phase = "read"
    BY <1>9 DEF ReadTimeout
  <2> QED BY <1>3, <2>1, <2>2 DEF Later
<1>10. CASE ReadLine(j)
  <2> DEFINE w == bt[j].at
             lines == worker[w].pipe
             reply == [bt[j] EXCEPT !.phase = "persist", !.at = NoWorker, !.got = Head(lines),
                                    !.tainted = worker[w].noised]
  <2>1. reply.phase = "persist"
    BY <1>1 DEF BacktestRec
  <2>2. bt[j].phase = "read"
    BY <1>10 DEF ReadLine
  <2>3. PICK k \in 1 .. Len(lines), outcome \in {Settled(j, "Failed"), reply} :
          Checkin(w, [worker[w] EXCEPT !.pipe = SubSeq(lines, k + 1, Len(lines)), !.done = @ + 1], TRUE, j, outcome)
    BY <1>10 DEF ReadLine
  <2>4. bt'[j] = outcome \/ bt'[j].phase = "oneshot"
    <3>1. CASE bt' = [bt EXCEPT ![j] = outcome]
      BY <1>1, <3>1
    <3>2. CASE bt' = [bt EXCEPT ![j].phase = "oneshot", ![j].at = NoWorker]
      BY <1>1, <3>2 DEF BacktestRec
    <3> QED BY <2>3, <3>1, <3>2 DEF Checkin
  <2> HIDE DEF reply
  <2> QED BY <1>3, <2>1, <2>2, <2>4 DEF Later
<1>11. CASE OneShot(j)
  <2>1. CASE bt' = [bt EXCEPT ![j] = Settled(j, "Failed")]
    BY <1>4, <1>11, <2>1 DEF OneShot, Later
  <2>2. CASE bt' = [bt EXCEPT ![j].phase = "persist", ![j].got = j]
    <3>1. bt'[j].phase = "persist"
      BY <1>1, <2>2 DEF BacktestRec
    <3> QED BY <1>11, <3>1 DEF OneShot, Later
  <2> QED BY <1>11, <2>1, <2>2 DEF OneShot
<1>12. CASE PersistResult(j)
  <2>1. bt'[j].phase = "simulate"
    BY <1>1, <1>12 DEF PersistResult, BacktestRec
  <2> QED BY <1>12, <2>1 DEF PersistResult, Later
<1> QED BY <1>5, <1>6, <1>7, <1>8, <1>9, <1>10, <1>11, <1>12 DEF ThreadStep

(* Nobody else moves a job once it is triggered. *)
LEMMA OthersLeaveJob ==
    ASSUME PoolTypeOK, NEW j \in BtJobs, [PoolNext]_poolVars
    PROVE  \/ ThreadStep(j) \/ bt'[j] = bt[j]
           \/ bt[j].phase = "idle" /\ bt'[j].phase = "start"
<1>1. bt \in [BtJobs -> BacktestRec] /\ bt[j] \in BacktestRec
  BY DEF PoolTypeOK
<1>2. ASSUME NEW i \in BtJobs, TriggerBacktest(i)
      PROVE  bt'[j] = bt[j] \/ (bt[j].phase = "idle" /\ bt'[j].phase = "start")
  <2>1. CASE i = j
    BY <1>1, <1>2, <2>1 DEF TriggerBacktest, BacktestRec
  <2>2. CASE i # j
    <3>1. bt' = [bt EXCEPT ![i] = [bt[i] EXCEPT !.phase = "start", !.status = "Running"]]
      BY <1>1, <1>2 DEF TriggerBacktest
    <3> QED BY <1>1, <2>2, <3>1
  <2> QED BY <2>1, <2>2
<1>3. ASSUME NEW i \in BtJobs, i # j, ThreadStep(i) PROVE bt'[j] = bt[j]
  <2>1. ASSUME NEW x, bt' = [bt EXCEPT ![i] = x] PROVE bt'[j] = bt[j]
    BY <1>1, <1>3, <2>1
  <2>2. ASSUME NEW w, NEW rec, NEW healthy, NEW outcome, Checkin(w, rec, healthy, i, outcome) PROVE bt'[j] = bt[j]
    BY <1>1, <1>3, <2>2 DEF Checkin
  <2>3. CASE SendJob(i)
    BY <1>1, <1>3, <2>2, <2>3 DEF SendJob
  <2>4. CASE ReadLine(i) \/ ReadTimeout(i)
    BY <2>2, <2>4 DEF ReadLine, ReadTimeout
  <2>5. CASE Checkout(i)
    BY <1>1, <1>3, <2>5 DEF Checkout
  <2>6. CASE NoData(i) \/ ThreadRaises(i) \/ OneShot(i) \/ PersistResult(i) \/ Simulate(i)
    BY <1>1, <1>3, <2>6 DEF NoData, ThreadRaises, OneShot, PersistResult, Simulate
  <2> QED BY <1>3, <2>3, <2>4, <2>5, <2>6 DEF ThreadStep
<1> QED BY <1>2, <1>3 DEF PoolNext, WorkerAnswers, WorkerDies, poolVars

LEMMA JobsStayAttended == PoolInit /\ [][PoolNext]_poolVars => [](PoolTypeOK /\ JobsAttended)
<1>1. PoolInit => JobsAttended
  BY DEF PoolInit, NoBacktest, JobsAttended, JobDone
<1>2. PoolTypeOK /\ JobsAttended /\ [PoolNext]_poolVars => JobsAttended'
  <2> SUFFICES ASSUME PoolTypeOK, JobsAttended, [PoolNext]_poolVars, NEW j \in BtJobs
               PROVE  JobDone(j)' \/ bt'[j].phase \in DOMAIN Later
    BY DEF JobsAttended
  <2>1. CASE bt'[j] = bt[j] \/ bt'[j].phase = "start"
    BY <2>1 DEF JobsAttended, JobDone, Later
  <2>2. CASE ThreadStep(j)
    <3>1. bt'[j].phase \in {"send", "read", "oneshot", "persist", "simulate", "ended"}
      BY <2>2, ThreadAdvances DEF Later
    <3> QED BY <2>2, <3>1, ThreadAdvances DEF Later
  <2> QED BY <2>1, <2>2, OthersLeaveJob
<1>3. PoolInv => PoolTypeOK
  BY DEF PoolInv
<1> QED BY <1>1, <1>2, <1>3, PoolInvHolds, PTL

(* What the provers cannot derive of weak fairness: that a thread in one of its phases can take
   a step, which the guards of the steps say (a read that gets no line can time out). *)
JobCanMove(j) == [](bt[j].phase \in DOMAIN Later => ENABLED <<ThreadStep(j)>>_poolVars)
JobsCanMove == \A j \in BtJobs : JobCanMove(j)

LEMMA OneJobEnds ==
    ASSUME NEW j \in BtJobs
    PROVE  PoolInit /\ [][PoolNext]_poolVars /\ JobFairness(j) /\ JobCanMove(j)
             => (bt[j].status = "Running" ~> JobDone(j))
<1> DEFINE Inv == PoolTypeOK /\ JobsAttended
           Done == JobDone(j)
           Busy == bt[j].phase \in DOMAIN Later
           Start == JobIn(j, "start")
           Send == JobIn(j, "send")
           Read == JobIn(j, "read")
           Shot == JobIn(j, "oneshot")
           Persist == JobIn(j, "persist")
           Simul == JobIn(j, "simulate")
<1>1. Inv => Done \/ Start \/ Send \/ Read \/ Shot \/ Persist \/ Simul
  BY DEF JobsAttended, Later, JobIn
<1>2. Start \/ Send \/ Read \/ Shot \/ Persist \/ Simul => Busy
  BY DEF Later, JobIn
<1>3. Inv /\ Busy /\ [PoolNext]_poolVars =>
        ThreadStep(j) \/ (/\ Start => Start'
                          /\ Send => Send'
                          /\ Read => Read'
                          /\ Shot => Shot'
                          /\ Persist => Persist'
                          /\ Simul => Simul')
  BY OthersLeaveJob DEF JobIn, Later
<1>4. Inv /\ ThreadStep(j) =>
        /\ Start => Send' \/ Shot' \/ Done'
        /\ Send => Read' \/ Shot' \/ Done'
        /\ Read => Shot' \/ Persist' \/ Done'
        /\ Shot => Persist' \/ Done'
        /\ Persist => Simul' \/ Done'
        /\ Simul => Done'
  BY ThreadAdvances DEF JobIn, Later
<1> HIDE DEF Inv, Done, Busy, Start, Send, Read, Shot, Persist, Simul
<1>5. ASSUME TRUE
      PROVE  PoolInit /\ [][PoolNext]_poolVars => []Inv
  BY JobsStayAttended DEF Inv
<1>6. JobCanMove(j) => [](Busy => ENABLED <<ThreadStep(j)>>_poolVars)
  BY DEF JobCanMove, Busy
<1>7. PoolInit /\ [][PoolNext]_poolVars /\ JobFairness(j) /\ JobCanMove(j) => []<>Done
  BY <1>1, <1>2, <1>3, <1>4, <1>5, <1>6, PTL DEF JobFairness
<1>8. PoolInit /\ [][PoolNext]_poolVars /\ JobFairness(j) /\ JobCanMove(j) => (bt[j].status = "Running" ~> Done)
  BY <1>7, PTL
<1> QED BY <1>8 DEF Done

(* Every backtest job stops being Running unless its thread raised, for any number of jobs and
   workers, although nothing is assumed of the workers: weak fairness of the job's own thread
   suffices, if a thread under way can always go on (execute, _read_line's deadline). *)
THEOREM BacktestsComeToAnEnd == PoolSpec /\ JobsCanMove => BacktestsEnd
<1> SUFFICES ASSUME NEW j \in BtJobs
             PROVE  PoolSpec /\ JobsCanMove => (bt[j].status = "Running" ~> JobDone(j))
  BY DEF BacktestsEnd, JobDone
<1>1. PoolFairness => JobFairness(j)
  BY DEF PoolFairness
<1>2. JobsCanMove => JobCanMove(j)
  BY DEF JobsCanMove
<1> QED BY <1>1, <1>2, OneJobEnds, PTL DEF PoolSpec

-----------------------------------------------------------------------------
(* JobScheduler: the row of a schedule and the job in memory *)

PutRec == [phase : {"idle", "live"}, cron : BOOLEAN, enabled : {"keep", "on", "off"}]

SchedulerTypeOK ==
  /\ config \in {"none", "on", "off"} /\ liveJob \in {"active", "paused", "down"}
  /\ put \in [Puts -> PutRec]

(* What a PUT under way will make of the job is what the row it has committed says. *)
PutsAgree ==
  ~elsewhere /\ ~recronned =>
    /\ \A w \in Puts : put[w].phase = "live" =>
         /\ put[w].enabled # "keep" => config = put[w].enabled
         /\ put[w].enabled = "keep" => put[w].cron /\ EffectivelyEnabled
    /\ PutsSettled => (liveJob = "active") = EffectivelyEnabled

SchedulerInv ==
  /\ SchedulerTypeOK /\ PutsAgree
  /\ ~elsewhere => \A w, o \in Puts : put[w].phase = "live" /\ put[o].phase = "live" => w = o
  /\ liveJob = "down" => \A w \in Puts : put[w].phase = "idle"

-----------------------------------------------------------------------------
LEMMA CommitKeeps ==
    ASSUME SchedulerInv, NEW w \in Puts, NEW cron \in BOOLEAN, NEW enabled \in {"keep", "on", "off"},
           NEW sibling \in BOOLEAN, CommitConfig(w, cron, enabled, sibling)
    PROVE  SchedulerInv'
<1> USE DEF SchedulerInv
<1> DEFINE x == [phase |-> "live", cron |-> cron, enabled |-> enabled]
<1>1. x \in PutRec /\ x.phase = "live" /\ x.cron = cron /\ x.enabled = enabled
  BY DEF PutRec
<1>2. /\ put[w].phase = "idle" /\ (cron \/ enabled # "keep") /\ (sibling \/ liveJob # "down")
      /\ config' = IF enabled # "keep" THEN enabled ELSE IF config = "none" THEN "on" ELSE config
      /\ put' = IF sibling THEN put ELSE [put EXCEPT ![w] = x]
      /\ (~recronned' => ~recronned /\ ~(cron /\ enabled = "keep" /\ ~EffectivelyEnabled))
      /\ (~elsewhere' => ~elsewhere /\ ~sibling /\ \A o \in Puts : put[o].phase # "live")
      /\ liveJob' = liveJob
  BY DEF CommitConfig
<1> HIDE DEF x
<1>3. SchedulerTypeOK'
  BY <1>1, <1>2 DEF SchedulerTypeOK
<1>4. ASSUME ~elsewhere'
      PROVE  /\ put'[w] = x /\ liveJob # "down" /\ ~elsewhere
             /\ \A o \in Puts \ {w} : put'[o] = put[o] /\ put'[o].phase # "live"
  BY <1>2, <1>4 DEF SchedulerTypeOK
<1>5. PutsAgree'
  <2> SUFFICES ASSUME ~elsewhere', ~recronned'
               PROVE  /\ \A o \in Puts : put'[o].phase = "live" =>
                           /\ put'[o].enabled # "keep" => config' = put'[o].enabled
                           /\ put'[o].enabled = "keep" => put'[o].cron /\ EffectivelyEnabled'
                      /\ ~PutsSettled'
    BY DEF PutsAgree
  <2>1. enabled = "keep" => cron /\ EffectivelyEnabled'
    BY <1>2 DEF EffectivelyEnabled
  <2>2. enabled # "keep" => config' = enabled
    BY <1>2
  <2> QED BY <1>1, <1>4, <2>1, <2>2 DEF PutsSettled
<1>6. ~elsewhere' => \A v, o \in Puts : put'[v].phase = "live" /\ put'[o].phase = "live" => v = o
  BY <1>4
<1>7. liveJob' = "down" => \A o \in Puts : put'[o].phase = "idle"
  BY <1>2
<1> QED BY <1>3, <1>5, <1>6, <1>7

LEMMA ApplyKeeps ==
    ASSUME SchedulerInv, NEW w \in Puts, ApplyScheduleChange(w)
    PROVE  SchedulerInv'
<1> USE DEF SchedulerInv
<1>1. NoPut \in PutRec /\ NoPut.phase = "idle"
  BY DEF NoPut, PutRec
<1>2. /\ put[w].phase = "live" /\ put' = [put EXCEPT ![w] = NoPut] /\ UNCHANGED <<config, elsewhere, recronned>>
      /\ put[w].enabled = "on" => liveJob' = "active"
      /\ put[w].enabled = "off" => liveJob' = "paused"
      /\ put[w].enabled = "keep" => liveJob' = IF put[w].cron THEN "active" ELSE liveJob
  BY DEF ApplyScheduleChange
<1>3. liveJob # "down" /\ put[w] \in PutRec
  BY <1>2 DEF SchedulerTypeOK
<1>4. put[w].enabled \in {"keep", "on", "off"}
  BY <1>3 DEF PutRec
<1>5. SchedulerTypeOK' /\ liveJob' # "down"
  BY <1>1, <1>2, <1>3, <1>4 DEF SchedulerTypeOK
<1>6. \A o \in Puts \ {w} : put'[o] = put[o]
  BY <1>2 DEF SchedulerTypeOK
<1>7. put'[w].phase = "idle"
  BY <1>1, <1>2 DEF SchedulerTypeOK
<1>8. PutsAgree'
  <2> SUFFICES ASSUME ~elsewhere, ~recronned
               PROVE  /\ \A o \in Puts : put'[o].phase # "live"
                      /\ (liveJob' = "active") = EffectivelyEnabled'
    BY <1>2 DEF PutsAgree
  <2>1. \A o \in Puts : put'[o].phase # "live"
    BY <1>2, <1>6, <1>7
  <2>2. (liveJob' = "active") = EffectivelyEnabled'
    BY <1>2, <1>4 DEF PutsAgree, EffectivelyEnabled
  <2> QED BY <2>1, <2>2
<1>9. ~elsewhere' => \A v, o \in Puts : put'[v].phase = "live" /\ put'[o].phase = "live" => v = o
  BY <1>2, <1>6, <1>7
<1> QED BY <1>5, <1>8, <1>9

LEMMA SchedulerQuiet ==
    ASSUME SchedulerInv, UNCHANGED <<config, liveJob, put, recronned, elsewhere>>
    PROVE  SchedulerInv'
BY DEF SchedulerInv, SchedulerTypeOK, PutsAgree, PutsSettled, EffectivelyEnabled

LEMMA RestartKeeps ==
    ASSUME SchedulerInv, SchedulerDies \/ BuildScheduler
    PROVE  SchedulerInv'
<1> USE DEF SchedulerInv
<1>1. NoPut \in PutRec /\ NoPut.phase = "idle"
  BY DEF NoPut, PutRec
<1>2. CASE SchedulerDies
  <2>1. /\ liveJob' = "down" /\ UNCHANGED <<config, elsewhere, recronned>>
        /\ put' \in [Puts -> PutRec] /\ \A w \in Puts : put'[w].phase = "idle"
    BY <1>1, <1>2 DEF SchedulerDies
  <2>2. SchedulerTypeOK'
    BY <2>1 DEF SchedulerTypeOK
  <2>3. ~PutsSettled' /\ \A w \in Puts : put'[w].phase # "live"
    BY <2>1 DEF PutsSettled
  <2>4. PutsAgree'
    BY <2>3 DEF PutsAgree
  <2> QED BY <2>1, <2>2, <2>3, <2>4
<1>3. CASE BuildScheduler
  <2>1. /\ liveJob = "down" /\ UNCHANGED <<config, put>>
        /\ liveJob' = IF EffectivelyEnabled THEN "active" ELSE "paused"
    BY <1>3 DEF BuildScheduler, BuiltJob
  <2>2. \A w \in Puts : put'[w].phase = "idle"
    BY <2>1
  <2>3. EffectivelyEnabled' <=> EffectivelyEnabled
    BY <2>1 DEF EffectivelyEnabled
  <2>4. liveJob' \in {"active", "paused"} /\ ((liveJob' = "active") = EffectivelyEnabled')
    <3>1. CASE config # "off"
      BY <2>1, <3>1 DEF EffectivelyEnabled
    <3>2. CASE config = "off"
      BY <2>1, <3>2 DEF EffectivelyEnabled
    <3> QED BY <3>1, <3>2
  <2>5. SchedulerTypeOK'
    BY <2>1, <2>4 DEF SchedulerTypeOK
  <2>6. PutsAgree'
    BY <2>2, <2>4 DEF PutsAgree
  <2> QED BY <2>2, <2>5, <2>6
<1> QED BY <1>2, <1>3

(* When no request is under way the running scheduler's job is paused or active as the
   stored row says, unless another process or a new cron expression intervened
   (update_scheduled_job, apply_schedule_change, build_scheduler). *)
THEOREM ScheduleFollowsConfig == SchedulerSpec => []LiveFollowsConfig
<1>1. SchedulerInit => SchedulerInv
  <2> SUFFICES ASSUME SchedulerInit PROVE SchedulerInv
    OBVIOUS
  <2>1. NoPut \in PutRec /\ NoPut.phase = "idle"
    BY DEF NoPut, PutRec
  <2>2. put \in [Puts -> PutRec] /\ \A w \in Puts : put[w].phase = "idle"
    BY <2>1 DEF SchedulerInit
  <2> QED BY <2>2 DEF SchedulerInit, SchedulerInv, SchedulerTypeOK, PutsAgree, PutsSettled, EffectivelyEnabled
<1>2. SchedulerInv /\ [SchedulerNext]_schedulerVars => SchedulerInv'
  <2> SUFFICES ASSUME SchedulerInv, [SchedulerNext]_schedulerVars PROVE SchedulerInv'
    OBVIOUS
  <2>1. CASE \E w \in Puts, cron \in BOOLEAN, enabled \in {"keep", "on", "off"}, sibling \in BOOLEAN :
               CommitConfig(w, cron, enabled, sibling)
    BY <2>1, CommitKeeps
  <2>2. CASE \E w \in Puts : ApplyScheduleChange(w)
    BY <2>2, ApplyKeeps
  <2>3. CASE CronFires \/ DispatchManualRun \/ SetSchedulerAgent
             \/ \E r \in DOMAIN jobRuns : Tracked(r) \/ TrackedRaises(r)
    BY <2>3, SchedulerQuiet DEF CronFires, DispatchManualRun, SetSchedulerAgent, Tracked, TrackedRaises
  <2>4. CASE SchedulerDies \/ BuildScheduler
    BY <2>4, RestartKeeps
  <2>5. CASE UNCHANGED schedulerVars
    BY <2>5, SchedulerQuiet DEF schedulerVars
  <2> QED BY <2>1, <2>2, <2>3, <2>4, <2>5 DEF SchedulerNext, RunStep
<1>3. SchedulerInv => LiveFollowsConfig
  BY DEF SchedulerInv, PutsAgree, LiveFollowsConfig
<1> QED BY <1>1, <1>2, <1>3, PTL DEF SchedulerSpec

-----------------------------------------------------------------------------
(* JobScheduler: runs that were started are closed *)

JobRunRec == [source : {"cron", "manual"}, status : {"Running", "Completed", "Failed", "Skipped"}, thread : BOOLEAN]

(* A run that is not closed has its thread, or the process died under it. *)
RunsAttended ==
  /\ jobRuns \in Seq(JobRunRec)
  /\ \A r \in DOMAIN jobRuns : jobRuns[r].status = "Running" => jobRuns[r].thread \/ restarted

LEMMA RunsStayAttended == SchedulerInit /\ [][SchedulerNext]_schedulerVars => []RunsAttended
<1>1. SchedulerInit => RunsAttended
  BY DEF SchedulerInit, RunsAttended
<1>2. RunsAttended /\ [SchedulerNext]_schedulerVars => RunsAttended'
  <2> SUFFICES ASSUME RunsAttended, [SchedulerNext]_schedulerVars PROVE RunsAttended'
    OBVIOUS
  <2>1. ASSUME jobRuns' = jobRuns, restarted' = restarted PROVE RunsAttended'
    BY <2>1 DEF RunsAttended
  <2>2. ASSUME NEW s \in {"cron", "manual"}, StartRun(s), restarted' = restarted PROVE RunsAttended'
    <3> DEFINE new == [source |-> s, status |-> "Running", thread |-> TRUE]
    <3>1. jobRuns' = Append(jobRuns, new)
      BY <2>2 DEF StartRun
    <3>2. new \in JobRunRec
      BY DEF JobRunRec
    <3>3. new.thread
      OBVIOUS
    <3> HIDE DEF new
    <3>4. jobRuns' \in Seq(JobRunRec) /\ DOMAIN jobRuns' = 1 .. Len(jobRuns) + 1
      BY <3>1, <3>2 DEF RunsAttended
    <3>5. \A r \in DOMAIN jobRuns' : (r \in DOMAIN jobRuns /\ jobRuns'[r] = jobRuns[r]) \/ jobRuns'[r] = new
      BY <3>1, <3>2, <3>4 DEF RunsAttended
    <3> QED BY <2>2, <3>3, <3>4, <3>5 DEF RunsAttended
  <2>3. ASSUME NEW r \in DOMAIN jobRuns, NEW s \in {"Completed", "Failed", "Skipped"}, FinishRun(r, s),
               restarted' = restarted
        PROVE  RunsAttended'
    <3>1. jobRuns' = [jobRuns EXCEPT ![r].status = s, ![r].thread = FALSE]
      BY <2>3 DEF FinishRun
    <3>2. jobRuns[r] \in JobRunRec
      BY DEF RunsAttended
    <3>3. [jobRuns[r] EXCEPT !.status = s, !.thread = FALSE] \in JobRunRec
      BY <3>2 DEF JobRunRec
    <3>4. jobRuns' = [jobRuns EXCEPT ![r] = [jobRuns[r] EXCEPT !.status = s, !.thread = FALSE]]
      BY <3>1
    <3>5. jobRuns' \in Seq(JobRunRec) /\ DOMAIN jobRuns' = DOMAIN jobRuns
      BY <3>3, <3>4 DEF RunsAttended
    <3>6. \A q \in DOMAIN jobRuns : q # r => jobRuns'[q] = jobRuns[q]
      BY <3>4 DEF RunsAttended
    <3>7. jobRuns'[r].status = s
      BY <3>2, <3>4 DEF RunsAttended, JobRunRec
    <3> QED BY <2>3, <3>5, <3>6, <3>7 DEF RunsAttended
  <2>4. CASE SchedulerDies
    <3>1. jobRuns' = [r \in DOMAIN jobRuns |-> [jobRuns[r] EXCEPT !.thread = FALSE]] /\ restarted'
      BY <2>4 DEF SchedulerDies
    <3>2. ASSUME NEW r \in DOMAIN jobRuns PROVE [jobRuns[r] EXCEPT !.thread = FALSE] \in JobRunRec
      <4>1. jobRuns[r] \in JobRunRec
        BY DEF RunsAttended
      <4> QED BY <4>1 DEF JobRunRec
    <3>3. jobRuns' \in Seq(JobRunRec)
      BY <3>1, <3>2 DEF RunsAttended
    <3> QED BY <3>1, <3>3 DEF RunsAttended
  <2>5. CASE CronFires
    BY <2>2, <2>5 DEF CronFires
  <2>6. CASE DispatchManualRun
    BY <2>2, <2>6 DEF DispatchManualRun
  <2>7. ASSUME NEW r \in DOMAIN jobRuns, RunStep(r) PROVE RunsAttended'
    BY <2>3, <2>7 DEF RunStep, Tracked, TrackedRaises
  <2> QED BY <2>1, <2>4, <2>5, <2>6, <2>7
       DEF SchedulerNext, CommitConfig, ApplyScheduleChange, SetSchedulerAgent, BuildScheduler, schedulerVars
<1> QED BY <1>1, <1>2, PTL

RunThread(r) == r \in DOMAIN jobRuns /\ jobRuns[r].thread
RunClosed(r) == restarted \/ (r \in DOMAIN jobRuns /\ jobRuns[r].status # "Running")

(* What the provers cannot derive of weak fairness: that a run with a thread can be closed, which
   the guards of Tracked say. *)
RunCanEnd(r) == [](RunThread(r) => ENABLED <<RunStep(r)>>_schedulerVars)
RunsCanEnd == \A r \in 1 .. MaxRuns : RunCanEnd(r)

LEMMA OneRunEnds ==
    ASSUME NEW r \in 1 .. MaxRuns
    PROVE  SchedulerInit /\ [][SchedulerNext]_schedulerVars /\ RunFairness(r) /\ RunCanEnd(r)
             => (r \in DOMAIN jobRuns ~> RunClosed(r))
<1> DEFINE In == r \in DOMAIN jobRuns
<1>1. RunsAttended /\ In => RunThread(r) \/ RunClosed(r)
  BY DEF RunsAttended, RunThread, RunClosed
<1>2. RunsAttended /\ In /\ [SchedulerNext]_schedulerVars => In'
  <2> SUFFICES ASSUME RunsAttended, In, [SchedulerNext]_schedulerVars PROVE DOMAIN jobRuns \subseteq DOMAIN jobRuns'
    OBVIOUS
  <2>1. ASSUME NEW s, StartRun(s) PROVE DOMAIN jobRuns \subseteq DOMAIN jobRuns'
    BY <2>1 DEF StartRun, RunsAttended
  <2>2. ASSUME NEW q \in DOMAIN jobRuns, RunStep(q) PROVE DOMAIN jobRuns' = DOMAIN jobRuns
    BY <2>2 DEF RunStep, Tracked, TrackedRaises, FinishRun
  <2> QED BY <2>1, <2>2
       DEF SchedulerNext, CommitConfig, ApplyScheduleChange, CronFires, DispatchManualRun, SetSchedulerAgent,
           SchedulerDies, BuildScheduler, schedulerVars
<1>3. RunsAttended /\ In /\ <<RunStep(r)>>_schedulerVars => RunClosed(r)'
  <2> SUFFICES ASSUME RunsAttended, In, RunStep(r) PROVE RunClosed(r)'
    OBVIOUS
  <2>1. PICK s \in {"Completed", "Failed", "Skipped"} : FinishRun(r, s)
    BY DEF RunStep, Tracked, TrackedRaises
  <2>2. jobRuns[r] \in JobRunRec
    BY DEF RunsAttended
  <2>3. DOMAIN jobRuns' = DOMAIN jobRuns /\ jobRuns'[r].status = s
    BY <2>1, <2>2 DEF FinishRun, JobRunRec
  <2> QED BY <2>3 DEF RunClosed
<1> HIDE DEF In
<1>4. SchedulerInit /\ [][SchedulerNext]_schedulerVars /\ RunFairness(r) /\ RunCanEnd(r) => (In ~> RunClosed(r))
  BY <1>1, <1>2, <1>3, RunsStayAttended, PTL DEF RunFairness, RunCanEnd
<1> QED BY <1>4 DEF In

(* Every run that was started is closed, for any number of runs, unless the process dies: weak
   fairness of each run's thread suffices, if a thread that is there can always end (Tracked, FinishRun). *)
THEOREM ScheduledRunsEnd == SchedulerSpec /\ RunsCanEnd => SchedulerHolds
<1>1. SchedulerSpec /\ RunsCanEnd => JobRunsEnd
  <2> SUFFICES ASSUME NEW r \in 1 .. MaxRuns
               PROVE  SchedulerSpec /\ RunsCanEnd => (r \in DOMAIN jobRuns ~> RunClosed(r))
    BY DEF JobRunsEnd, RunClosed
  <2>1. SchedulerFairness => RunFairness(r)
    BY DEF SchedulerFairness
  <2>2. RunsCanEnd => RunCanEnd(r)
    BY DEF RunsCanEnd
  <2> QED BY <2>1, <2>2, OneRunEnds, PTL DEF SchedulerSpec
<1> QED BY <1>1, ScheduleFollowsConfig, PTL DEF SchedulerHolds

=============================================================================
