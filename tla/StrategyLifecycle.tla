-------------------------- MODULE StrategyLifecycle --------------------------
(* One strategy after it has been found: approval requests and the humans who
   decide them, the promotion endpoint, and suggestions whose
   review re-enters the agent pipeline and writes new versions of the same
   strategy.  Everything here runs in threads and requests of one process that
   meet only in the database.

   Rows are positions in sequences; 0 stands for None.                         *)
EXTENDS Naturals, Sequences, FiniteSets

CONSTANTS
  Suggestions,   \* StrategySuggestion rows
  Jobs,          \* review threads
  Deciders,      \* approve, reject and promote requests in flight
  MaxRegenRetries,  \* MAX_CODE_VALIDATION_RETRIES
  MaxVersions,   \* bound on versions of the strategy
  MaxInFlight,   \* bound on threads and requests at work at once
  MaxRequests    \* bound on approval requests

ASSUME LifecycleBounds ==
  /\ MaxRegenRetries \in Nat \ {0} /\ MaxVersions \in Nat \ {0} /\ MaxRequests \in Nat
  /\ MaxInFlight \in Nat \ {0}

VARIABLES
  strategy,   \* status and current_version_id
  versions,   \* version_no of each version
  requests,   \* status of every ApprovalRequest, in order of created_at
  contested,  \* history: a request was decided twice, or a promotion made on rows changed since
  suggestion, \* status and resulting_version_id of each suggestion
  job,        \* the review threads
  decider,    \* deciding and promoting requests: what they have read
  stranded    \* history: suggestions whose review ended with its thread

lifecycleVars == <<strategy, versions, requests, contested, suggestion, job, decider, stranded>>

StrategyStatuses == {"Ideation", "Coding", "Backtesting", "Optimizing", "RiskReview",
                     "PendingPaperApproval", "PaperTrading", "Live", "Deprecated"}

NoJob == [phase |-> "idle", of |-> "none", verno |-> 0, ver |-> 0, retries |-> 0]
NoDecider == [phase |-> "idle", req |-> 0, verdict |-> "none", move |-> FALSE, seen |-> <<>>]

LifecycleInit ==
  /\ strategy = [status |-> "Ideation", cur |-> 0]
  /\ versions = <<>> /\ requests = <<>> /\ contested = FALSE
  /\ suggestion = [s \in Suggestions |-> [status |-> "None", ver |-> 0]]
  /\ job = [j \in Jobs |-> NoJob]
  /\ decider = [d \in Deciders |-> NoDecider]
  /\ stranded = {}

HasCapacity == Cardinality({j \in Jobs : job[j].phase # "idle"})
          + Cardinality({d \in Deciders : decider[d].phase # "idle"}) < MaxInFlight

(* The next request or thread. *)
FreeDecider(d) == d = CHOOSE f \in Deciders : decider[f].phase = "idle"
FreeJob(j) == j = CHOOSE f \in Jobs : job[f].phase = "idle"

AddVersion(no) ==
  /\ \A v \in DOMAIN versions : versions[v] # no
  /\ Len(versions) < MaxVersions
  /\ versions' = Append(versions, no)
  /\ strategy' = [status |-> "Coding", cur |-> Len(versions) + 1]

-----------------------------------------------------------------------------
(* The research graph, as this strategy sees it: it writes the first version,
   and recommends the strategy once.  Its own steps are in ResearchGraph. *)

ResearchWritesCode ==
  /\ versions = <<>>
  /\ AddVersion(1)
  /\ UNCHANGED <<requests, contested, suggestion, job, decider, stranded>>

ResearchRecommends ==
  /\ versions # <<>> /\ requests = <<>> /\ MaxRequests > 0
  /\ strategy' = [strategy EXCEPT !.status = "PendingPaperApproval"]
  /\ requests' = <<"pending">>
  /\ UNCHANGED <<versions, contested, suggestion, job, decider, stranded>>

(* A later run of the organisation may recommend it again; no second request is
   opened while one is pending. *)
RecommendedAgain ==
  /\ requests # <<>> /\ Len(requests) < MaxRequests
  /\ \A r \in DOMAIN requests : requests[r] # "pending"
  /\ strategy' = [strategy EXCEPT !.status = "PendingPaperApproval"]
  /\ requests' = Append(requests, "pending")
  /\ UNCHANGED <<versions, contested, suggestion, job, decider, stranded>>

-----------------------------------------------------------------------------
(* approve and reject: both rows are read, unlocked, and both are written in one
   commit, whatever another decision has made of the request since. *)

LoadPending(d, r, v) ==
  /\ HasCapacity /\ decider[d].phase = "idle" /\ FreeDecider(d) /\ requests[r] = "pending"
  /\ decider' = [decider EXCEPT ![d] =
       [phase |-> "decide", req |-> r, verdict |-> v, move |-> (strategy.status = "PendingPaperApproval"), seen |-> <<>>]]
  /\ UNCHANGED <<strategy, versions, requests, contested, suggestion, job, stranded>>

Decide(d, verdict, status) ==
  /\ decider[d].phase = "decide" /\ decider[d].verdict = verdict
  /\ requests' = [requests EXCEPT ![decider[d].req] = verdict]
  /\ contested' = (contested \/ requests[decider[d].req] # "pending")
  /\ strategy' = IF decider[d].move
                   THEN [strategy EXCEPT !.status = status] ELSE strategy
  /\ decider' = [decider EXCEPT ![d] = NoDecider]
  /\ UNCHANGED <<versions, suggestion, job, stranded>>

Approve(d) == Decide(d, "approved", "PaperTrading")
Reject(d) == Decide(d, "rejected", "Deprecated")

(* Mutant: an approval of any request will do, however the latest one was decided. *)
HasApprovedPaperRequest_Any == \E r \in DOMAIN requests : requests[r] = "approved"

(* has_approved_paper_request: the most recent request decides. *)
HasApprovedPaperRequest == requests # <<>> /\ requests[Len(requests)] = "approved"

(* POST /strategies/{id}/promote: the check, and the write.  (To the status it already
   has, nothing is written.) *)
LoadPromotion(d) ==
  /\ HasCapacity /\ decider[d].phase = "idle" /\ FreeDecider(d)
  /\ strategy.status \notin {"Ideation", "PaperTrading"} /\ strategy.cur # 0
  /\ HasApprovedPaperRequest
  /\ decider' = [decider EXCEPT ![d] = [NoDecider EXCEPT !.phase = "promote", !.seen = requests]]
  /\ UNCHANGED <<strategy, versions, requests, contested, suggestion, job, stranded>>

Promote(d) ==
  /\ decider[d].phase = "promote"
  /\ strategy' = [strategy EXCEPT !.status = "PaperTrading"]
  /\ contested' = (contested \/ requests # decider[d].seen)
  /\ decider' = [decider EXCEPT ![d] = NoDecider]
  /\ UNCHANGED <<versions, requests, suggestion, job, stranded>>

(* To any other status only the code is asked for, which no later step takes away: one step. *)
PromoteElsewhere(to) ==
  /\ strategy.status # "Ideation" /\ strategy.cur # 0
  /\ strategy' = [strategy EXCEPT !.status = to]
  /\ UNCHANGED <<versions, requests, contested, suggestion, job, decider, stranded>>

-----------------------------------------------------------------------------
(* Suggestions and their review. *)

SubmitSuggestion(s) ==
  /\ suggestion[s].status = "None"
  /\ suggestion' = [suggestion EXCEPT ![s].status = "Pending"]
  /\ UNCHANGED <<strategy, versions, requests, contested, job, decider, stranded>>

(* The endpoint looks for "Pending" but leaves the row as it is, so a second
   request may start a second thread for the same suggestion. *)
TriggerReview(j, s) ==
  /\ HasCapacity /\ job[j].phase = "idle" /\ FreeJob(j) /\ suggestion[s].status = "Pending"
  /\ job' = [job EXCEPT ![j] = [NoJob EXCEPT !.phase = "start", !.of = s]]
  /\ UNCHANGED <<strategy, versions, requests, contested, suggestion, decider, stranded>>

LatestVersionNo == IF versions = <<>> THEN 0 ELSE versions[Len(versions)]

RegenBegin(j) ==
  /\ job[j].phase = "start"
  /\ suggestion' = [suggestion EXCEPT ![job[j].of].status = "Reviewing"]
  /\ job' = [job EXCEPT ![j].phase = "review", ![j].verno = LatestVersionNo]
  /\ UNCHANGED <<strategy, versions, requests, contested, decider, stranded>>

Resolve(j, status, ver) ==
  /\ suggestion' = [suggestion EXCEPT ![job[j].of] = [status |-> status, ver |-> ver]]
  /\ job' = [job EXCEPT ![j] = NoJob]

(* review_suggestion: a failing reviewer and a negative verdict both reject. *)
Review(j) ==
  /\ job[j].phase = "review"
  /\ \/ Resolve(j, "Rejected", 0)
     \/ job' = [job EXCEPT ![j].phase = "prepare"] /\ UNCHANGED suggestion
  /\ UNCHANGED <<strategy, versions, requests, contested, decider, stranded>>

(* Between the two try blocks: the verdict and the run's row are committed, the graph
   is built, and the account's capital and portfolio are fetched. *)
RegenPrepares(j) ==
  /\ job[j].phase = "prepare"
  /\ job' = [job EXCEPT ![j].phase = "generate"]
  /\ UNCHANGED <<strategy, versions, requests, contested, suggestion, decider, stranded>>

(* strategy_generator, options_strategy_agent and python_code_generator: the
   version is written and made current; a taken number is a failed commit. *)
RegenWritesCode(j) ==
  /\ job[j].phase = "generate"
  /\ AddVersion(job[j].verno + 1)
  /\ job' = [job EXCEPT ![j].phase = "compliance", ![j].verno = @ + 1, ![j].ver = Len(versions) + 1]
  /\ UNCHANGED <<requests, contested, suggestion, decider, stranded>>

RegenCompliance(j) ==
  /\ job[j].phase = "compliance"
  /\ \E verdict \in {"end", "validate"} : job' = [job EXCEPT ![j].phase = verdict]
  /\ UNCHANGED <<strategy, versions, requests, contested, suggestion, decider, stranded>>

(* A failed check is retried; a passed one resets the strategy's status.  (The verdict
   is also written to whatever version is current, where nothing here reads it.) *)
RegenValidate(j) ==
  /\ job[j].phase = "validate"
  /\ \/ /\ job' = [job EXCEPT ![j].retries = @ + 1,
                              ![j].phase = IF job[j].retries + 1 >= MaxRegenRetries
                                             THEN "end" ELSE "generate"]
        /\ UNCHANGED strategy
     \/ /\ strategy' = [strategy EXCEPT !.status = "Backtesting"]
        /\ job' = [job EXCEPT ![j].phase = "end"]
  /\ UNCHANGED <<versions, requests, contested, suggestion, decider, stranded>>

(* Mutant: nobody catches what the pipeline raises. *)
RegenFails_Uncaught(j) ==
  /\ job[j].phase \in {"generate", "compliance", "validate", "end"}
  /\ job' = [job EXCEPT ![j] = NoJob]
  /\ UNCHANGED <<strategy, versions, requests, contested, suggestion, decider, stranded>>

(* A provider, a disabled node, a failed backtest or a refused version number
   ends the stream: both handlers reject the suggestion. *)
RegenFails(j) ==
  /\ job[j].phase \in {"generate", "compliance", "validate", "end"}
  /\ Resolve(j, "Rejected", 0)
  /\ UNCHANGED <<strategy, versions, requests, contested, decider, stranded>>

(* The stream is over -- evaluated, blocked or out of retries -- and the
   suggestion counts as applied if any version was written. *)
RegenResolves(j) ==
  /\ job[j].phase = "end"
  /\ IF job[j].ver # 0 THEN Resolve(j, "Applied", job[j].ver) ELSE Resolve(j, "Rejected", 0)
  /\ UNCHANGED <<strategy, versions, requests, contested, decider, stranded>>

Strand(threads) ==
  stranded' = stranded \cup {job[j].of : j \in {k \in threads : job[k].phase \notin {"idle", "start"}}}

(* What is raised outside both try blocks, or by a handler's own commit, ends the
   thread and leaves the suggestion as it is. *)
RegenDies(j) ==
  /\ job[j].phase # "idle"
  /\ Strand({j})
  /\ job' = [job EXCEPT ![j] = NoJob]
  /\ UNCHANGED <<strategy, versions, requests, contested, suggestion, decider>>

(* The process takes its daemon threads and in-flight requests with it. *)
ProcessDies ==
  /\ Strand(Jobs)
  /\ job' = [j \in Jobs |-> NoJob] /\ decider' = [d \in Deciders |-> NoDecider]
  /\ UNCHANGED <<strategy, versions, requests, contested, suggestion>>

RegenStep(j) == \/ RegenBegin(j) \/ Review(j) \/ RegenPrepares(j) \/ RegenWritesCode(j) \/ RegenCompliance(j)
                \/ RegenValidate(j) \/ RegenFails(j) \/ RegenResolves(j)

LifecycleNext ==
  \/ ResearchWritesCode \/ ResearchRecommends \/ RecommendedAgain
  \/ \E d \in Deciders :
       \/ \E r \in DOMAIN requests, v \in {"approved", "rejected"} : LoadPending(d, r, v)
       \/ Approve(d) \/ Reject(d) \/ LoadPromotion(d) \/ Promote(d)
  \/ \E to \in {"Backtesting", "Live", "Deprecated"} : PromoteElsewhere(to)
  \/ \E s \in Suggestions : SubmitSuggestion(s)
  \/ \E j \in Jobs : RegenStep(j) \/ RegenDies(j) \/ (\E s \in Suggestions : TriggerReview(j, s))
  \/ ProcessDies

(* A thread that was started goes on. *)
LifecycleFairness == \A j \in Jobs : WF_lifecycleVars(RegenStep(j))

LifecycleSpec == LifecycleInit /\ [][LifecycleNext]_lifecycleVars /\ LifecycleFairness

-----------------------------------------------------------------------------
(* A strategy in PaperTrading has its latest request approved: "a later rejection is
   never overridable by re-promoting through a different endpoint".  Promotions,
   recommendations, regeneration and the decisions of several people interleave; only a
   decision written over another decision of the same request, or a promotion over a
   request opened or decided since it looked, is excepted. *)
PaperTradingIsApproved ==
  strategy.status = "PaperTrading" /\ ~contested => requests # <<>> /\ requests[Len(requests)] = "approved"

(* Every suggestion under review is resolved, whatever the reviewer and the pipeline
   raise: "must always resolve the suggestion, even on failure".  Excepted are the
   process's death and an exception outside the two try blocks or in their handlers. *)
SuggestionsResolve ==
  \A s \in Suggestions : suggestion[s].status = "Reviewing" ~> (suggestion[s].status # "Reviewing" \/ s \in stranded)

=============================================================================
