------------------------------ MODULE RiskLimits ------------------------------
(* The hard risk limits under dual control: a change is staged by one user and
   confirmed or rejected by a request that reads it, unlocked, and commits
   later.                                                                     *)
EXTENDS Naturals, Sequences

CONSTANTS
  Clerks,      \* confirm and reject requests in flight
  RiskUsers,   \* users who may stage and confirm
  MaxChanges   \* bound on change requests, and on limits

ASSUME RiskLimitsAssumption == MaxChanges \in Nat

VARIABLES
  changes,     \* risk_limit_change_requests
  limits,      \* risk_limits, with the request each came from
  clerk,       \* what each confirming or rejecting request has read
  contested    \* history: requests that two of them had read at one time

riskLimitVars == <<changes, limits, clerk, contested>>

NoClerk == [phase |-> "idle", req |-> 0, user |-> "none"]

RiskLimitsInit ==
  /\ changes = <<>> /\ limits = <<>>
  /\ clerk = [c \in Clerks |-> NoClerk] /\ contested = {}

StageChange(u) ==
  /\ Len(changes) < MaxChanges
  /\ changes' = Append(changes, [status |-> "PENDING", stager |-> u, decider |-> "none", limit |-> 0])
  /\ UNCHANGED <<limits, clerk, contested>>

(* Mutant: a decided request is decided again. *)
IsPending_Always(r) == changes[r].status # "none"

IsPending(r) == changes[r].status = "PENDING"

LoadChange(c, r, u) ==
  /\ clerk[c].phase = "idle" /\ IsPending(r)
  /\ \/ /\ changes[r].stager # u
        /\ clerk' = [clerk EXCEPT ![c] = [phase |-> "confirm", req |-> r, user |-> u]]
     \/ clerk' = [clerk EXCEPT ![c] = [phase |-> "reject", req |-> r, user |-> u]]
  /\ contested' = contested \cup {q \in {r} : \E d \in Clerks \ {c} : clerk[d].req = q}
  /\ UNCHANGED <<changes, limits>>

ConfirmChange(c) ==
  LET r == clerk[c].req
  IN /\ clerk[c].phase = "confirm" /\ Len(limits) < MaxChanges
     /\ limits' = Append(limits, [req |-> r, by |-> clerk[c].user])
     /\ changes' = [changes EXCEPT ![r].status = "APPROVED", ![r].decider = clerk[c].user,
                                   ![r].limit = Len(limits) + 1]
     /\ clerk' = [clerk EXCEPT ![c] = NoClerk] /\ UNCHANGED contested

RejectChange(c) ==
  LET r == clerk[c].req
  IN /\ clerk[c].phase = "reject"
     /\ changes' = [changes EXCEPT ![r].status = "REJECTED", ![r].decider = clerk[c].user]
     /\ clerk' = [clerk EXCEPT ![c] = NoClerk]
     /\ UNCHANGED <<limits, contested>>

RiskLimitsNext ==
  \/ \E u \in RiskUsers :
       \/ StageChange(u)
       \/ \E c \in Clerks, r \in DOMAIN changes : LoadChange(c, r, u)
  \/ \E c \in Clerks : ConfirmChange(c) \/ RejectChange(c)

RiskLimitsSpec == RiskLimitsInit /\ [][RiskLimitsNext]_riskLimitVars

-----------------------------------------------------------------------------
(* Every limit that took effect was confirmed by another user than the one who staged
   it; a rejected change never takes effect and none takes effect twice, whoever acts
   and in whatever order, except where two requests had read the same pending change:
   nothing locks the row between that read and the commit. *)
LimitsUnderDualControl ==
  /\ \A l \in DOMAIN limits : limits[l].by # changes[limits[l].req].stager
  /\ \A k, l \in DOMAIN limits : limits[k].req \notin contested =>
       changes[limits[k].req].status = "APPROVED" /\ (limits[k].req = limits[l].req => k = l)
=============================================================================
