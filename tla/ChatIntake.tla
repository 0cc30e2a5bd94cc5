----------------------------- MODULE ChatIntake -----------------------------
(* Messages to the CEO agent: webhook deliveries of Telegram, Discord and Slack
   (replay guard, rate limit, sender, rows, thread), the dashboard's own messages
   (API rate limit, rows, thread), and the background thread that answers them,
   directly or by an organisation run it watches. *)
EXTENDS Naturals, FiniteSets

CONSTANTS
  Updates,        \* messages of one external chat, which the platform may deliver again
  Routable,       \* those with a text and a verified, active sender
  WebMessages,    \* messages sent from the dashboard
  Handlers,       \* concurrent webhook requests
  ChatLimit,      \* DEFAULT_LIMIT requests of a chat per window
  ApiLimit,       \* api_rate_limit_requests of a caller per window
  MaxDeliveries   \* bound on deliveries

ASSUME ChatBounds ==
  Routable \subseteq Updates /\ Updates \cap WebMessages = {}
  /\ ChatLimit \in Nat /\ ApiLimit \in Nat /\ MaxDeliveries \in Nat

Msgs == Updates \cup WebMessages

VARIABLES
  sent,      \* deliveries so far
  hook,      \* webhook requests under way
  seen,      \* Redis webhook:seen:*
  counts,    \* Redis counters of the current window's bucket: the chat's and the caller's
  events,    \* WebhookEvent rows
  rows,      \* status of each message's assistant row, "none" if not inserted
  copies,    \* how often rows were inserted for a message
  answer,    \* the background thread of each message
  acked,     \* updates the platform got a 200 for
  lost,      \* history: updates marked seen whose handling was refused or failed
  orphaned   \* history: messages whose thread died

chatVars == <<sent, hook, seen, counts, events, rows, copies, answer, acked, lost, orphaned>>

NoHook == [upd |-> "none", step |-> "idle"]
NoCounts == [chat |-> 0, caller |-> 0]

ChatInit ==
  /\ sent = 0 /\ hook = [h \in Handlers |-> NoHook]
  /\ seen = {} /\ counts = NoCounts
  /\ events = {} /\ rows = [m \in Msgs |-> "none"] /\ copies = [m \in Msgs |-> 0]
  /\ answer = [m \in Msgs |-> "none"] /\ acked = {} /\ lost = {} /\ orphaned = {}

NextWindow ==
  /\ counts' = NoCounts /\ counts' # counts
  /\ UNCHANGED <<sent, hook, seen, events, rows, copies, answer, acked, lost, orphaned>>

-----------------------------------------------------------------------------
(* Webhook handlers.  An update with a bad signature changes nothing. *)

Deliver(h, m) ==
  /\ hook[h].step = "idle" /\ m \notin acked /\ sent < MaxDeliveries
  /\ sent' = sent + 1
  /\ hook' = [hook EXCEPT ![h] = [upd |-> m, step |-> "replay"]]
  /\ UNCHANGED <<seen, counts, events, rows, copies, answer, acked, lost, orphaned>>

Reply(h, ok) ==
  /\ hook' = [hook EXCEPT ![h] = NoHook]
  /\ acked' = IF ok THEN acked \cup {hook[h].upd} ELSE acked

(* Mutant: SET without NX reports every delivery as new. *)
IsReplay_Never(m) == FALSE

(* SET NX; the key lives for 24 hours, the span of every behaviour here. *)
IsReplay(m) == m \in seen

ReplayCheck(h) ==
  LET m == hook[h].upd
  IN /\ hook[h].step = "replay"
     /\ seen' = seen \cup {m}
     /\ IF IsReplay(m) THEN Reply(h, TRUE)
        ELSE hook' = [hook EXCEPT ![h].step = "limit"] /\ UNCHANGED acked
     /\ UNCHANGED <<sent, counts, events, rows, copies, answer, lost, orphaned>>

CheckRateLimit(h) ==
  /\ hook[h].step = "limit"
  /\ counts' = [counts EXCEPT !.chat = IF @ > ChatLimit THEN @ ELSE @ + 1]
  /\ IF counts.chat + 1 <= ChatLimit
       THEN hook' = [hook EXCEPT ![h].step = "record"] /\ UNCHANGED <<acked, lost>>
       ELSE Reply(h, FALSE) /\ lost' = lost \cup {hook[h].upd}
  /\ UNCHANGED <<sent, seen, events, rows, copies, answer, orphaned>>

(* Every update is recorded; those without a text or a known sender end here. *)
RecordEvent(h) ==
  LET m == hook[h].upd
  IN /\ hook[h].step = "record"
     /\ events' = events \cup {m}
     /\ IF m \in Routable THEN hook' = [hook EXCEPT ![h].step = "route"] /\ UNCHANGED acked
        ELSE Reply(h, TRUE)
     /\ UNCHANGED <<sent, seen, counts, rows, copies, answer, lost, orphaned>>

InsertRows(m) ==
  /\ rows' = [rows EXCEPT ![m] = "Pending"]
  /\ copies' = [copies EXCEPT ![m] = @ + 1]
  /\ answer' = [answer EXCEPT ![m] = "classify"]

RecordEventAndRoute(h) ==
  /\ hook[h].step = "route"
  /\ InsertRows(hook[h].upd) /\ Reply(h, TRUE)
  /\ UNCHANGED <<sent, seen, counts, events, lost, orphaned>>

(* Redis, the database or the process fails under the handler: no answer, or 500. *)
HandlerFails(h) ==
  /\ hook[h].step # "idle"
  /\ Reply(h, FALSE)
  /\ lost' = IF hook[h].step = "replay" THEN lost ELSE lost \cup {hook[h].upd}
  /\ UNCHANGED <<sent, seen, counts, events, rows, copies, answer, orphaned>>

(* RateLimitMiddleware: every request of the caller counts, the refused ones too. *)
Consume == counts' = [counts EXCEPT !.caller = IF @ > ApiLimit THEN @ ELSE @ + 1]

SendMessage(m) ==
  /\ rows[m] = "none"
  /\ Consume
  /\ IF counts.caller < ApiLimit THEN InsertRows(m) ELSE UNCHANGED <<rows, copies, answer>>
  /\ UNCHANGED <<sent, hook, seen, events, acked, lost, orphaned>>

-----------------------------------------------------------------------------
(* classify_and_dispatch, in a thread of its own *)

(* Mutant: what the classifier raises ends the thread. *)
ClassifyFails_Uncaught(m) ==
  /\ answer[m] = "classify" /\ answer' = [answer EXCEPT ![m] = "none"]
  /\ UNCHANGED <<sent, hook, seen, counts, events, rows, copies, acked, lost, orphaned>>

(* A classifier that fails means a direct answer. *)
ClassifyFails(m) ==
  /\ answer[m] = "classify" /\ answer' = [answer EXCEPT ![m] = "direct"]
  /\ UNCHANGED <<sent, hook, seen, counts, events, rows, copies, acked, lost, orphaned>>

(* maybe_route_to_organization: a lookup, or a run that is created and watched. *)
ClassifyMessage(m) ==
  /\ answer[m] = "classify"
  /\ \E path \in {"direct", "create"} : answer' = [answer EXCEPT ![m] = path]
  /\ UNCHANGED <<sent, hook, seen, counts, events, rows, copies, acked, lost, orphaned>>

ThreadDies(m) ==
  /\ answer' = [answer EXCEPT ![m] = "none"]
  /\ orphaned' = orphaned \cup {m}
  /\ UNCHANGED <<sent, hook, seen, counts, events, rows, copies, acked, lost>>

CreateRun(m) ==
  \/ /\ answer[m] = "create" /\ answer' = [answer EXCEPT ![m] = "watch"]
     /\ UNCHANGED <<sent, hook, seen, counts, events, rows, copies, acked, lost, orphaned>>
  \/ answer[m] = "create" /\ ThreadDies(m)

Resolved(m, status, next) ==
  /\ rows' = [rows EXCEPT ![m] = status]
  /\ answer' = [answer EXCEPT ![m] = next]
  /\ UNCHANGED <<sent, hook, seen, counts, events, copies, acked, lost, orphaned>>

(* Until the run has ended or 180 s have passed; a run still going is answered too.  A
   database error in the loop, or while the reply is put together, ends the thread. *)
WatchRunAndReply(m) ==
  /\ answer[m] = "watch"
  /\ \/ \E status \in {"Completed", "Failed"} : Resolved(m, status, "notifyRun")
     \/ ThreadDies(m)

(* The check of the agent's switch stands outside the try block, and the handlers write
   to the database themselves. *)
GenerateAndStoreReply(m) ==
  /\ answer[m] = "direct"
  /\ \/ Resolved(m, "Completed", "notifyDirect")
     \/ Resolved(m, "Failed", "none")    \* the agent is disabled, no provider, any exception
     \/ ThreadDies(m)

(* on_complete sends a completed reply to the channel it came from.  If it raises,
   the direct path takes that for a failure of the reply itself. *)
OnComplete(m) ==
  \/ answer[m] \in {"notifyRun", "notifyDirect"} /\ Resolved(m, rows[m], "none")
  \/ m \in Updates /\ answer[m] = "notifyDirect" /\ Resolved(m, "Failed", "none")
  \/ m \in Updates /\ answer[m] = "notifyRun" /\ ThreadDies(m)

(* The process dies with its requests and threads. *)
ChatProcessDies ==
  /\ hook' = [h \in Handlers |-> NoHook]
  /\ lost' = lost \cup {hook[h].upd : h \in {g \in Handlers : hook[g].step \in {"limit", "record", "route"}}}
  /\ answer' = [m \in Msgs |-> "none"]
  /\ orphaned' = orphaned \cup {m \in Msgs : answer[m] # "none"}
  /\ (\E h \in Handlers : hook[h].step # "idle") \/ (\E m \in Msgs : answer[m] # "none")
  /\ UNCHANGED <<sent, seen, counts, events, rows, copies, acked>>

AnswerStep(m) ==
  ClassifyMessage(m) \/ ClassifyFails(m) \/ CreateRun(m) \/ WatchRunAndReply(m)
  \/ GenerateAndStoreReply(m) \/ OnComplete(m)

ChatNext ==
  \/ \E h \in Handlers :
       \/ ReplayCheck(h) \/ CheckRateLimit(h) \/ RecordEvent(h) \/ RecordEventAndRoute(h) \/ HandlerFails(h)
       \/ \E m \in Updates : Deliver(h, m)
  \/ \E m \in WebMessages : SendMessage(m)
  \/ \E m \in Msgs : AnswerStep(m)
  \/ NextWindow \/ ChatProcessDies

AnswerFairness(m) == WF_chatVars(AnswerStep(m))
ChatFairness == \A m \in Msgs : AnswerFairness(m)

ChatSpec == ChatInit /\ [][ChatNext]_chatVars /\ ChatFairness

-----------------------------------------------------------------------------
(* However often and however concurrently the platform delivers an update within the
   24 hours its key lives, it is put before the agent once at most; and an update that was acknowledged has been
   or is being so, unless an earlier delivery was marked seen and then refused by the rate limit or
   failed, in which case the redelivery is acknowledged as a replay and lost. *)
PutBeforeAgentOnce ==
  \A m \in Updates :
    /\ copies[m] <= 1
    /\ m \in acked \cap Routable =>
         copies[m] = 1 \/ m \in lost \/ \E h \in Handlers : hook[h].upd = m

(* A pending reply is resolved, whatever the classifier, the providers or the run
   do, unless its thread died under it. *)
RepliesResolve == \A m \in Msgs : rows[m] = "Pending" ~> (rows[m] # "Pending" \/ m \in orphaned)
=============================================================================
