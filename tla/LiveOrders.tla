------------------------------ MODULE LiveOrders ------------------------------
(***************************************************************************)
(* The path of a live order through TradingOS: the tick-driven pipeline    *)
(* and the execution agent (engine/live), the manual order endpoints       *)
(* (api/routers/orders.py), the circuit breaker in front of the two        *)
(* brokers (brokers/circuit_breaker.py, brokers/factory.py) and the kill   *)
(* switch (engine/risk/kill_switch_service.py).                            *)
(*                                                                         *)
(* Actors: the listener coroutine, one coroutine per order request and per *)
(* cancellation, one tracking task per recorded signal order, the thread   *)
(* of the kill-switch endpoint, the brokers (external), and process        *)
(* restarts. A step runs to the next await, or to the next transaction     *)
(* where the kill-switch thread can come between.                          *)
(***************************************************************************)
EXTENDS Naturals, FiniteSets

CONSTANTS
    Signals,          \* signals the strategy fires
    Requests,         \* POST /orders calls with account_scope = "Live"
    FailureThreshold, \* BrokerCircuitBreaker.failure_threshold
    MaxRetries,       \* ExecutionAgent.max_retries
    MaxPolls,         \* ExecutionAgent.max_polls
    MaxTrips,         \* bound: kill-switch trips
    MaxCancels,       \* bound: cancel requests
    MaxRestarts       \* bound: process restarts

ASSUME ActorsAssumption == Signals \cap Requests = {} /\ "pipeline" \notin Requests
ASSUME LimitsAssumption ==
    /\ FailureThreshold \in Nat \ {0, 1}
    /\ MaxRetries \in Nat /\ MaxPolls \in Nat \ {0}
    /\ MaxTrips \in Nat /\ MaxCancels \in Nat /\ MaxRestarts \in Nat

Orders == Signals \cup Requests

VARIABLES
    call,      \* per order: program counter, attempt, and the broker that
               \* acknowledged it
    brk,       \* per breaker object: state, consecutive failures, whether
               \* the cooldown is over, whether it has a fallback
    queued,    \* orders in a breaker's queued_orders
    taken,     \* how many times the brokers took an order (external)
    book,      \* status at its broker of an acknowledged order (external)
    rows,      \* Order.status of the row with its broker_order_id
    poll,      \* its tracking task: polls left, order-book status in hand
    loaded,    \* its cancel request: Order.status as the request read it
    cancel,    \* ... and the broker's answer in hand
    tripped,   \* kill_switch_service._kill_switch.triggered
    sweeping,  \* how far trip() is: flag set, PENDING rows read
    found,     \* the rows it read
    swept,     \* rows the kill switch cancelled (history)
    audited,   \* last kill-switch action in the audit log
    listening, \* whether the tick listener task is alive
    trips, restarts

vars == <<call, brk, queued, taken, book, rows, poll, loaded, cancel, tripped,
          sweeping, found, swept, audited, listening, trips, restarts>>
switch == <<tripped, sweeping, found, audited>>
records == <<rows, poll, loaded, cancel, swept>>
bounds == <<trips, restarts>>

Venues == {"primary", "fallback"}

Working == {"PENDING", "OPEN"}            \* OPEN stands for PARTIALLY_FILLED too
TERMINAL_STATUSES == {"FILLED", "CANCELLED"}  \* CANCELLED stands for REJECTED too
Statuses == Working \cup TERMINAL_STATUSES

None == "none"

(* build_broker() makes a new breaker for every request; the pipeline holds one.*)
BreakerOf(o) == IF o \in Signals THEN "pipeline" ELSE o
Breakers == {"pipeline"} \cup Requests

(* A breaker as build_broker() makes it, with or without Upstox behind it. *)
Fresh(fallback) ==
    [state |-> "CLOSED", failures |-> 0, cooled |-> FALSE, fallback |-> fallback]

InFlight == {"route", "primary", "fallback", "backoff", "record"}
Settled == {"refused", "failed", "done", "lost"}

NoPoll == [left |-> 0, seen |-> None]

TypeOK ==
    /\ call \in [Orders -> [at : {"new"} \cup InFlight \cup Settled,
                            attempt : 0..MaxRetries, venue : Venues \cup {None}]]
    /\ brk \in [Breakers -> [state : {"CLOSED", "OPEN", "HALF_OPEN"},
                             failures : Nat, cooled : BOOLEAN, fallback : BOOLEAN]]
    /\ queued \subseteq Orders
    /\ taken \in [Orders -> Nat]
    /\ book \in [Orders -> Statuses \cup {None}]
    /\ rows \in [Orders -> Statuses \cup {None}]
    /\ poll \in [Orders -> [left : 0..MaxPolls, seen : Statuses \cup {None}]]
    /\ loaded \in [Orders -> Statuses \cup {None}]
    /\ cancel \in [Orders -> Statuses \cup {None, "over"}]
    /\ tripped \in BOOLEAN
    /\ sweeping \in {"idle", "flagged", "read"}
    /\ found \subseteq Orders
    /\ swept \subseteq Orders
    /\ audited \in {"armed", "tripped"}
    /\ listening \in BOOLEAN
    /\ trips \in 0..MaxTrips /\ restarts \in 0..MaxRestarts

Init ==
    /\ call = [o \in Orders |-> [at |-> "new", attempt |-> 0, venue |-> None]]
    /\ \E fallback \in BOOLEAN : brk = [b \in Breakers |-> Fresh(fallback)]
    /\ queued = {}
    /\ taken = [o \in Orders |-> 0]
    /\ book = [o \in Orders |-> None]
    /\ rows = [o \in Orders |-> None]
    /\ poll = [o \in Orders |-> NoPoll]
    /\ loaded = [o \in Orders |-> None]
    /\ cancel = [o \in Orders |-> None]
    /\ tripped = FALSE /\ sweeping = "idle" /\ found = {} /\ swept = {}
    /\ audited = "armed"
    /\ listening = TRUE
    /\ trips = 0 /\ restarts = 0

(***************************************************************************)
(* The gate. Nothing on this path looks at the switch again afterwards.    *)
(***************************************************************************)

(* The end of a call that returns normally, and of one that raises: the    *)
(* listener does not catch what handle_tick raises, so its task ends.      *)
Settle(o, how) == call' = [call EXCEPT ![o].at = how]
Raised(o) == listening' = (listening /\ o \notin Signals)

Turn(o) == o \in Signals =>
    /\ listening
    /\ \A s \in Signals : call[s].at \notin InFlight

(* "clear" is the outcome of the checks this model takes as inputs: latency*)
(* guard, compliance, execution_agent enabled, known strategy.             *)
Gate(o) ==
    /\ call[o].at = "new" /\ Turn(o)
    /\ \E clear \in BOOLEAN :
         IF clear /\ ~tripped
         THEN Settle(o, "route") /\ UNCHANGED listening
         ELSE Settle(o, "refused") /\ Raised(o)
    /\ UNCHANGED <<brk, queued, taken, book, records, switch, bounds>>

(***************************************************************************)
(* BrokerCircuitBreaker.place_order                                        *)
(***************************************************************************)

(* _route_to_fallback_or_queue: without a fallback it raises AdminAlert,   *)
(* which nothing on the way up retries.                                    *)
Divert(o) ==
    IF brk[BreakerOf(o)].fallback
    THEN Settle(o, "fallback") /\ UNCHANGED <<queued, listening>>
    ELSE Settle(o, "failed") /\ queued' = queued \cup {o} /\ Raised(o)

_open_circuit(s) == [s EXCEPT !.state = "OPEN", !.cooled = FALSE]

_maybe_half_open(s) ==
    IF s.state = "OPEN" /\ s.cooled THEN [s EXCEPT !.state = "HALF_OPEN"] ELSE s

(* Up to the first await: consult the circuit, send to the primary or not. *)
Route(o) ==
    LET b == BreakerOf(o)
        s == _maybe_half_open(brk[b])
    IN  /\ call[o].at = "route"
        /\ brk' = [brk EXCEPT ![b] = s]
        /\ IF s.state = "OPEN"
           THEN Divert(o)
           ELSE Settle(o, "primary") /\ UNCHANGED <<queued, listening>>
        /\ UNCHANGED <<taken, book, records, switch, bounds>>

(* What a broker does with a request and what the client gets to see: an   *)
(* error or a timeout does not tell whether the order was taken.           *)
Replies ==
    {[kind |-> "ack", taken |-> TRUE], [kind |-> "client_error", taken |-> FALSE]}
      \cup [kind : {"timeout", "server_error"}, taken : BOOLEAN]

_is_server_error(reply) == reply.kind \in {"timeout", "server_error"}

Taken(o, reply) == taken' = IF reply.taken THEN [taken EXCEPT ![o] = @ + 1] ELSE taken

Acknowledged(o, venue) ==
    /\ call' = [call EXCEPT ![o].at = "record", ![o].venue = venue]
    /\ book' = [book EXCEPT ![o] = "PENDING"]
    /\ UNCHANGED <<queued, listening>>

(* _place_with_backoff retries a timeout of a signal's order; a request has*)
(* no execution agent and everything else raises to the caller.            *)
Reraise(o, reply) ==
    /\ UNCHANGED queued
    /\ IF o \in Signals /\ reply.kind = "timeout" /\ call[o].attempt < MaxRetries
       THEN Settle(o, "backoff") /\ UNCHANGED listening
       ELSE Settle(o, "failed") /\ Raised(o)

\* Mutant: a success closes the circuit and keeps the failure count.
MutSucceedKeepsCount(s) == [s EXCEPT !.state = "CLOSED"]

(* A success of the primary, probe or not.                                 *)
Succeed(s) == [s EXCEPT !.state = "CLOSED", !.failures = 0]

(* A server error or a timeout of the primary: a failed probe reopens at   *)
(* once, a failure below the threshold is the caller's.                    *)
PrimaryFails(o, b, reply) ==
    LET n == brk[b].failures + 1
        s == [brk[b] EXCEPT !.failures = n]
    IN  IF brk[b].state = "HALF_OPEN"
        THEN brk' = [brk EXCEPT ![b] = _open_circuit(@)] /\ Divert(o)
        ELSE IF n >= FailureThreshold
        THEN brk' = [brk EXCEPT ![b] = _open_circuit(s)] /\ Divert(o)
        ELSE brk' = [brk EXCEPT ![b] = s] /\ Reraise(o, reply)

PrimaryReply(o) ==
    LET b == BreakerOf(o) IN
    /\ call[o].at = "primary"
    /\ \E reply \in Replies :
         /\ Taken(o, reply)
         /\ IF reply.kind = "ack"
            THEN /\ brk' = [brk EXCEPT ![b] = Succeed(@)]
                 /\ Acknowledged(o, "primary")
            ELSE IF _is_server_error(reply)
            THEN PrimaryFails(o, b, reply) /\ UNCHANGED book
            ELSE Reraise(o, reply) /\ UNCHANGED <<brk, book>>
    /\ UNCHANGED <<records, switch, bounds>>

FallbackReply(o) ==
    /\ call[o].at = "fallback"
    /\ \E reply \in Replies :
         /\ Taken(o, reply)
         /\ IF reply.kind = "ack"
            THEN Acknowledged(o, "fallback")
            ELSE Reraise(o, reply) /\ UNCHANGED book
    /\ UNCHANGED <<brk, records, switch, bounds>>

\* Mutant: the attempt is not counted.
MutBackoffUncounted(o) ==
    /\ call[o].at = "backoff"
    /\ Settle(o, "route")
    /\ UNCHANGED <<brk, queued, taken, book, records, switch, listening, bounds>>

(* The sleep of _place_with_backoff ends and the next attempt begins.      *)
Backoff(o) ==
    /\ call[o].at = "backoff"
    /\ call' = [call EXCEPT ![o].at = "route", ![o].attempt = @ + 1]
    /\ UNCHANGED <<brk, queued, taken, book, records, switch, listening, bounds>>

(* datetime.now() - _opened_at reaches the cooldown.                       *)
Cool(b) ==
    /\ brk[b].state = "OPEN" /\ ~brk[b].cooled
    /\ brk' = [brk EXCEPT ![b].cooled = TRUE]
    /\ UNCHANGED <<call, queued, taken, book, records, switch, listening, bounds>>

(***************************************************************************)
(* Recording and tracking                                                  *)
(***************************************************************************)

\* Mutant: the retry loop covers the persistence of the order as well.
MutRecordRetries(o) ==
    /\ call[o].at = "record" /\ call[o].attempt < MaxRetries
    /\ Settle(o, "backoff")
    /\ UNCHANGED <<brk, queued, taken, book, records, switch, listening, bounds>>

(* _create_order_row, or the tail of POST /orders: both adapters answer    *)
(* PENDING, and only a signal's order gets a tracking task.                *)
Record(o) ==
    /\ call[o].at = "record"
    /\ rows' = [rows EXCEPT ![o] = "PENDING"]
    /\ poll' = IF o \in Signals THEN [poll EXCEPT ![o].left = MaxPolls] ELSE poll
    /\ Settle(o, "done")
    /\ UNCHANGED <<brk, queued, taken, book, loaded, cancel, swept, switch, listening, bounds>>

(* The row cannot be written: the broker has the order, the caller gets an *)
(* exception, and nothing retries.                                         *)
RecordFails(o) ==
    /\ call[o].at = "record"
    /\ Settle(o, "failed") /\ Raised(o)
    /\ UNCHANGED <<brk, queued, taken, book, records, switch, bounds>>

(* One round of _track_until_terminal up to the answer of get_order_book,  *)
(* which the breaker asks of the primary only: the order is listed there, or*)
(* it is not (yet, or never), or the request fails and ends the task.      *)
PollRead(o) ==
    /\ poll[o].left > 0 /\ poll[o].seen = None
    /\ \/ /\ call[o].venue = "primary"
          /\ poll' = [poll EXCEPT ![o].seen = book[o]]
       \/ poll' = [poll EXCEPT ![o].left = @ - 1]
       \/ poll' = [poll EXCEPT ![o] = NoPoll]
    /\ UNCHANGED <<call, brk, queued, taken, book, rows, loaded, cancel, swept, switch,
                   listening, bounds>>

(* _update_order_row with the status in hand; a terminal one ends the task.*)
PollWrite(o) ==
    LET s == poll[o].seen IN
    /\ s # None
    /\ rows' = [rows EXCEPT ![o] = s]
    /\ poll' = [poll EXCEPT ![o].seen = None,
                            ![o].left = IF s \in TERMINAL_STATUSES THEN 0 ELSE @ - 1]
    /\ UNCHANGED <<call, brk, queued, taken, book, loaded, cancel, swept, switch,
                   listening, bounds>>

(* DELETE /orders/{id}: the row is loaded ...                              *)
CancelLoad(o) ==
    /\ rows[o] # None /\ loaded[o] = None
    /\ Cardinality({p \in Orders : loaded[p] # None}) < MaxCancels
    /\ loaded' = [loaded EXCEPT ![o] = rows[o]]
    /\ UNCHANGED <<call, brk, queued, taken, book, rows, poll, cancel, swept, switch,
                   listening, bounds>>

(* ... the primary answers with the confirmed post-cancel state: cancelled, *)
(* filled before the cancel landed, or at work still (an order it does not *)
(* hold, or has finished with, is an error that changes nothing) ...       *)
CancelSend(o) ==
    /\ loaded[o] # None /\ cancel[o] = None
    /\ call[o].venue = "primary" /\ book[o] \in Working
    /\ \E s \in TERMINAL_STATUSES \cup {book[o]} :
         /\ book' = [book EXCEPT ![o] = s]
         /\ cancel' = [cancel EXCEPT ![o] = IF s = loaded[o] THEN "over" ELSE s]
    /\ UNCHANGED <<call, brk, queued, taken, rows, poll, loaded, swept, switch,
                   listening, bounds>>

\* Mutant: a cancellation that the broker accepted is taken for done.
MutCancelWriteAssumes(o) ==
    /\ cancel[o] \in Statuses
    /\ rows' = [rows EXCEPT ![o] = "CANCELLED"]
    /\ cancel' = [cancel EXCEPT ![o] = "over"]
    /\ UNCHANGED <<call, brk, queued, taken, book, poll, loaded, swept, switch,
                   listening, bounds>>

(* ... and the row takes that state. The session writes the column only if *)
(* the answer differs from what the request loaded, not from what the row  *)
(* holds by now.                                                           *)
CancelWrite(o) ==
    /\ cancel[o] \in Statuses
    /\ rows' = [rows EXCEPT ![o] = cancel[o]]
    /\ cancel' = [cancel EXCEPT ![o] = "over"]
    /\ UNCHANGED <<call, brk, queued, taken, book, poll, loaded, swept, switch,
                   listening, bounds>>

(* The broker works an order, fills it, or drops it (external). Nothing in *)
(* the program can see the later states of an order that has no row.       *)
BrokerMoves(o) ==
    /\ rows[o] # None /\ book[o] \in Working
    /\ \E s \in Statuses \ {book[o], "PENDING"} : book' = [book EXCEPT ![o] = s]
    /\ UNCHANGED <<call, brk, queued, taken, records, switch, listening, bounds>>

(***************************************************************************)
(* kill_switch_service                                                     *)
(***************************************************************************)

(* trip(): the flag in memory, then one transaction that reads the PENDING *)
(* rows, cancels what it read, whatever has become of it meanwhile, and    *)
(* audits.                                                                 *)
TripFlag ==
    /\ sweeping = "idle" /\ trips < MaxTrips
    /\ tripped' = TRUE /\ sweeping' = "flagged" /\ trips' = trips + 1
    /\ UNCHANGED <<call, brk, queued, taken, book, records, found, audited, listening, restarts>>

TripRead ==
    /\ sweeping = "flagged"
    /\ found' = {o \in Orders : rows[o] = "PENDING"} /\ sweeping' = "read"
    /\ UNCHANGED <<call, brk, queued, taken, book, records, tripped, audited, listening, bounds>>

TripCommit ==
    /\ sweeping = "read"
    /\ rows' = [o \in Orders |-> IF o \in found THEN "CANCELLED" ELSE rows[o]]
    /\ swept' = swept \cup found
    /\ sweeping' = "idle" /\ found' = {} /\ audited' = "tripped"
    /\ UNCHANGED <<call, brk, queued, taken, book, poll, loaded, cancel, tripped,
                   listening, bounds>>

(* reset(), whatever state the switch is in and even while trip() runs.    *)
reset ==
    /\ tripped' = FALSE /\ audited' = "armed"
    /\ UNCHANGED <<call, brk, queued, taken, book, records, sweeping, found, listening, bounds>>

(***************************************************************************)
(* The process and the listener task                                       *)
(***************************************************************************)

(* The owner of the listener task starts it again on the same pipeline.    *)
Relisten ==
    /\ ~listening
    /\ listening' = TRUE
    /\ UNCHANGED <<call, brk, queued, taken, book, records, switch, bounds>>

(* Everything that is module or object state is lost; the rows, the audit  *)
(* log and the brokers are not. An open transaction rolls back.            *)
Restart ==
    /\ restarts < MaxRestarts
    /\ restarts' = restarts + 1
    /\ call' = [o \in Orders |->
                  IF call[o].at \in InFlight THEN [call[o] EXCEPT !.at = "lost"] ELSE call[o]]
    /\ brk' = [b \in Breakers |-> Fresh(brk[b].fallback)]
    /\ queued' = {}
    /\ poll' = [o \in Orders |-> NoPoll]
    /\ cancel' = [o \in Orders |-> IF loaded[o] # None THEN "over" ELSE None]
    /\ tripped' = FALSE /\ sweeping' = "idle" /\ found' = {}
    /\ listening' = TRUE
    /\ UNCHANGED <<taken, book, rows, loaded, swept, audited, trips>>

Place(o) == Route(o) \/ PrimaryReply(o) \/ FallbackReply(o) \/ Backoff(o) \/ Record(o) \/ RecordFails(o)

Next ==
    \/ \E o \in Orders : Gate(o) \/ Place(o)
    \/ \E b \in Breakers : Cool(b)
    \/ \E o \in Orders : \/ PollRead(o) \/ PollWrite(o)
                      \/ CancelLoad(o) \/ CancelSend(o) \/ CancelWrite(o) \/ BrokerMoves(o)
    \/ TripFlag \/ TripRead \/ TripCommit \/ reset
    \/ Relisten \/ Restart

Spec == Init /\ [][Next]_vars

(* Every broker call answers or runs into the client's ten-second timeout, *)
(* and a sleeping coroutine is woken.                                      *)
FairSpec == Spec /\ \A o \in Orders : WF_vars(Place(o))

(***************************************************************************)
(* Properties                                                              *)
(***************************************************************************)

(* The circuit is open or being probed exactly when the failure count has  *)
(* reached the threshold: a success, a probe and a late failure leave      *)
(* place_order's two fields in step.                                       *)
CircuitMatchesFailures ==
    \A b \in Breakers : brk[b].state = "CLOSED" <=> brk[b].failures < FailureThreshold

(* A broker is sent an order again only while no earlier attempt of it has *)
(* been acknowledged: the retry loop of the execution agent and the        *)
(* failover of the breaker never repeat an order known to be placed.       *)
NeverRepeatsAKnownOrder ==
    [][\A o \in Orders : taken'[o] > taken[o] => call[o].venue = None]_vars

(* A row in a terminal state tells the truth about the broker, except for  *)
(* the rows the kill switch cancelled: neither the tracking task nor a     *)
(* cancellation writes an outcome the broker has not reported.             *)
TerminalRowIsTrue ==
    \A o \in Orders : rows[o] \in TERMINAL_STATUSES /\ o \notin swept => book[o] = rows[o]

(* A manual order never reaches the fallback or the queue: its breaker is  *)
(* built by build_broker() for that request alone, so the consecutive      *)
(* failures of earlier requests are never seen by it.                      *)
ManualOrderNeverFailsOver ==
    \A o \in Requests : o \notin queued /\ call[o].venue # "fallback"

(* A tracked order on the fallback keeps the PENDING of its creation until *)
(* a kill switch sweeps it: get_order_book and cancel_order ask the primary*)
(* only, so no later state of that order reaches its row.                  *)
FailedOverRowIsBlind ==
    \A o \in Orders : call[o].venue = "fallback" /\ o \notin swept =>
        rows[o] \in {None, "PENDING"}

(* A signal's order that passed the gate settles: the retries of the       *)
(* execution agent are bounded whatever the brokers answer and however the *)
(* circuit moves.                                                          *)
CallsSettle == \A o \in Signals : call[o].at = "route" ~> call[o].at \in Settled

(* Violated. An order is taken by the brokers at most once (the breaker's  *)
(* docstring: "preventing duplicate order placements during API timeouts").*)
NoDuplicatePlacement == \A o \in Orders : taken[o] <= 1

(***************************************************************************)
(* The inductive invariant behind the proofs in LiveOrdersProofs           *)
(***************************************************************************)

Unanswered == {"new", "route", "primary", "fallback", "backoff"}

(* The counters have room for the step that is under way.                  *)
RoomLeft ==
    \A o \in Orders :
        /\ call[o].at = "backoff" => call[o].attempt < MaxRetries
        /\ poll[o].seen # None => poll[o].left > 0

(* Nothing is known of an order, in memory or in the database, before a    *)
(* broker has acknowledged it.                                             *)
AckComesFirst ==
    \A o \in Orders :
        /\ call[o].at \in Unanswered => call[o].venue = None
        /\ call[o].at \in Unanswered \cup {"record"} =>
             /\ rows[o] = None /\ poll[o] = NoPoll
             /\ loaded[o] = None /\ cancel[o] = None /\ o \notin found

(* What a tracking task or a cancellation has in hand is not outdated once *)
(* it is terminal.                                                         *)
InHandIsTrue ==
    \A o \in Orders :
        /\ poll[o].seen \in TERMINAL_STATUSES => book[o] = poll[o].seen
        /\ cancel[o] \in TERMINAL_STATUSES => book[o] = cancel[o]

(* No status of an order on the fallback is ever in hand.                  *)
FallbackUnseen ==
    \A o \in Orders : call[o].venue = "fallback" =>
        poll[o].seen = None /\ cancel[o] \notin Statuses

(* The breaker of a manual order is as good as new until that order fails. *)
ManualBreakerIsNew ==
    \A o \in Requests :
        /\ call[o].at \notin {"fallback", "backoff"}
        /\ call[o].at \in Unanswered => brk[o].state = "CLOSED" /\ brk[o].failures = 0

IInv ==
    /\ TypeOK /\ RoomLeft /\ AckComesFirst
    /\ CircuitMatchesFailures
    /\ InHandIsTrue /\ TerminalRowIsTrue
    /\ FallbackUnseen /\ FailedOverRowIsBlind
    /\ ManualBreakerIsNew /\ ManualOrderNeverFailsOver
=============================================================================
