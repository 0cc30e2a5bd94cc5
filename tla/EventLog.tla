------------------------------ MODULE EventLog ------------------------------
(* The events of one organisation run: transactions that number them under the run's
   advisory lock and audit them under the audit chain's, publish them and then commit,
   and a console that follows them over a socket and backfills what it missed.
   Two transactions that wait for each other are ended by the database, which rolls
   one of them back. *)
EXTENDS Naturals, Sequences, FiniteSets

CONSTANTS
  EngineTxs,    \* transactions whose audit entries are those of emit
  ApprovalTxs,  \* transactions that open an approval request or decide one
  MaxEvents,    \* bound on emitted events
  MaxConnects   \* bound on connections of the console

ASSUME EventBounds ==
  EngineTxs \cap ApprovalTxs = {} /\ "free" \notin EngineTxs \cup ApprovalTxs /\ MaxEvents \in Nat

VARIABLES
  evTx,       \* each transaction: locks it still has to take, its event
  evLocks,    \* holders of the advisory locks
  evLog,      \* committed organizational_events, by sequence
  evCount,    \* events emitted so far, an event's identity
  evFeed,     \* frames on their way to the console
  console,    \* useOrganizationStream
  backfills   \* its requests for missed events

evVars == <<evTx, evLocks, evLog, evCount, evFeed, console, backfills>>

NoTx == [state |-> "idle", want |-> <<>>, seq |-> 0, id |-> 0]

EventInit ==
  /\ evTx = [w \in EngineTxs \cup ApprovalTxs |-> NoTx]
  /\ evLocks = [l \in {"event", "audit"} |-> "free"]
  /\ evLog = <<>> /\ evCount = 0 /\ evFeed = <<>>
  /\ console = [up |-> FALSE, connects |-> 0, last |-> 0, seen |-> {}] /\ backfills = <<>>

-----------------------------------------------------------------------------
(* emit in a transaction of its caller *)

(* Mutant: any transaction may write its audit entry before it emits. *)
LockOrders_Mixed(w) == {<<"event", "audit">>, <<"audit", "event">>}

(* An audited event takes the run's lock and then the chain's, an unaudited one the
   run's only.  Approvals are audited before they emit: a human's decision, and the
   request that a research task's own thread opens while other tasks of the run emit. *)
LockOrders(w) == IF w \in ApprovalTxs THEN {<<"audit", "event">>} ELSE {<<"event", "audit">>, <<"event">>}

BeginTx(w) ==
  /\ evTx[w] = NoTx /\ evCount < MaxEvents
  /\ \E order \in LockOrders(w) :
       evTx' = [evTx EXCEPT ![w] = [NoTx EXCEPT !.state = "emit", !.want = order, !.id = evCount + 1]]
  /\ evCount' = evCount + 1
  /\ UNCHANGED <<evLocks, evLog, evFeed, console, backfills>>

(* Mutant: a database sequence, which a rollback leaves with a gap. *)
NextSequence_Serial(w) == evTx[w].id

NextSequence(w) == Len(evLog) + 1

TakeLock(w) ==
  LET l == Head(evTx[w].want)
  IN /\ evTx[w].want # <<>> /\ evLocks[l] = "free"
     /\ evLocks' = [evLocks EXCEPT ![l] = w]
     /\ evTx' = [evTx EXCEPT ![w].want = Tail(@), ![w].seq = IF l = "event" THEN NextSequence(w) ELSE @]
     /\ UNCHANGED <<evLog, evCount, evFeed, console, backfills>>

(* Best effort, and before the caller commits. *)
PublishEvent(w) ==
  /\ evTx[w].state = "emit" /\ evTx[w].want = <<>>
  /\ evTx' = [evTx EXCEPT ![w].state = "published"]
  /\ \/ console.up /\ evFeed' = Append(evFeed, [seq |-> evTx[w].seq, id |-> evTx[w].id])
     \/ UNCHANGED evFeed
  /\ UNCHANGED <<evLocks, evLog, evCount, console, backfills>>

EndEventTx(w) ==
  /\ evTx' = [evTx EXCEPT ![w] = NoTx]
  /\ evLocks' = [l \in DOMAIN evLocks |-> IF evLocks[l] = w THEN "free" ELSE evLocks[l]]
  /\ UNCHANGED <<evCount, evFeed, console, backfills>>

CommitEvent(w) ==
  /\ evTx[w].state = "published"
  /\ evLog' = [s \in DOMAIN evLog \cup {evTx[w].seq} |-> IF s = evTx[w].seq THEN evTx[w].id ELSE evLog[s]]
  /\ EndEventTx(w)

(* The rest of the transaction fails, or the database ends it to break a cycle. *)
RollbackEvent(w) == evTx[w] # NoTx /\ EndEventTx(w) /\ UNCHANGED evLog

-----------------------------------------------------------------------------
(* The console *)

Connect ==
  /\ ~console.up /\ console.connects < MaxConnects
  /\ console' = [console EXCEPT !.up = TRUE, !.connects = @ + 1]
  /\ backfills' = Append(backfills, [state |-> "asked", from |-> console.last, rows |-> <<>>])
  /\ UNCHANGED <<evTx, evLocks, evLog, evCount, evFeed>>

(* A relay that ends, for whatever reason, closes the socket; what was on it is gone. *)
Disconnect ==
  /\ console.up /\ console' = [console EXCEPT !.up = FALSE] /\ evFeed' = <<>>
  /\ UNCHANGED <<evTx, evLocks, evLog, evCount, backfills>>

GetEvents(i) ==
  /\ backfills[i].state = "asked"
  /\ \/ backfills' = [backfills EXCEPT ![i].state = "answered",
                                       ![i].rows = [s \in {s \in DOMAIN evLog : s > backfills[i].from} |-> evLog[s]]]
     \/ backfills' = [backfills EXCEPT ![i].state = "failed"]
  /\ UNCHANGED <<evTx, evLocks, evLog, evCount, evFeed, console>>

(* ingest: in order, and only what is above the last sequence. *)
Ingested(rows) ==
  LET new == {s \in DOMAIN rows : s > console.last}
  IN [console EXCEPT !.seen = @ \cup {rows[s] : s \in new},
                     !.last = IF new = {} THEN @ ELSE CHOOSE s \in new : \A t \in new : t <= s]

IngestBackfill(i) ==
  /\ backfills[i].state = "answered"
  /\ console' = Ingested(backfills[i].rows)
  /\ backfills' = [backfills EXCEPT ![i] = [@ EXCEPT !.state = "done", !.rows = <<>>]]
  /\ UNCHANGED <<evTx, evLocks, evLog, evCount, evFeed>>

IngestFrame ==
  /\ evFeed # <<>>
  /\ console' = Ingested([s \in {Head(evFeed).seq} |-> Head(evFeed).id])
  /\ evFeed' = Tail(evFeed)
  /\ UNCHANGED <<evTx, evLocks, evLog, evCount, backfills>>

EventNext ==
  \/ \E w \in EngineTxs \cup ApprovalTxs :
       BeginTx(w) \/ TakeLock(w) \/ PublishEvent(w) \/ CommitEvent(w) \/ RollbackEvent(w)
  \/ Connect \/ Disconnect \/ IngestFrame
  \/ \E i \in DOMAIN backfills : GetEvents(i) \/ IngestBackfill(i)

EventSpec == EventInit /\ [][EventNext]_evVars

-----------------------------------------------------------------------------
(* Concurrent emitters, some of which roll back, commit in the order of the sequence
   and without a gap, so that whoever has read up to a sequence will never find an
   event below it later. *)
CommitsInSequence == [][evLog' # evLog => DOMAIN evLog' = 1 .. Len(evLog) + 1]_evLog

Waits(w, v) == evTx[w].want # <<>> /\ evLocks[Head(evTx[w].want)] = v

(* The two advisory locks are taken in both orders, so transactions can wait for each
   other, but only one that opens or decides an approval and an audited event of the
   run: no two approvals do, and no two of the other transactions
   (_open_paper_approval_request, approve and reject; emit). *)
WaitCycleNeedsApproval ==
  \A w, v \in EngineTxs \cup ApprovalTxs :
    Waits(w, v) /\ Waits(v, w) => (w \in ApprovalTxs) # (v \in ApprovalTxs)

(* What the hook promises, "a dropped socket never loses events": with every request
   for missed events answered and no frame under way the console has every event up to
   its last. *)
ConsoleLosesNothing ==
  console.up /\ evFeed = <<>> /\ (\A i \in DOMAIN backfills : backfills[i].state = "done")
  => \A s \in DOMAIN evLog : s <= console.last => evLog[s] \in console.seen
=============================================================================
