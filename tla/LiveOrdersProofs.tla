--------------------------- MODULE LiveOrdersProofs ---------------------------
(***************************************************************************)
(* Proofs about LiveOrders, for any number of signals and requests, every  *)
(* threshold and every bound.                                              *)
(***************************************************************************)
EXTENDS LiveOrders, TLAPS

(* The counts and the sets of states that the step proofs share.           *)
LEMMA Shapes ==
    /\ 0 \in 0..MaxRetries /\ MaxPolls \in 0..MaxPolls /\ 0 \in 0..MaxPolls
    /\ NoPoll \in [left : 0..MaxPolls, seen : Statuses \cup {None}]
    /\ \A o \in Orders : BreakerOf(o) \in Breakers
    /\ \A o \in Requests : o \in Orders /\ o \notin Signals /\ BreakerOf(o) = o
    /\ \A o \in Requests, p \in Orders : BreakerOf(p) = o => p = o
  BY ActorsAssumption, LimitsAssumption
     DEF NoPoll, None, BreakerOf, Breakers, Orders

CallRecord == [at : {"new"} \cup InFlight \cup Settled,
               attempt : 0..MaxRetries, venue : Venues \cup {None}]

BreakerRecord == [state : {"CLOSED", "OPEN", "HALF_OPEN"},
                  failures : Nat, cooled : BOOLEAN, fallback : BOOLEAN]

(* Moving an order's program counter changes nothing else of any call.     *)
LEMMA SettleEffect ==
    ASSUME NEW o \in Orders, NEW x \in {"new"} \cup InFlight \cup Settled,
           call \in [Orders -> CallRecord], Settle(o, x)
    PROVE  /\ call' \in [Orders -> CallRecord]
           /\ call'[o].at = x
           /\ call'[o].attempt = call[o].attempt
           /\ call'[o].venue = call[o].venue
           /\ \A p \in Orders : p # o => call'[p] = call[p]
  BY DEF Settle, CallRecord

(* An acknowledgement moves the call to its last step.                     *)
LEMMA AckEffect ==
    ASSUME NEW o \in Orders, NEW v \in Venues,
           call \in [Orders -> CallRecord], Acknowledged(o, v)
    PROVE  /\ call' \in [Orders -> CallRecord]
           /\ call'[o].at = "record" /\ call'[o].venue = v
           /\ call'[o].attempt = call[o].attempt
           /\ \A p \in Orders : p # o => call'[p] = call[p]
           /\ book' = [book EXCEPT ![o] = "PENDING"]
  BY DEF Acknowledged, CallRecord, InFlight

(* Where each step of place_order can leave the call: only a signal's order*)
(* with attempts left goes back to the retry loop.                         *)
LEMMA Moves ==
    ASSUME NEW o \in Orders
    PROVE  /\ Gate(o) => \E x \in {"route", "refused"} : Settle(o, x)
           /\ Route(o) => \E x \in {"primary", "fallback", "failed"} : Settle(o, x)
           /\ PrimaryReply(o) =>
                \/ Acknowledged(o, "primary")
                \/ /\ \E x \in {"fallback", "failed", "backoff"} :
                         /\ Settle(o, x)
                         /\ x = "backoff" => o \in Signals /\ call[o].attempt < MaxRetries
                   /\ UNCHANGED book
           /\ FallbackReply(o) =>
                \/ Acknowledged(o, "fallback")
                \/ /\ \E x \in {"failed", "backoff"} :
                         /\ Settle(o, x)
                         /\ x = "backoff" => o \in Signals /\ call[o].attempt < MaxRetries
                   /\ UNCHANGED book
<1>1. Gate(o) => \E x \in {"route", "refused"} : Settle(o, x)
  BY Zenon DEF Gate
<1>2. Divert(o) => Settle(o, "fallback") \/ Settle(o, "failed")
  BY Zenon DEF Divert
<1>3. ASSUME NEW reply, Reraise(o, reply)
      PROVE  \E x \in {"failed", "backoff"} :
                /\ Settle(o, x)
                /\ x = "backoff" => o \in Signals /\ call[o].attempt < MaxRetries
  <2>1. CASE o \in Signals /\ reply.kind = "timeout" /\ call[o].attempt < MaxRetries
    BY <1>3, <2>1, Zenon DEF Reraise
  <2>2. CASE ~(o \in Signals /\ reply.kind = "timeout" /\ call[o].attempt < MaxRetries)
    <3>1. Settle(o, "failed")
      BY <1>3, <2>2, Zenon DEF Reraise
    <3> QED BY <3>1
  <2> QED BY <2>1, <2>2
<1>4. Route(o) => \E x \in {"primary", "fallback", "failed"} : Settle(o, x)
  BY <1>2, Zenon DEF Route
<1>5. ASSUME PrimaryReply(o)
      PROVE  \/ Acknowledged(o, "primary")
             \/ /\ \E x \in {"fallback", "failed", "backoff"} :
                      /\ Settle(o, x)
                      /\ x = "backoff" => o \in Signals /\ call[o].attempt < MaxRetries
                /\ UNCHANGED book
  <2>1. PICK reply \in Replies :
          \/ Acknowledged(o, "primary")
          \/ UNCHANGED book /\ (Divert(o) \/ Reraise(o, reply))
    BY <1>5, Zenon DEF PrimaryReply, PrimaryFails
  <2>2. CASE Divert(o)
    BY <1>2, <2>1, <2>2
  <2>3. CASE Reraise(o, reply)
    BY <1>3, <2>1, <2>3
  <2> QED BY <2>1, <2>2, <2>3
<1>6. ASSUME FallbackReply(o)
      PROVE  \/ Acknowledged(o, "fallback")
             \/ /\ \E x \in {"failed", "backoff"} :
                      /\ Settle(o, x)
                      /\ x = "backoff" => o \in Signals /\ call[o].attempt < MaxRetries
                /\ UNCHANGED book
  BY <1>3, <1>6, Zenon DEF FallbackReply
<1> QED BY <1>1, <1>4, <1>5, <1>6

(* The queue only ever gains the order at hand, and the listener's flag    *)
(* stays a flag.                                                           *)
LEMMA SideEffect ==
    ASSUME NEW o \in Orders, TypeOK,
           Gate(o) \/ Route(o) \/ PrimaryReply(o) \/ FallbackReply(o)
    PROVE  queued' \in {queued, queued \cup {o}} /\ listening' \in BOOLEAN
<1>1. listening \in BOOLEAN
  BY DEF TypeOK
<1>2. Raised(o) => listening' \in BOOLEAN
  BY <1>1, Zenon DEF Raised
<1>3. Divert(o) => queued' \in {queued, queued \cup {o}} /\ listening' \in BOOLEAN
  BY <1>1, <1>2, Zenon DEF Divert
<1>4. \A reply : Reraise(o, reply) =>
        queued' \in {queued, queued \cup {o}} /\ listening' \in BOOLEAN
  BY <1>1, <1>2, Zenon DEF Reraise
<1>5. \A v : Acknowledged(o, v) =>
        queued' \in {queued, queued \cup {o}} /\ listening' \in BOOLEAN
  BY <1>1, Zenon DEF Acknowledged
<1>6. CASE Gate(o)
  BY <1>1, <1>2, <1>6, Zenon DEF Gate
<1>7. CASE Route(o)
  BY <1>1, <1>3, <1>7, Zenon DEF Route
<1>8. CASE PrimaryReply(o)
  BY <1>3, <1>4, <1>5, <1>8, Zenon DEF PrimaryReply, PrimaryFails
<1>9. CASE FallbackReply(o)
  BY <1>4, <1>5, <1>9, Zenon DEF FallbackReply
<1> QED BY <1>6, <1>7, <1>8, <1>9

(* The caller gets the error: the call ends or, for a signal, backs off.   *)
GivesUp(o) ==
    UNCHANGED queued /\ (Settle(o, "failed") \/ (o \in Signals /\ Settle(o, "backoff")))

(* What an answer of the primary does to its breaker.                      *)
LEMMA BreakerEffect ==
    ASSUME NEW o \in Orders, PrimaryReply(o), TypeOK
    PROVE  LET b == BreakerOf(o) s == brk[b] IN
           /\ brk' \in [Breakers -> BreakerRecord]
           /\ \A c \in Breakers : c # b => brk'[c] = brk[c]
           /\ \/ /\ brk'[b].state = "CLOSED" /\ brk'[b].failures = 0
                 /\ Acknowledged(o, "primary")
              \/ /\ s.state = "HALF_OPEN" /\ brk'[b].state = "OPEN"
                 /\ brk'[b].failures = s.failures /\ Divert(o)
              \/ /\ s.failures + 1 >= FailureThreshold /\ brk'[b].state = "OPEN"
                 /\ brk'[b].failures = s.failures + 1 /\ Divert(o)
              \/ /\ s.failures + 1 < FailureThreshold /\ s.state # "HALF_OPEN"
                 /\ brk'[b].state = s.state /\ brk'[b].failures = s.failures + 1
                 /\ GivesUp(o)
              \/ brk' = brk /\ GivesUp(o)
<1> DEFINE b == BreakerOf(o)
<1>1. b \in Breakers /\ brk \in [Breakers -> BreakerRecord] /\ FailureThreshold \in Nat
  BY Shapes, LimitsAssumption DEF TypeOK, BreakerRecord
<1>2. PICK reply \in Replies :
        \/ brk' = [brk EXCEPT ![b] = Succeed(@)] /\ Acknowledged(o, "primary")
        \/ PrimaryFails(o, b, reply)
        \/ brk' = brk /\ Reraise(o, reply)
  BY Zenon DEF PrimaryReply
<1>3. Reraise(o, reply) => GivesUp(o)
  BY Zenon DEF Reraise, GivesUp
<1> HIDE DEF b
<1>4. CASE brk' = [brk EXCEPT ![b] = Succeed(@)] /\ Acknowledged(o, "primary")
  BY <1>1, <1>4 DEF Succeed, BreakerRecord, b
<1>5. CASE PrimaryFails(o, b, reply)
  <2> DEFINE s == [brk[b] EXCEPT !.failures = brk[b].failures + 1]
  <2>1. \/ /\ brk[b].state = "HALF_OPEN"
           /\ brk' = [brk EXCEPT ![b] = _open_circuit(@)] /\ Divert(o)
        \/ /\ brk[b].failures + 1 >= FailureThreshold
           /\ brk' = [brk EXCEPT ![b] = _open_circuit(s)] /\ Divert(o)
        \/ /\ ~(brk[b].failures + 1 >= FailureThreshold) /\ brk[b].state # "HALF_OPEN"
           /\ brk' = [brk EXCEPT ![b] = s] /\ Reraise(o, reply)
    BY <1>5, Zenon DEF PrimaryFails
  <2>2. brk[b].failures \in Nat
    BY <1>1 DEF BreakerRecord
  <2>3. CASE brk' = [brk EXCEPT ![b] = _open_circuit(@)] /\ brk[b].state = "HALF_OPEN"
             /\ Divert(o)
    BY <1>1, <2>3 DEF _open_circuit, BreakerRecord, b
  <2>4. CASE brk' = [brk EXCEPT ![b] = _open_circuit(s)] /\ Divert(o)
             /\ brk[b].failures + 1 >= FailureThreshold
    <3>1. /\ _open_circuit(s) \in BreakerRecord
          /\ _open_circuit(s).state = "OPEN"
          /\ _open_circuit(s).failures = brk[b].failures + 1
      <4>1. brk[b] \in BreakerRecord
        BY <1>1
      <4>2. s \in BreakerRecord /\ s.failures = brk[b].failures + 1
        BY <2>2, <4>1 DEF BreakerRecord
      <4> HIDE DEF s
      <4> QED BY <4>2 DEF _open_circuit, BreakerRecord
    <3> QED BY <1>1, <2>4, <3>1 DEF b
  <2>5. CASE brk' = [brk EXCEPT ![b] = s] /\ Reraise(o, reply)
             /\ ~(brk[b].failures + 1 >= FailureThreshold) /\ brk[b].state # "HALF_OPEN"
    <3>1. brk[b].failures + 1 < FailureThreshold
      BY <1>1, <2>2, <2>5
    <3> QED BY <1>1, <1>3, <2>2, <2>5, <3>1 DEF BreakerRecord, b
  <2> QED BY <2>1, <2>3, <2>4, <2>5
<1>6. CASE brk' = brk /\ Reraise(o, reply)
  BY <1>1, <1>3, <1>6 DEF b
<1> QED BY <1>2, <1>4, <1>5, <1>6

PollRecord == [left : 0..MaxPolls, seen : Statuses \cup {None}]

(* One round of a tracking task touches that task only.                    *)
LEMMA PollEffect ==
    ASSUME NEW o \in Orders, TypeOK, RoomLeft
    PROVE  /\ PollRead(o) =>
                /\ poll' \in [Orders -> PollRecord]
                /\ \A p \in Orders : p # o => poll'[p] = poll[p]
                /\ \/ /\ poll'[o].seen = book[o] /\ poll'[o].left = poll[o].left
                      /\ call[o].venue = "primary"
                   \/ poll'[o].seen = None
           /\ PollWrite(o) =>
                /\ poll' \in [Orders -> PollRecord]
                /\ \A p \in Orders : p # o => poll'[p] = poll[p]
                /\ poll'[o].seen = None
<1>1. poll \in [Orders -> PollRecord] /\ NoPoll \in PollRecord /\ NoPoll.seen = None
  BY Shapes DEF TypeOK, PollRecord, NoPoll
<1>2. book[o] \in Statuses \cup {None} /\ MaxPolls \in Nat
  BY LimitsAssumption DEF TypeOK
<1>3. ASSUME PollRead(o)
      PROVE  /\ poll' \in [Orders -> PollRecord]
             /\ \A p \in Orders : p # o => poll'[p] = poll[p]
             /\ \/ /\ poll'[o].seen = book[o] /\ poll'[o].left = poll[o].left
                   /\ call[o].venue = "primary"
                \/ poll'[o].seen = None
  <2>1. /\ poll[o].left > 0 /\ poll[o].seen = None
        /\ \/ call[o].venue = "primary" /\ poll' = [poll EXCEPT ![o].seen = book[o]]
           \/ poll' = [poll EXCEPT ![o].left = @ - 1]
           \/ poll' = [poll EXCEPT ![o] = NoPoll]
    BY <1>3, Zenon DEF PollRead
  <2>2. CASE call[o].venue = "primary" /\ poll' = [poll EXCEPT ![o].seen = book[o]]
    BY <1>1, <1>2, <2>2 DEF PollRecord
  <2>3. CASE poll' = [poll EXCEPT ![o].left = @ - 1]
    <3>1. poll[o].left \in 0..MaxPolls /\ poll[o].left - 1 \in 0..MaxPolls
      BY <1>1, <1>2, <2>1 DEF PollRecord
    <3> QED BY <1>1, <2>1, <2>3, <3>1 DEF PollRecord
  <2>4. CASE poll' = [poll EXCEPT ![o] = NoPoll]
    BY <1>1, <2>4
  <2> QED BY <2>1, <2>2, <2>3, <2>4
<1>4. ASSUME PollWrite(o)
      PROVE  /\ poll' \in [Orders -> PollRecord]
             /\ \A p \in Orders : p # o => poll'[p] = poll[p]
             /\ poll'[o].seen = None
  <2>1. /\ poll[o].seen # None
        /\ poll' = [poll EXCEPT ![o].seen = None,
                     ![o].left = IF poll[o].seen \in TERMINAL_STATUSES THEN 0 ELSE @ - 1]
    BY <1>4, Zenon DEF PollWrite
  <2>2. poll[o].left > 0
    BY <2>1 DEF RoomLeft
  <2>3. 0 \in 0..MaxPolls /\ poll[o].left - 1 \in 0..MaxPolls
    BY <1>1, <1>2, <2>2 DEF PollRecord
  <2> QED BY <1>1, <2>1, <2>3 DEF PollRecord
<1> QED BY <1>3, <1>4

(* The initial states satisfy the inductive invariant.                     *)
LEMMA InitIInv == Init => IInv
<1> SUFFICES ASSUME Init PROVE IInv
  OBVIOUS
<1> USE Shapes, ActorsAssumption, LimitsAssumption
<1> USE DEF Init
<1>1. TypeOK
  <2>1. call \in [Orders -> [at : {"new"} \cup InFlight \cup Settled,
                            attempt : 0..MaxRetries, venue : Venues \cup {None}]]
    BY DEF None
  <2>2. brk \in [Breakers -> [state : {"CLOSED", "OPEN", "HALF_OPEN"},
                             failures : Nat, cooled : BOOLEAN, fallback : BOOLEAN]]
    BY DEF Fresh
  <2>3. 0 \in 0..MaxTrips /\ 0 \in 0..MaxRestarts
    OBVIOUS
  <2>4. poll \in [Orders -> [left : 0..MaxPolls, seen : Statuses \cup {None}]]
    OBVIOUS
  <2> HIDE DEF Init
  <2>5. /\ queued = {} /\ swept = {} /\ audited = "armed" /\ trips = 0 /\ restarts = 0
        /\ tripped = FALSE /\ sweeping = "idle" /\ listening = TRUE
        /\ taken = [o \in Orders |-> 0] /\ book = [o \in Orders |-> None]
        /\ rows = [o \in Orders |-> None] /\ cancel = [o \in Orders |-> None]
        /\ loaded = [o \in Orders |-> None] /\ found = {}
    BY DEF Init
  <2> QED BY <2>1, <2>2, <2>3, <2>4, <2>5 DEF TypeOK
<1>2. RoomLeft /\ AckComesFirst /\ InHandIsTrue /\ FallbackUnseen
  BY DEF RoomLeft, AckComesFirst, InHandIsTrue, FallbackUnseen, NoPoll, None,
         TERMINAL_STATUSES
<1>3. CircuitMatchesFailures
  BY DEF CircuitMatchesFailures, Fresh
<1>4. ManualBreakerIsNew
  BY DEF ManualBreakerIsNew, Fresh, Breakers
<1>5. TerminalRowIsTrue /\ FailedOverRowIsBlind /\ ManualOrderNeverFailsOver
  BY DEF TerminalRowIsTrue, FailedOverRowIsBlind, ManualOrderNeverFailsOver, None,
         TERMINAL_STATUSES
<1> QED BY <1>1, <1>2, <1>3, <1>4, <1>5 DEF IInv

(* The counters keep their room and acknowledgements stay first.           *)
LEMMA NextAck == IInv /\ [Next]_vars => (RoomLeft /\ AckComesFirst)'
<1> SUFFICES ASSUME IInv, [Next]_vars PROVE (RoomLeft /\ AckComesFirst)'
  OBVIOUS
<1> USE Shapes, ActorsAssumption, LimitsAssumption
<1>0. /\ TypeOK /\ RoomLeft
      /\ call \in [Orders -> CallRecord] /\ brk \in [Breakers -> BreakerRecord]
      /\ poll \in [Orders -> PollRecord]
  BY DEF IInv, TypeOK, CallRecord, BreakerRecord, PollRecord
<1> USE DEF IInv, RoomLeft, AckComesFirst, Unanswered, NoPoll, None, Statuses, Working, TERMINAL_STATUSES, switch, records, bounds
<1>1. ASSUME NEW o \in Orders, Gate(o) PROVE (RoomLeft /\ AckComesFirst)'
  <2>0. \A x \in {"route", "refused"} : x \in {"new"} \cup InFlight \cup Settled
    BY DEF InFlight, Settled
  <2>1. ASSUME NEW x \in {"route", "refused"}, Settle(o, x) PROVE (RoomLeft /\ AckComesFirst)'
    BY <1>1, <1>0, <2>0, <2>1, SettleEffect DEF Gate
  <2> QED BY <1>1, <2>1, Moves
<1>2. ASSUME NEW o \in Orders, Route(o) PROVE (RoomLeft /\ AckComesFirst)'
  <2>0. \A x \in {"primary", "fallback", "failed"} : x \in {"new"} \cup InFlight \cup Settled
    BY DEF InFlight, Settled
  <2>1. ASSUME NEW x \in {"primary", "fallback", "failed"}, Settle(o, x) PROVE (RoomLeft /\ AckComesFirst)'
    BY <1>2, <1>0, <2>0, <2>1, SettleEffect DEF Route
  <2> QED BY <1>2, <2>1, Moves
<1>3. ASSUME NEW o \in Orders, PrimaryReply(o) PROVE (RoomLeft /\ AckComesFirst)'
  <2>0. \A x \in {"fallback", "failed", "backoff"} : x \in {"new"} \cup InFlight \cup Settled
    BY DEF InFlight, Settled
  <2>1. CASE Acknowledged(o, "primary")
    <3>1. "primary" \in Venues
      BY DEF Venues
    <3> QED BY <1>3, <1>0, <2>1, <3>1, AckEffect DEF PrimaryReply
  <2>2. ASSUME NEW x \in {"fallback", "failed", "backoff"}, Settle(o, x), UNCHANGED book,
               x = "backoff" => o \in Signals /\ call[o].attempt < MaxRetries
        PROVE  (RoomLeft /\ AckComesFirst)'
    BY <1>3, <1>0, <2>0, <2>2, SettleEffect DEF PrimaryReply
  <2> QED BY <1>3, <2>1, <2>2, Moves
<1>4. ASSUME NEW o \in Orders, FallbackReply(o) PROVE (RoomLeft /\ AckComesFirst)'
  <2>0. \A x \in {"failed", "backoff"} : x \in {"new"} \cup InFlight \cup Settled
    BY DEF InFlight, Settled
  <2>1. CASE Acknowledged(o, "fallback")
    <3>1. "fallback" \in Venues
      BY DEF Venues
    <3> QED BY <1>4, <1>0, <2>1, <3>1, AckEffect DEF FallbackReply
  <2>2. ASSUME NEW x \in {"failed", "backoff"}, Settle(o, x), UNCHANGED book,
               x = "backoff" => o \in Signals /\ call[o].attempt < MaxRetries
        PROVE  (RoomLeft /\ AckComesFirst)'
    BY <1>4, <1>0, <2>0, <2>2, SettleEffect DEF FallbackReply
  <2> QED BY <1>4, <2>1, <2>2, Moves
<1>5. ASSUME NEW o \in Orders, Backoff(o) PROVE (RoomLeft /\ AckComesFirst)'
  BY <1>0, <1>5 DEF Backoff
<1>6. ASSUME NEW b \in Breakers, Cool(b) PROVE (RoomLeft /\ AckComesFirst)'
  BY <1>0, <1>6 DEF Cool
<1>7. ASSUME NEW o \in Orders, Record(o) PROVE (RoomLeft /\ AckComesFirst)'
  BY <1>0, <1>7 DEF Record, Settle
<1>7a. ASSUME NEW o \in Orders, RecordFails(o) PROVE (RoomLeft /\ AckComesFirst)'
  BY <1>0, <1>7a DEF RecordFails, Settle
<1>8. ASSUME NEW o \in Orders, PollRead(o) PROVE (RoomLeft /\ AckComesFirst)'
  BY <1>0, <1>8, PollEffect DEF PollRead
<1>9. ASSUME NEW o \in Orders, PollWrite(o) PROVE (RoomLeft /\ AckComesFirst)'
  <2>1. /\ poll[o].seen # None /\ rows' = [rows EXCEPT ![o] = poll[o].seen]
        /\ UNCHANGED <<call, book, loaded, cancel, found, swept>>
    BY <1>9, Zenon DEF PollWrite, switch
  <2>2. /\ poll' \in [Orders -> PollRecord] /\ poll'[o].seen = None
        /\ \A p \in Orders : p # o => poll'[p] = poll[p]
    BY <1>0, <1>9, PollEffect
  <2>3. rows \in [Orders -> Statuses \cup {None}]
    BY <1>0 DEF TypeOK
  <2> QED BY <1>0, <2>1, <2>2, <2>3
<1>a. ASSUME NEW o \in Orders, CancelLoad(o) PROVE (RoomLeft /\ AckComesFirst)'
  BY <1>0, <1>a DEF CancelLoad
<1>10. ASSUME NEW o \in Orders, CancelSend(o) PROVE (RoomLeft /\ AckComesFirst)'
  BY <1>0, <1>10 DEF CancelSend
<1>11. ASSUME NEW o \in Orders, CancelWrite(o) PROVE (RoomLeft /\ AckComesFirst)'
  BY <1>0, <1>11 DEF CancelWrite, TypeOK
<1>12. ASSUME NEW o \in Orders, BrokerMoves(o) PROVE (RoomLeft /\ AckComesFirst)'
  BY <1>0, <1>12 DEF BrokerMoves
<1>13. ASSUME TripFlag PROVE (RoomLeft /\ AckComesFirst)'
  BY <1>0, <1>13 DEF TripFlag
<1>b. ASSUME TripRead PROVE (RoomLeft /\ AckComesFirst)'
  BY <1>0, <1>b DEF TripRead
<1>14. ASSUME TripCommit PROVE (RoomLeft /\ AckComesFirst)'
  BY <1>0, <1>14 DEF TripCommit
<1>15. ASSUME reset PROVE (RoomLeft /\ AckComesFirst)'
  BY <1>0, <1>15 DEF reset
<1>16. ASSUME Relisten PROVE (RoomLeft /\ AckComesFirst)'
  BY <1>0, <1>16 DEF Relisten
<1>17. ASSUME Restart PROVE (RoomLeft /\ AckComesFirst)'
  BY <1>0, <1>17 DEF Restart
<1>18. CASE UNCHANGED vars
  BY <1>18 DEF vars
<1> QED
  BY <1>1, <1>2, <1>3, <1>4, <1>5, <1>6, <1>7, <1>7a, <1>8, <1>9,
     <1>10, <1>11, <1>12, <1>13, <1>14, <1>15, <1>16, <1>17, <1>18, <1>a, <1>b DEF Next, Place

(* Orders on the fallback stay unseen.                                     *)
LEMMA NextBlind == IInv /\ [Next]_vars => (FallbackUnseen /\ FailedOverRowIsBlind)'
<1> SUFFICES ASSUME IInv, [Next]_vars PROVE (FallbackUnseen /\ FailedOverRowIsBlind)'
  OBVIOUS
<1> USE Shapes, ActorsAssumption, LimitsAssumption
<1>0. /\ TypeOK /\ RoomLeft
      /\ call \in [Orders -> CallRecord] /\ brk \in [Breakers -> BreakerRecord]
      /\ poll \in [Orders -> PollRecord]
  BY DEF IInv, TypeOK, CallRecord, BreakerRecord, PollRecord
<1> USE DEF IInv, AckComesFirst, FallbackUnseen, FailedOverRowIsBlind, Unanswered, NoPoll, None, Statuses, Working, TERMINAL_STATUSES, switch, records, bounds
<1>1. ASSUME NEW o \in Orders, Gate(o) PROVE (FallbackUnseen /\ FailedOverRowIsBlind)'
  <2>0. \A x \in {"route", "refused"} : x \in {"new"} \cup InFlight \cup Settled
    BY DEF InFlight, Settled
  <2>1. ASSUME NEW x \in {"route", "refused"}, Settle(o, x) PROVE (FallbackUnseen /\ FailedOverRowIsBlind)'
    BY <1>1, <1>0, <2>0, <2>1, SettleEffect DEF Gate
  <2> QED BY <1>1, <2>1, Moves
<1>2. ASSUME NEW o \in Orders, Route(o) PROVE (FallbackUnseen /\ FailedOverRowIsBlind)'
  <2>0. \A x \in {"primary", "fallback", "failed"} : x \in {"new"} \cup InFlight \cup Settled
    BY DEF InFlight, Settled
  <2>1. ASSUME NEW x \in {"primary", "fallback", "failed"}, Settle(o, x) PROVE (FallbackUnseen /\ FailedOverRowIsBlind)'
    BY <1>2, <1>0, <2>0, <2>1, SettleEffect DEF Route
  <2> QED BY <1>2, <2>1, Moves
<1>3. ASSUME NEW o \in Orders, PrimaryReply(o) PROVE (FallbackUnseen /\ FailedOverRowIsBlind)'
  <2>0. \A x \in {"fallback", "failed", "backoff"} : x \in {"new"} \cup InFlight \cup Settled
    BY DEF InFlight, Settled
  <2>1. CASE Acknowledged(o, "primary")
    <3>1. "primary" \in Venues
      BY DEF Venues
    <3> QED BY <1>3, <1>0, <2>1, <3>1, AckEffect DEF PrimaryReply
  <2>2. ASSUME NEW x \in {"fallback", "failed", "backoff"}, Settle(o, x), UNCHANGED book,
               x = "backoff" => o \in Signals /\ call[o].attempt < MaxRetries
        PROVE  (FallbackUnseen /\ FailedOverRowIsBlind)'
    BY <1>3, <1>0, <2>0, <2>2, SettleEffect DEF PrimaryReply
  <2> QED BY <1>3, <2>1, <2>2, Moves
<1>4. ASSUME NEW o \in Orders, FallbackReply(o) PROVE (FallbackUnseen /\ FailedOverRowIsBlind)'
  <2>0. \A x \in {"failed", "backoff"} : x \in {"new"} \cup InFlight \cup Settled
    BY DEF InFlight, Settled
  <2>1. CASE Acknowledged(o, "fallback")
    <3>1. "fallback" \in Venues
      BY DEF Venues
    <3> QED BY <1>4, <1>0, <2>1, <3>1, AckEffect DEF FallbackReply
  <2>2. ASSUME NEW x \in {"failed", "backoff"}, Settle(o, x), UNCHANGED book,
               x = "backoff" => o \in Signals /\ call[o].attempt < MaxRetries
        PROVE  (FallbackUnseen /\ FailedOverRowIsBlind)'
    BY <1>4, <1>0, <2>0, <2>2, SettleEffect DEF FallbackReply
  <2> QED BY <1>4, <2>1, <2>2, Moves
<1>5. ASSUME NEW o \in Orders, Backoff(o) PROVE (FallbackUnseen /\ FailedOverRowIsBlind)'
  BY <1>0, <1>5 DEF Backoff
<1>6. ASSUME NEW b \in Breakers, Cool(b) PROVE (FallbackUnseen /\ FailedOverRowIsBlind)'
  BY <1>0, <1>6 DEF Cool
<1>7. ASSUME NEW o \in Orders, Record(o) PROVE (FallbackUnseen /\ FailedOverRowIsBlind)'
  BY <1>0, <1>7 DEF Record, Settle
<1>7a. ASSUME NEW o \in Orders, RecordFails(o) PROVE (FallbackUnseen /\ FailedOverRowIsBlind)'
  BY <1>0, <1>7a DEF RecordFails, Settle
<1>8. ASSUME NEW o \in Orders, PollRead(o) PROVE (FallbackUnseen /\ FailedOverRowIsBlind)'
  BY <1>0, <1>8, PollEffect DEF PollRead
<1>9. ASSUME NEW o \in Orders, PollWrite(o) PROVE (FallbackUnseen /\ FailedOverRowIsBlind)'
  <2>1. /\ poll[o].seen # None /\ rows' = [rows EXCEPT ![o] = poll[o].seen]
        /\ UNCHANGED <<call, book, loaded, cancel, found, swept>>
    BY <1>9, Zenon DEF PollWrite, switch
  <2>2. /\ poll' \in [Orders -> PollRecord] /\ poll'[o].seen = None
        /\ \A p \in Orders : p # o => poll'[p] = poll[p]
    BY <1>0, <1>9, PollEffect
  <2>3. rows \in [Orders -> Statuses \cup {None}]
    BY <1>0 DEF TypeOK
  <2> QED BY <1>0, <2>1, <2>2, <2>3
<1>a. ASSUME NEW o \in Orders, CancelLoad(o) PROVE (FallbackUnseen /\ FailedOverRowIsBlind)'
  BY <1>0, <1>a DEF CancelLoad
<1>10. ASSUME NEW o \in Orders, CancelSend(o) PROVE (FallbackUnseen /\ FailedOverRowIsBlind)'
  BY <1>0, <1>10 DEF CancelSend
<1>11. ASSUME NEW o \in Orders, CancelWrite(o) PROVE (FallbackUnseen /\ FailedOverRowIsBlind)'
  BY <1>0, <1>11 DEF CancelWrite
<1>12. ASSUME NEW o \in Orders, BrokerMoves(o) PROVE (FallbackUnseen /\ FailedOverRowIsBlind)'
  BY <1>0, <1>12 DEF BrokerMoves
<1>13. ASSUME TripFlag PROVE (FallbackUnseen /\ FailedOverRowIsBlind)'
  BY <1>0, <1>13 DEF TripFlag
<1>b. ASSUME TripRead PROVE (FallbackUnseen /\ FailedOverRowIsBlind)'
  BY <1>0, <1>b DEF TripRead
<1>14. ASSUME TripCommit PROVE (FallbackUnseen /\ FailedOverRowIsBlind)'
  BY <1>0, <1>14 DEF TripCommit
<1>15. ASSUME reset PROVE (FallbackUnseen /\ FailedOverRowIsBlind)'
  BY <1>0, <1>15 DEF reset
<1>16. ASSUME Relisten PROVE (FallbackUnseen /\ FailedOverRowIsBlind)'
  BY <1>0, <1>16 DEF Relisten
<1>17. ASSUME Restart PROVE (FallbackUnseen /\ FailedOverRowIsBlind)'
  BY <1>0, <1>17 DEF Restart
<1>18. CASE UNCHANGED vars
  BY <1>18 DEF vars
<1> QED
  BY <1>1, <1>2, <1>3, <1>4, <1>5, <1>6, <1>7, <1>7a, <1>8, <1>9,
     <1>10, <1>11, <1>12, <1>13, <1>14, <1>15, <1>16, <1>17, <1>18, <1>a, <1>b DEF Next, Place

(* A broker's terminal state does not change, so what was read of it and   *)
(* what was written of it stay true.                                       *)
LEMMA NextTruth == IInv /\ [Next]_vars => (InHandIsTrue /\ TerminalRowIsTrue)'
<1> SUFFICES ASSUME IInv, [Next]_vars PROVE (InHandIsTrue /\ TerminalRowIsTrue)'
  OBVIOUS
<1> USE Shapes, ActorsAssumption, LimitsAssumption
<1>0. /\ TypeOK /\ RoomLeft
      /\ call \in [Orders -> CallRecord] /\ brk \in [Breakers -> BreakerRecord]
      /\ poll \in [Orders -> PollRecord]
  BY DEF IInv, TypeOK, CallRecord, BreakerRecord, PollRecord
<1> USE DEF IInv, AckComesFirst, InHandIsTrue, TerminalRowIsTrue, Unanswered, NoPoll, None, Statuses, Working, TERMINAL_STATUSES, switch, records, bounds
<1>1. ASSUME NEW o \in Orders, Gate(o) PROVE (InHandIsTrue /\ TerminalRowIsTrue)'
  <2>0. \A x \in {"route", "refused"} : x \in {"new"} \cup InFlight \cup Settled
    BY DEF InFlight, Settled
  <2>1. ASSUME NEW x \in {"route", "refused"}, Settle(o, x) PROVE (InHandIsTrue /\ TerminalRowIsTrue)'
    BY <1>1, <1>0, <2>0, <2>1, SettleEffect DEF Gate
  <2> QED BY <1>1, <2>1, Moves
<1>2. ASSUME NEW o \in Orders, Route(o) PROVE (InHandIsTrue /\ TerminalRowIsTrue)'
  <2>0. \A x \in {"primary", "fallback", "failed"} : x \in {"new"} \cup InFlight \cup Settled
    BY DEF InFlight, Settled
  <2>1. ASSUME NEW x \in {"primary", "fallback", "failed"}, Settle(o, x) PROVE (InHandIsTrue /\ TerminalRowIsTrue)'
    BY <1>2, <1>0, <2>0, <2>1, SettleEffect DEF Route
  <2> QED BY <1>2, <2>1, Moves
<1>3. ASSUME NEW o \in Orders, PrimaryReply(o) PROVE (InHandIsTrue /\ TerminalRowIsTrue)'
  <2>0. \A x \in {"fallback", "failed", "backoff"} : x \in {"new"} \cup InFlight \cup Settled
    BY DEF InFlight, Settled
  <2>1. CASE Acknowledged(o, "primary")
    <3>1. "primary" \in Venues
      BY DEF Venues
    <3>2. call[o].at = "primary" /\ UNCHANGED <<rows, poll, cancel, swept>>
      BY <1>3, Zenon DEF PrimaryReply
    <3>3. book' = [book EXCEPT ![o] = "PENDING"]
      BY <1>0, <2>1, <3>1, AckEffect
    <3>4. rows[o] = None /\ poll[o] = NoPoll /\ cancel[o] = None
      BY <3>2
    <3>5. book \in [Orders -> Statuses \cup {None}]
      BY <1>0 DEF TypeOK
    <3> QED BY <3>2, <3>3, <3>4, <3>5
  <2>2. ASSUME NEW x \in {"fallback", "failed", "backoff"}, Settle(o, x), UNCHANGED book,
               x = "backoff" => o \in Signals /\ call[o].attempt < MaxRetries
        PROVE  (InHandIsTrue /\ TerminalRowIsTrue)'
    BY <1>3, <1>0, <2>0, <2>2, SettleEffect DEF PrimaryReply
  <2> QED BY <1>3, <2>1, <2>2, Moves
<1>4. ASSUME NEW o \in Orders, FallbackReply(o) PROVE (InHandIsTrue /\ TerminalRowIsTrue)'
  <2>0. \A x \in {"failed", "backoff"} : x \in {"new"} \cup InFlight \cup Settled
    BY DEF InFlight, Settled
  <2>1. CASE Acknowledged(o, "fallback")
    <3>1. "fallback" \in Venues
      BY DEF Venues
    <3>2. call[o].at = "fallback" /\ UNCHANGED <<rows, poll, cancel, swept>>
      BY <1>4, Zenon DEF FallbackReply
    <3>3. book' = [book EXCEPT ![o] = "PENDING"]
      BY <1>0, <2>1, <3>1, AckEffect
    <3>4. rows[o] = None /\ poll[o] = NoPoll /\ cancel[o] = None
      BY <3>2
    <3>5. book \in [Orders -> Statuses \cup {None}]
      BY <1>0 DEF TypeOK
    <3> QED BY <3>2, <3>3, <3>4, <3>5
  <2>2. ASSUME NEW x \in {"failed", "backoff"}, Settle(o, x), UNCHANGED book,
               x = "backoff" => o \in Signals /\ call[o].attempt < MaxRetries
        PROVE  (InHandIsTrue /\ TerminalRowIsTrue)'
    BY <1>4, <1>0, <2>0, <2>2, SettleEffect DEF FallbackReply
  <2> QED BY <1>4, <2>1, <2>2, Moves
<1>5. ASSUME NEW o \in Orders, Backoff(o) PROVE (InHandIsTrue /\ TerminalRowIsTrue)'
  BY <1>0, <1>5 DEF Backoff
<1>6. ASSUME NEW b \in Breakers, Cool(b) PROVE (InHandIsTrue /\ TerminalRowIsTrue)'
  BY <1>0, <1>6 DEF Cool
<1>7. ASSUME NEW o \in Orders, Record(o) PROVE (InHandIsTrue /\ TerminalRowIsTrue)'
  BY <1>0, <1>7 DEF Record, Settle
<1>7a. ASSUME NEW o \in Orders, RecordFails(o) PROVE (InHandIsTrue /\ TerminalRowIsTrue)'
  BY <1>0, <1>7a DEF RecordFails, Settle
<1>8. ASSUME NEW o \in Orders, PollRead(o) PROVE (InHandIsTrue /\ TerminalRowIsTrue)'
  BY <1>0, <1>8, PollEffect DEF PollRead
<1>9. ASSUME NEW o \in Orders, PollWrite(o) PROVE (InHandIsTrue /\ TerminalRowIsTrue)'
  <2>1. /\ poll[o].seen # None /\ rows' = [rows EXCEPT ![o] = poll[o].seen]
        /\ UNCHANGED <<call, book, loaded, cancel, found, swept>>
    BY <1>9, Zenon DEF PollWrite, switch
  <2>2. /\ poll' \in [Orders -> PollRecord] /\ poll'[o].seen = None
        /\ \A p \in Orders : p # o => poll'[p] = poll[p]
    BY <1>0, <1>9, PollEffect
  <2>3. rows \in [Orders -> Statuses \cup {None}]
    BY <1>0 DEF TypeOK
  <2> QED BY <1>0, <2>1, <2>2, <2>3
<1>a. ASSUME NEW o \in Orders, CancelLoad(o) PROVE (InHandIsTrue /\ TerminalRowIsTrue)'
  BY <1>0, <1>a DEF CancelLoad
<1>10. ASSUME NEW o \in Orders, CancelSend(o) PROVE (InHandIsTrue /\ TerminalRowIsTrue)'
  <2>1. PICK s \in TERMINAL_STATUSES \cup {book[o]} :
          /\ book' = [book EXCEPT ![o] = s]
          /\ cancel' = [cancel EXCEPT ![o] = IF s = loaded[o] THEN "over" ELSE s]
    BY <1>10, Zenon DEF CancelSend
  <2>2. book[o] \in Working /\ UNCHANGED <<rows, poll, swept>>
    BY <1>10, Zenon DEF CancelSend
  <2>3. /\ book \in [Orders -> Statuses \cup {None}]
        /\ cancel \in [Orders -> Statuses \cup {None, "over"}]
    BY <1>0 DEF TypeOK
  <2> QED BY <1>0, <2>1, <2>2, <2>3
<1>11. ASSUME NEW o \in Orders, CancelWrite(o) PROVE (InHandIsTrue /\ TerminalRowIsTrue)'
  BY <1>0, <1>11 DEF CancelWrite
<1>12. ASSUME NEW o \in Orders, BrokerMoves(o) PROVE (InHandIsTrue /\ TerminalRowIsTrue)'
  BY <1>0, <1>12 DEF BrokerMoves
<1>13. ASSUME TripFlag PROVE (InHandIsTrue /\ TerminalRowIsTrue)'
  BY <1>0, <1>13 DEF TripFlag
<1>b. ASSUME TripRead PROVE (InHandIsTrue /\ TerminalRowIsTrue)'
  BY <1>0, <1>b DEF TripRead
<1>14. ASSUME TripCommit PROVE (InHandIsTrue /\ TerminalRowIsTrue)'
  BY <1>0, <1>14 DEF TripCommit
<1>15. ASSUME reset PROVE (InHandIsTrue /\ TerminalRowIsTrue)'
  BY <1>0, <1>15 DEF reset
<1>16. ASSUME Relisten PROVE (InHandIsTrue /\ TerminalRowIsTrue)'
  BY <1>0, <1>16 DEF Relisten
<1>17. ASSUME Restart PROVE (InHandIsTrue /\ TerminalRowIsTrue)'
  BY <1>0, <1>17 DEF Restart
<1>18. CASE UNCHANGED vars
  BY <1>18 DEF vars
<1> QED
  BY <1>1, <1>2, <1>3, <1>4, <1>5, <1>6, <1>7, <1>7a, <1>8, <1>9,
     <1>10, <1>11, <1>12, <1>13, <1>14, <1>15, <1>16, <1>17, <1>18, <1>a, <1>b DEF Next, Place

(* Circuit state and failure count move together.                          *)
LEMMA NextCircuit == IInv /\ [Next]_vars => CircuitMatchesFailures'
<1> SUFFICES ASSUME IInv, [Next]_vars PROVE CircuitMatchesFailures'
  OBVIOUS
<1> USE Shapes, ActorsAssumption, LimitsAssumption
<1>0. /\ TypeOK /\ RoomLeft
      /\ call \in [Orders -> CallRecord] /\ brk \in [Breakers -> BreakerRecord]
      /\ poll \in [Orders -> PollRecord]
  BY DEF IInv, TypeOK, CallRecord, BreakerRecord, PollRecord
<1> USE DEF IInv, CircuitMatchesFailures, switch, records, bounds
<1>1. ASSUME NEW o \in Orders, Gate(o) PROVE CircuitMatchesFailures'
  BY <1>0, <1>1 DEF Gate
<1>2. ASSUME NEW o \in Orders, Route(o) PROVE CircuitMatchesFailures'
  BY <1>0, <1>2 DEF Route, _maybe_half_open, BreakerRecord
<1>3. ASSUME NEW o \in Orders, PrimaryReply(o) PROVE CircuitMatchesFailures'
  BY <1>3, <1>0, BreakerEffect DEF BreakerRecord
<1>4. ASSUME NEW o \in Orders, FallbackReply(o) PROVE CircuitMatchesFailures'
  BY <1>0, <1>4 DEF FallbackReply
<1>5. ASSUME NEW o \in Orders, Backoff(o) PROVE CircuitMatchesFailures'
  BY <1>0, <1>5 DEF Backoff
<1>6. ASSUME NEW b \in Breakers, Cool(b) PROVE CircuitMatchesFailures'
  BY <1>0, <1>6 DEF Cool
<1>7. ASSUME NEW o \in Orders, Record(o) PROVE CircuitMatchesFailures'
  BY <1>0, <1>7 DEF Record
<1>7a. ASSUME NEW o \in Orders, RecordFails(o) PROVE CircuitMatchesFailures'
  BY <1>0, <1>7a DEF RecordFails
<1>8. ASSUME NEW o \in Orders, PollRead(o) PROVE CircuitMatchesFailures'
  BY <1>0, <1>8 DEF PollRead
<1>9. ASSUME NEW o \in Orders, PollWrite(o) PROVE CircuitMatchesFailures'
  BY <1>0, <1>9 DEF PollWrite
<1>a. ASSUME NEW o \in Orders, CancelLoad(o) PROVE CircuitMatchesFailures'
  BY <1>0, <1>a DEF CancelLoad
<1>10. ASSUME NEW o \in Orders, CancelSend(o) PROVE CircuitMatchesFailures'
  BY <1>0, <1>10 DEF CancelSend
<1>11. ASSUME NEW o \in Orders, CancelWrite(o) PROVE CircuitMatchesFailures'
  BY <1>0, <1>11 DEF CancelWrite
<1>12. ASSUME NEW o \in Orders, BrokerMoves(o) PROVE CircuitMatchesFailures'
  BY <1>0, <1>12 DEF BrokerMoves
<1>13. ASSUME TripFlag PROVE CircuitMatchesFailures'
  BY <1>0, <1>13 DEF TripFlag
<1>b. ASSUME TripRead PROVE CircuitMatchesFailures'
  BY <1>0, <1>b DEF TripRead
<1>14. ASSUME TripCommit PROVE CircuitMatchesFailures'
  BY <1>0, <1>14 DEF TripCommit
<1>15. ASSUME reset PROVE CircuitMatchesFailures'
  BY <1>0, <1>15 DEF reset
<1>16. ASSUME Relisten PROVE CircuitMatchesFailures'
  BY <1>0, <1>16 DEF Relisten
<1>17. ASSUME Restart PROVE CircuitMatchesFailures'
  BY <1>0, <1>17 DEF Restart, Fresh
<1>18. CASE UNCHANGED vars
  BY <1>18 DEF vars
<1> QED
  BY <1>1, <1>2, <1>3, <1>4, <1>5, <1>6, <1>7, <1>7a, <1>8, <1>9,
     <1>10, <1>11, <1>12, <1>13, <1>14, <1>15, <1>16, <1>17, <1>18, <1>a, <1>b DEF Next, Place

(* A manual order meets a new breaker, and one failure does not open it.   *)
LEMMA NextManual == IInv /\ [Next]_vars => (ManualBreakerIsNew /\ ManualOrderNeverFailsOver)'
<1> SUFFICES ASSUME IInv, [Next]_vars PROVE (ManualBreakerIsNew /\ ManualOrderNeverFailsOver)'
  OBVIOUS
<1> USE Shapes, ActorsAssumption, LimitsAssumption
<1>0. /\ TypeOK /\ RoomLeft
      /\ call \in [Orders -> CallRecord] /\ brk \in [Breakers -> BreakerRecord]
      /\ poll \in [Orders -> PollRecord]
  BY DEF IInv, TypeOK, CallRecord, BreakerRecord, PollRecord
<1> USE DEF IInv, ManualBreakerIsNew, ManualOrderNeverFailsOver, Unanswered, switch, records, bounds
<1>1. ASSUME NEW o \in Orders, Gate(o) PROVE (ManualBreakerIsNew /\ ManualOrderNeverFailsOver)'
  <2>0. \A x \in {"route", "refused"} : x \in {"new"} \cup InFlight \cup Settled
    BY DEF InFlight, Settled
  <2>1. ASSUME NEW x \in {"route", "refused"}, Settle(o, x)
        PROVE (ManualBreakerIsNew /\ ManualOrderNeverFailsOver)'
    BY <1>1, <1>0, <2>0, <2>1, SettleEffect DEF Gate
  <2> QED BY <1>1, <2>1, Moves
<1>2. ASSUME NEW o \in Orders, Route(o) PROVE (ManualBreakerIsNew /\ ManualOrderNeverFailsOver)'
  <2>1. PICK x \in {"primary", "fallback", "failed"} : Settle(o, x)
    BY <1>2, Moves
  <2>2. x \in {"new"} \cup InFlight \cup Settled
    BY DEF InFlight, Settled
  <2>3. /\ call'[o].at = x /\ call'[o].venue = call[o].venue
        /\ \A p \in Orders : p # o => call'[p] = call[p]
    BY <1>0, <2>1, <2>2, SettleEffect
  <2>4. /\ call[o].at = "route"
        /\ brk' = [brk EXCEPT ![BreakerOf(o)] = _maybe_half_open(brk[BreakerOf(o)])]
    BY <1>2, Zenon DEF Route
  <2>5. CASE o \in Requests
    <3>1. BreakerOf(o) = o /\ o \in Breakers /\ brk[o].state = "CLOSED"
      BY <2>4, <2>5 DEF Breakers
    <3>2. _maybe_half_open(brk[o]) = brk[o]
      BY <3>1 DEF _maybe_half_open
    <3>3. brk' = brk
      BY <1>0, <2>4, <3>1, <3>2
    <3>4. Settle(o, "primary") /\ UNCHANGED queued
      BY <1>2, <3>1, <3>2, Zenon DEF Route
    <3>5. call'[o].at = "primary"
      BY <1>0, <3>4, SettleEffect DEF InFlight
    <3> QED BY <2>3, <2>4, <3>3, <3>4, <3>5
  <2>6. CASE o \notin Requests
    <3>1. BreakerOf(o) = "pipeline" /\ \A p \in Requests : brk'[p] = brk[p]
      BY <1>0, <2>4, <2>6 DEF BreakerOf, Orders, Breakers
    <3>2. queued' \in {queued, queued \cup {o}}
      BY <1>0, <1>2, SideEffect
    <3> QED BY <2>3, <2>6, <3>1, <3>2
  <2> QED BY <2>5, <2>6
<1>3. ASSUME NEW o \in Orders, PrimaryReply(o) PROVE (ManualBreakerIsNew /\ ManualOrderNeverFailsOver)'
  <2>1. call[o].at = "primary"
    BY <1>3, Zenon DEF PrimaryReply
  <2>2. queued' \in {queued, queued \cup {o}}
    BY <1>0, <1>3, SideEffect
  <2>3. \A p \in Orders : p # o => call'[p] = call[p]
    <3>1. CASE Acknowledged(o, "primary")
      BY <1>0, <3>1, AckEffect DEF Venues
    <3>2. ASSUME NEW x \in {"fallback", "failed", "backoff"}, Settle(o, x)
          PROVE  \A p \in Orders : p # o => call'[p] = call[p]
      BY <1>0, <3>2, SettleEffect DEF InFlight, Settled
    <3> QED BY <1>3, <3>1, <3>2, Moves
  <2>4. CASE o \in Requests
    <3>1. /\ BreakerOf(o) = o /\ o \in Breakers /\ o \notin Signals
          /\ brk[o].state = "CLOSED" /\ brk[o].failures = 0
          /\ \A p \in Requests : p \in Breakers
      BY <2>1, <2>4 DEF Breakers
    <3>2. \A p \in Requests : p # o => brk'[p] = brk[p]
      BY <1>0, <1>3, <3>1, BreakerEffect
    <3>3. Acknowledged(o, "primary") \/ (Settle(o, "failed") /\ UNCHANGED queued)
      <4>1. Acknowledged(o, "primary") \/ GivesUp(o)
        BY <1>0, <1>3, <3>1, BreakerEffect
      <4> QED BY <3>1, <4>1 DEF GivesUp
    <3>4. CASE Acknowledged(o, "primary")
      <4>1. call'[o].at = "record" /\ call'[o].venue = "primary"
        BY <1>0, <3>4, AckEffect DEF Venues
      <4>2. UNCHANGED queued
        BY <3>4, Zenon DEF Acknowledged
      <4> QED BY <2>3, <3>2, <4>1, <4>2
    <3>5. CASE Settle(o, "failed") /\ UNCHANGED queued
      <4>1. call'[o].at = "failed" /\ call'[o].venue = call[o].venue
        BY <1>0, <3>5, SettleEffect DEF Settled
      <4> QED BY <2>3, <3>2, <3>5, <4>1
    <3> QED BY <3>3, <3>4, <3>5
  <2>5. CASE o \notin Requests
    <3>1. \A p \in Requests : p # BreakerOf(o) /\ p \in Breakers
      BY <2>5 DEF BreakerOf, Orders, Breakers
    <3>2. \A p \in Requests : brk'[p] = brk[p]
      BY <1>0, <1>3, <3>1, BreakerEffect
    <3> QED BY <2>2, <2>3, <2>5, <3>2
  <2> QED BY <2>4, <2>5
<1>4. ASSUME NEW o \in Orders, FallbackReply(o) PROVE (ManualBreakerIsNew /\ ManualOrderNeverFailsOver)'
  <2>1. call[o].at = "fallback" /\ brk' = brk
    BY <1>4, Zenon DEF FallbackReply
  <2>2. o \notin Requests
    BY <2>1
  <2>3. queued' \in {queued, queued \cup {o}}
    BY <1>0, <1>4, SideEffect
  <2>4. \A p \in Orders : p # o => call'[p] = call[p]
    <3>1. CASE Acknowledged(o, "fallback")
      BY <1>0, <3>1, AckEffect DEF Venues
    <3>2. ASSUME NEW x \in {"failed", "backoff"}, Settle(o, x)
          PROVE  \A p \in Orders : p # o => call'[p] = call[p]
      BY <1>0, <3>2, SettleEffect DEF InFlight, Settled
    <3> QED BY <1>4, <3>1, <3>2, Moves
  <2> QED BY <2>1, <2>2, <2>3, <2>4
<1>5. ASSUME NEW o \in Orders, Backoff(o) PROVE (ManualBreakerIsNew /\ ManualOrderNeverFailsOver)'
  BY <1>0, <1>5 DEF Backoff
<1>6. ASSUME NEW b \in Breakers, Cool(b) PROVE (ManualBreakerIsNew /\ ManualOrderNeverFailsOver)'
  BY <1>0, <1>6 DEF Cool
<1>7. ASSUME NEW o \in Orders, Record(o) PROVE (ManualBreakerIsNew /\ ManualOrderNeverFailsOver)'
  BY <1>0, <1>7 DEF Record, Settle
<1>7a. ASSUME NEW o \in Orders, RecordFails(o) PROVE (ManualBreakerIsNew /\ ManualOrderNeverFailsOver)'
  BY <1>0, <1>7a DEF RecordFails, Settle
<1>8. ASSUME NEW o \in Orders, PollRead(o) PROVE (ManualBreakerIsNew /\ ManualOrderNeverFailsOver)'
  BY <1>0, <1>8 DEF PollRead
<1>9. ASSUME NEW o \in Orders, PollWrite(o) PROVE (ManualBreakerIsNew /\ ManualOrderNeverFailsOver)'
  BY <1>0, <1>9 DEF PollWrite
<1>a. ASSUME NEW o \in Orders, CancelLoad(o) PROVE (ManualBreakerIsNew /\ ManualOrderNeverFailsOver)'
  BY <1>0, <1>a DEF CancelLoad
<1>10. ASSUME NEW o \in Orders, CancelSend(o) PROVE (ManualBreakerIsNew /\ ManualOrderNeverFailsOver)'
  BY <1>0, <1>10 DEF CancelSend
<1>11. ASSUME NEW o \in Orders, CancelWrite(o) PROVE (ManualBreakerIsNew /\ ManualOrderNeverFailsOver)'
  BY <1>0, <1>11 DEF CancelWrite
<1>12. ASSUME NEW o \in Orders, BrokerMoves(o) PROVE (ManualBreakerIsNew /\ ManualOrderNeverFailsOver)'
  BY <1>0, <1>12 DEF BrokerMoves
<1>13. ASSUME TripFlag PROVE (ManualBreakerIsNew /\ ManualOrderNeverFailsOver)'
  BY <1>0, <1>13 DEF TripFlag
<1>b. ASSUME TripRead PROVE (ManualBreakerIsNew /\ ManualOrderNeverFailsOver)'
  BY <1>0, <1>b DEF TripRead
<1>14. ASSUME TripCommit PROVE (ManualBreakerIsNew /\ ManualOrderNeverFailsOver)'
  BY <1>0, <1>14 DEF TripCommit
<1>15. ASSUME reset PROVE (ManualBreakerIsNew /\ ManualOrderNeverFailsOver)'
  BY <1>0, <1>15 DEF reset
<1>16. ASSUME Relisten PROVE (ManualBreakerIsNew /\ ManualOrderNeverFailsOver)'
  BY <1>0, <1>16 DEF Relisten
<1>17. ASSUME Restart PROVE (ManualBreakerIsNew /\ ManualOrderNeverFailsOver)'
  BY <1>0, <1>17 DEF Restart, Fresh, InFlight, Unanswered, Breakers
<1>18. CASE UNCHANGED vars
  BY <1>18 DEF vars
<1> QED
  BY <1>1, <1>2, <1>3, <1>4, <1>5, <1>6, <1>7, <1>7a, <1>8, <1>9,
     <1>10, <1>11, <1>12, <1>13, <1>14, <1>15, <1>16, <1>17, <1>18, <1>a, <1>b DEF Next, Place

(* Types are preserved.                                                    *)
LEMMA NextTypeOK == IInv /\ [Next]_vars => TypeOK'
<1> SUFFICES ASSUME IInv, [Next]_vars PROVE TypeOK'
  OBVIOUS
<1> USE Shapes, ActorsAssumption, LimitsAssumption
<1>0. /\ TypeOK /\ RoomLeft
      /\ call \in [Orders -> CallRecord] /\ brk \in [Breakers -> BreakerRecord]
      /\ poll \in [Orders -> PollRecord]
  BY DEF IInv, TypeOK, CallRecord, BreakerRecord, PollRecord
(* The rest of the state of an order, and the state that is not of an order.*)
<1> DEFINE PlacingOK == /\ call \in [Orders -> CallRecord]
                        /\ brk \in [Breakers -> BreakerRecord]
                        /\ queued \subseteq Orders /\ taken \in [Orders -> Nat]
                        /\ listening \in BOOLEAN
           BookOK == book \in [Orders -> Statuses \cup {None}]
           RowsOK == /\ rows \in [Orders -> Statuses \cup {None}]
                     /\ swept \subseteq Orders
           PollOK == poll \in [Orders -> PollRecord]
           CancelOK == /\ cancel \in [Orders -> Statuses \cup {None, "over"}]
                       /\ loaded \in [Orders -> Statuses \cup {None}]
           SwitchOK == /\ tripped \in BOOLEAN /\ sweeping \in {"idle", "flagged", "read"}
                       /\ found \subseteq Orders
                       /\ audited \in {"armed", "tripped"}
           BoundsOK == trips \in 0..MaxTrips /\ restarts \in 0..MaxRestarts
<1>a. PlacingOK /\ BookOK /\ RowsOK /\ PollOK /\ CancelOK /\ SwitchOK /\ BoundsOK
  BY <1>0 DEF TypeOK
<1>b. ASSUME PlacingOK', BookOK', RowsOK', PollOK', CancelOK', SwitchOK', BoundsOK'
      PROVE  TypeOK'
  BY <1>b DEF TypeOK, CallRecord, BreakerRecord, PollRecord
<1>c. UNCHANGED <<call, brk, queued, taken, listening>> => PlacingOK'
  BY <1>a
<1>d. UNCHANGED book => BookOK'
  BY <1>a
<1>e. UNCHANGED <<rows, swept>> => RowsOK'
  BY <1>a
<1>f. UNCHANGED poll => PollOK'
  BY <1>a
<1>g. UNCHANGED <<loaded, cancel>> => CancelOK'
  BY <1>a
<1>h. UNCHANGED switch => SwitchOK'
  BY <1>a DEF switch
<1>i. UNCHANGED bounds => BoundsOK'
  BY <1>a DEF bounds
<1>j. ASSUME NEW o \in Orders,
             Gate(o) \/ Route(o) \/ PrimaryReply(o) \/ FallbackReply(o),
             taken' \in [Orders -> Nat], brk' \in [Breakers -> BreakerRecord],
             call' \in [Orders -> CallRecord]
      PROVE  PlacingOK'
  BY <1>0, <1>a, <1>j, SideEffect
<1>k. ASSUME NEW o \in Orders, NEW x \in {"new"} \cup InFlight \cup Settled, Settle(o, x)
      PROVE  call' \in [Orders -> CallRecord]
  BY <1>0, <1>k, SettleEffect
<1>l. ASSUME NEW o \in Orders, NEW v \in Venues, Acknowledged(o, v)
      PROVE  call' \in [Orders -> CallRecord] /\ BookOK'
  <2>1. call' \in [Orders -> CallRecord] /\ book' = [book EXCEPT ![o] = "PENDING"]
    BY <1>0, <1>l, AckEffect
  <2> QED BY <1>a, <2>1 DEF Statuses, Working
<1>m. ASSUME NEW o \in Orders, NEW reply, Taken(o, reply)
      PROVE  taken' \in [Orders -> Nat]
  BY <1>a, <1>m DEF Taken
<1>n. {"route", "primary", "fallback", "failed", "refused", "backoff", "done"}
        \subseteq {"new"} \cup InFlight \cup Settled
  BY DEF InFlight, Settled
<1>o. {"primary", "fallback"} \subseteq Venues
  BY DEF Venues
<1> HIDE DEF PlacingOK, BookOK, RowsOK, PollOK, CancelOK, SwitchOK, BoundsOK
<1>1. ASSUME NEW o \in Orders, Gate(o) PROVE TypeOK'
  <2>1. UNCHANGED <<brk, taken, book, rows, poll, loaded, cancel, swept, switch, bounds>>
    BY <1>1, Zenon DEF Gate, records
  <2>2. call' \in [Orders -> CallRecord]
    BY <1>1, <1>k, <1>n, Moves
  <2>3. PlacingOK'
    BY <1>1, <1>0, <1>a, <1>j, <2>1, <2>2 DEF PlacingOK
  <2> QED BY <1>b, <1>d, <1>e, <1>f, <1>g, <1>h, <1>i, <2>1, <2>3
<1>2. ASSUME NEW o \in Orders, Route(o) PROVE TypeOK'
  <2>1. UNCHANGED <<taken, book, rows, poll, loaded, cancel, swept, switch, bounds>>
    BY <1>2, Zenon DEF Route, records
  <2>2. call' \in [Orders -> CallRecord]
    BY <1>2, <1>k, <1>n, Moves
  <2>3. brk' = [brk EXCEPT ![BreakerOf(o)] = _maybe_half_open(brk[BreakerOf(o)])]
    BY <1>2, Zenon DEF Route
  <2>4. brk' \in [Breakers -> BreakerRecord]
    BY <1>0, <2>3 DEF _maybe_half_open, BreakerRecord
  <2>5. PlacingOK'
    BY <1>2, <1>a, <1>j, <2>1, <2>2, <2>4 DEF PlacingOK
  <2> QED BY <1>b, <1>d, <1>e, <1>f, <1>g, <1>h, <1>i, <2>1, <2>5
<1>3. ASSUME NEW o \in Orders, PrimaryReply(o) PROVE TypeOK'
  <2>1. UNCHANGED <<rows, poll, loaded, cancel, swept, switch, bounds>>
    BY <1>3, Zenon DEF PrimaryReply, records
  <2>2. call' \in [Orders -> CallRecord] /\ BookOK'
    BY <1>3, <1>d, <1>k, <1>l, <1>n, <1>o, Moves
  <2>3. brk' \in [Breakers -> BreakerRecord]
    BY <1>0, <1>3, BreakerEffect
  <2>4. \E reply \in Replies : Taken(o, reply)
    BY <1>3, Zenon DEF PrimaryReply
  <2>5. PlacingOK'
    BY <1>3, <1>j, <1>m, <2>2, <2>3, <2>4
  <2> QED BY <1>b, <1>e, <1>f, <1>g, <1>h, <1>i, <2>1, <2>2, <2>5
<1>4. ASSUME NEW o \in Orders, FallbackReply(o) PROVE TypeOK'
  <2>1. UNCHANGED <<brk, rows, poll, loaded, cancel, swept, switch, bounds>>
    BY <1>4, Zenon DEF FallbackReply, records
  <2>2. call' \in [Orders -> CallRecord] /\ BookOK'
    BY <1>4, <1>d, <1>k, <1>l, <1>n, <1>o, Moves
  <2>3. \E reply \in Replies : Taken(o, reply)
    BY <1>4, Zenon DEF FallbackReply
  <2>4. PlacingOK'
    BY <1>0, <1>4, <1>j, <1>m, <2>1, <2>2, <2>3
  <2> QED BY <1>b, <1>e, <1>f, <1>g, <1>h, <1>i, <2>1, <2>2, <2>4
<1>5. ASSUME NEW o \in Orders, Backoff(o) PROVE TypeOK'
  <2>1. /\ call[o].at = "backoff"
        /\ call' = [call EXCEPT ![o].at = "route", ![o].attempt = @ + 1]
        /\ UNCHANGED <<brk, queued, taken, listening, book>>
        /\ UNCHANGED <<rows, poll, loaded, cancel, swept>>
        /\ UNCHANGED <<switch, bounds>>
    BY <1>5, Zenon DEF Backoff, records
  <2>2. call[o].attempt \in 0..MaxRetries /\ call[o].attempt < MaxRetries
    BY <1>0, <2>1 DEF RoomLeft, CallRecord
  <2>3. call[o].attempt + 1 \in 0..MaxRetries
    BY <2>2
  <2>4. call' \in [Orders -> CallRecord]
    BY <1>0, <1>n, <2>1, <2>3 DEF CallRecord
  <2>5. PlacingOK'
    BY <1>a, <2>1, <2>4 DEF PlacingOK
  <2> QED BY <1>b, <1>d, <1>e, <1>f, <1>g, <1>h, <1>i, <2>1, <2>5
<1>6. ASSUME NEW b \in Breakers, Cool(b) PROVE TypeOK'
  <2>1. /\ brk' = [brk EXCEPT ![b].cooled = TRUE]
        /\ UNCHANGED <<call, queued, taken, listening, book>>
        /\ UNCHANGED <<rows, poll, loaded, cancel, swept>>
        /\ UNCHANGED <<switch, bounds>>
    BY <1>6, Zenon DEF Cool, records
  <2>2. brk' \in [Breakers -> BreakerRecord]
    <3>1. \A c \in BOOLEAN : [brk[b] EXCEPT !.cooled = c] \in BreakerRecord
      BY <1>0 DEF BreakerRecord
    <3>2. [brk[b] EXCEPT !.cooled = TRUE] \in BreakerRecord
      BY <3>1, Zenon
    <3> QED BY <1>0, <2>1, <3>2
  <2>3. PlacingOK'
    BY <1>a, <2>1, <2>2 DEF PlacingOK
  <2> QED BY <1>b, <1>d, <1>e, <1>f, <1>g, <1>h, <1>i, <2>1, <2>3
<1>7. ASSUME NEW o \in Orders, Record(o) PROVE TypeOK'
  <2>1. /\ Settle(o, "done") /\ rows' = [rows EXCEPT ![o] = "PENDING"]
        /\ poll' = IF o \in Signals THEN [poll EXCEPT ![o].left = MaxPolls] ELSE poll
        /\ UNCHANGED <<brk, queued, taken, listening, book>>
        /\ UNCHANGED <<loaded, cancel, swept>>
        /\ UNCHANGED <<switch, bounds>>
    BY <1>7, Zenon DEF Record
  <2>2. call' \in [Orders -> CallRecord]
    BY <1>k, <1>n, <2>1
  <2>3. RowsOK'
    BY <1>a, <2>1 DEF RowsOK, Statuses, Working
  <2>4. PollOK'
    BY <1>0, <2>1 DEF PollOK, PollRecord
  <2>5. PlacingOK'
    BY <1>a, <2>1, <2>2 DEF PlacingOK
  <2> QED BY <1>b, <1>d, <1>g, <1>h, <1>i, <2>1, <2>3, <2>4, <2>5
<1>7a. ASSUME NEW o \in Orders, RecordFails(o) PROVE TypeOK'
  <2>1. /\ Settle(o, "failed") /\ Raised(o)
        /\ UNCHANGED <<brk, queued, taken, book, records>>
        /\ UNCHANGED <<switch, bounds>>
    BY <1>7a, Zenon DEF RecordFails
  <2>2. call' \in [Orders -> CallRecord]
    BY <1>k, <1>n, <2>1
  <2>3. PlacingOK'
    BY <1>a, <2>1, <2>2 DEF PlacingOK, Raised
  <2> QED BY <1>b, <1>d, <1>e, <1>f, <1>g, <1>h, <1>i, <2>1, <2>3 DEF records
<1>8. ASSUME NEW o \in Orders, PollRead(o) PROVE TypeOK'
  <2>1. /\ UNCHANGED <<call, brk, queued, taken, listening, book>>
        /\ UNCHANGED <<rows, loaded, cancel, swept>>
        /\ UNCHANGED <<switch, bounds>>
    BY <1>8, Zenon DEF PollRead
  <2>2. PollOK'
    BY <1>0, <1>8, PollEffect DEF PollOK
  <2> QED BY <1>b, <1>c, <1>d, <1>e, <1>g, <1>h, <1>i, <2>1, <2>2
<1>9. ASSUME NEW o \in Orders, PollWrite(o) PROVE TypeOK'
  <2>1. /\ poll[o].seen # None /\ rows' = [rows EXCEPT ![o] = poll[o].seen]
        /\ UNCHANGED <<call, brk, queued, taken, listening, book>>
        /\ UNCHANGED <<loaded, cancel, swept>>
        /\ UNCHANGED <<switch, bounds>>
    BY <1>9, Zenon DEF PollWrite, switch
  <2>2. PollOK'
    BY <1>0, <1>9, PollEffect DEF PollOK
  <2>3. poll[o].seen \in Statuses \cup {None}
    BY <1>0 DEF PollRecord
  <2>4. RowsOK'
    BY <1>a, <2>1, <2>3 DEF RowsOK
  <2> QED BY <1>b, <1>c, <1>d, <1>g, <1>h, <1>i, <2>1, <2>2, <2>4
<1>p. ASSUME NEW o \in Orders, CancelLoad(o) PROVE TypeOK'
  <2>1. /\ UNCHANGED <<call, brk, queued, taken, listening, book, rows, poll, swept>>
        /\ UNCHANGED <<cancel, switch, bounds>> /\ loaded' = [loaded EXCEPT ![o] = rows[o]]
    BY <1>p, Zenon DEF CancelLoad
  <2>2. CancelOK'
    BY <1>a, <2>1 DEF CancelOK, RowsOK
  <2> QED BY <1>b, <1>c, <1>d, <1>e, <1>f, <1>h, <1>i, <2>1, <2>2
<1>10. ASSUME NEW o \in Orders, CancelSend(o) PROVE TypeOK'
  <2>1. /\ UNCHANGED <<call, brk, queued, taken, listening, rows, poll, loaded, swept>>
        /\ UNCHANGED <<switch, bounds>> /\ book[o] \in Working
    BY <1>10, Zenon DEF CancelSend
  <2>2. PICK s \in TERMINAL_STATUSES \cup {book[o]} :
          /\ book' = [book EXCEPT ![o] = s]
          /\ cancel' = [cancel EXCEPT ![o] = IF s = loaded[o] THEN "over" ELSE s]
    BY <1>10, Zenon DEF CancelSend
  <2>3. s \in Statuses
    BY <2>1, <2>2 DEF Statuses, TERMINAL_STATUSES
  <2>4. BookOK' /\ CancelOK'
    BY <1>a, <2>1, <2>2, <2>3 DEF BookOK, CancelOK
  <2> QED BY <1>b, <1>c, <1>e, <1>f, <1>h, <1>i, <2>1, <2>4
<1>11. ASSUME NEW o \in Orders, CancelWrite(o) PROVE TypeOK'
  <2>1. /\ cancel[o] \in Statuses /\ rows' = [rows EXCEPT ![o] = cancel[o]]
        /\ cancel' = [cancel EXCEPT ![o] = "over"]
        /\ UNCHANGED <<call, brk, queued, taken, listening, book>>
        /\ UNCHANGED <<poll, loaded, swept>>
        /\ UNCHANGED <<switch, bounds>>
    BY <1>11, Zenon DEF CancelWrite
  <2>2. RowsOK' /\ CancelOK'
    BY <1>a, <2>1 DEF RowsOK, CancelOK
  <2> QED BY <1>b, <1>c, <1>d, <1>f, <1>h, <1>i, <2>1, <2>2
<1>12. ASSUME NEW o \in Orders, BrokerMoves(o) PROVE TypeOK'
  <2>1. /\ \E s \in Statuses : book' = [book EXCEPT ![o] = s]
        /\ UNCHANGED <<call, brk, queued, taken, listening, rows, poll, loaded, cancel, swept>>
        /\ UNCHANGED <<switch, bounds>>
    BY <1>12, Zenon DEF BrokerMoves, records
  <2>2. BookOK'
    BY <1>a, <2>1 DEF BookOK
  <2> QED BY <1>b, <1>c, <1>e, <1>f, <1>g, <1>h, <1>i, <2>1, <2>2
<1>13. ASSUME TripFlag PROVE TypeOK'
  <2>1. /\ UNCHANGED <<call, brk, queued, taken, listening, book>>
        /\ UNCHANGED <<rows, poll, loaded, cancel, swept>>
        /\ UNCHANGED <<found, audited, restarts>> /\ tripped' = TRUE /\ sweeping' = "flagged"
        /\ trips < MaxTrips /\ trips' = trips + 1
    BY <1>13, Zenon DEF TripFlag, records
  <2>2. SwitchOK' /\ BoundsOK'
    BY <1>a, <2>1 DEF SwitchOK, BoundsOK
  <2> QED BY <1>b, <1>c, <1>d, <1>e, <1>f, <1>g, <2>1, <2>2
<1>q. ASSUME TripRead PROVE TypeOK'
  <2>1. /\ UNCHANGED <<call, brk, queued, taken, listening, book, rows, poll, swept>>
        /\ UNCHANGED <<loaded, cancel, tripped, audited, bounds>> /\ sweeping' = "read"
        /\ found' = {o \in Orders : rows[o] = "PENDING"}
    BY <1>q, Zenon DEF TripRead, records
  <2>2. SwitchOK'
    BY <1>a, <2>1 DEF SwitchOK
  <2> QED BY <1>b, <1>c, <1>d, <1>e, <1>f, <1>g, <1>i, <2>1, <2>2
<1>14. ASSUME TripCommit PROVE TypeOK'
  <2>1. /\ UNCHANGED <<call, brk, queued, taken, listening, book, poll, loaded, cancel>>
        /\ UNCHANGED <<tripped, bounds>> /\ sweeping' = "idle" /\ audited' = "tripped"
        /\ rows' = [o \in Orders |-> IF o \in found THEN "CANCELLED" ELSE rows[o]]
        /\ swept' = swept \cup found /\ found' = {}
    BY <1>14, Zenon DEF TripCommit
  <2>2. found \subseteq Orders
    BY <1>a DEF SwitchOK
  <2>3. RowsOK'
    BY <1>a, <2>1, <2>2 DEF RowsOK, Statuses, TERMINAL_STATUSES
  <2>4. SwitchOK'
    BY <1>a, <2>1 DEF SwitchOK
  <2> QED BY <1>b, <1>c, <1>d, <1>f, <1>g, <1>i, <2>1, <2>3, <2>4
<1>15. ASSUME reset PROVE TypeOK'
  <2>1. /\ UNCHANGED <<call, brk, queued, taken, listening, book>>
        /\ UNCHANGED <<rows, poll, loaded, cancel, swept>>
        /\ UNCHANGED <<sweeping, found, bounds>> /\ tripped' = FALSE /\ audited' = "armed"
    BY <1>15, Zenon DEF reset, records
  <2>2. SwitchOK'
    BY <1>a, <2>1 DEF SwitchOK
  <2> QED BY <1>b, <1>c, <1>d, <1>e, <1>f, <1>g, <1>i, <2>1, <2>2
<1>16. ASSUME Relisten PROVE TypeOK'
  <2>1. /\ UNCHANGED <<call, brk, queued, taken, book, rows, poll, loaded, cancel, swept>>
        /\ UNCHANGED <<switch, bounds>> /\ listening' = TRUE
    BY <1>16, Zenon DEF Relisten, records
  <2>2. PlacingOK'
    BY <1>a, <2>1 DEF PlacingOK
  <2> QED BY <1>b, <1>d, <1>e, <1>f, <1>g, <1>h, <1>i, <2>1, <2>2
<1>17. ASSUME Restart PROVE TypeOK'
  <2>1. /\ restarts < MaxRestarts /\ restarts' = restarts + 1
        /\ call' = [o \in Orders |->
              IF call[o].at \in InFlight THEN [call[o] EXCEPT !.at = "lost"] ELSE call[o]]
        /\ brk' = [b \in Breakers |-> Fresh(brk[b].fallback)]
        /\ queued' = {} /\ poll' = [o \in Orders |-> NoPoll]
        /\ cancel' = [o \in Orders |->
              IF loaded[o] # None THEN "over" ELSE None]
        /\ tripped' = FALSE /\ sweeping' = "idle" /\ found' = {} /\ listening' = TRUE
        /\ UNCHANGED <<taken, book, rows, loaded, swept, audited, trips>>
    BY <1>17, Zenon DEF Restart
  <2>2. call' \in [Orders -> CallRecord]
    BY <1>0, <2>1 DEF CallRecord, Settled
  <2>3. brk' \in [Breakers -> BreakerRecord]
    BY <1>0, <2>1 DEF BreakerRecord, Fresh
  <2>4. PlacingOK'
    BY <1>a, <2>1, <2>2, <2>3 DEF PlacingOK
  <2>5. PollOK' /\ CancelOK'
    BY <1>a, <2>1 DEF PollOK, CancelOK, PollRecord
  <2>6. SwitchOK'
    BY <1>a, <2>1, Zenon DEF SwitchOK
  <2>7. BoundsOK'
    BY <1>a, <2>1 DEF BoundsOK
  <2> QED BY <1>b, <1>d, <1>e, <2>1, <2>4, <2>5, <2>6, <2>7
<1>18. CASE UNCHANGED vars
  BY <1>18, <1>b, <1>c, <1>d, <1>e, <1>f, <1>g, <1>h, <1>i DEF vars, switch, bounds
<1> QED
  BY <1>1, <1>2, <1>3, <1>4, <1>5, <1>6, <1>7, <1>7a, <1>8, <1>9,
     <1>10, <1>11, <1>12, <1>13, <1>14, <1>15, <1>16, <1>17, <1>18, <1>p, <1>q DEF Next, Place

(* IInv is inductive, so it holds in every reachable state.                *)
THEOREM Inductive == Spec => []IInv
<1>1. IInv /\ [Next]_vars => IInv'
  BY NextAck, NextBlind, NextTruth, NextCircuit, NextManual, NextTypeOK DEF IInv
<1> QED BY InitIInv, <1>1, PTL DEF Spec

(* Every variable keeps its type: in particular the attempts of a signal's *)
(* order never exceed max_retries, whatever the brokers answer.            *)
THEOREM LiveTypeCorrect == Spec => []TypeOK
<1>1. IInv => TypeOK
  BY DEF IInv
<1> QED BY Inductive, <1>1, PTL

(* The state of every circuit agrees with its failure count.               *)
THEOREM CircuitCorrect == Spec => []CircuitMatchesFailures
<1>1. IInv => CircuitMatchesFailures
  BY DEF IInv
<1> QED BY Inductive, <1>1, PTL

(* A terminal row the kill switch did not write agrees with the broker.    *)
THEOREM TerminalRowsAreTrue == Spec => []TerminalRowIsTrue
<1>1. IInv => TerminalRowIsTrue
  BY DEF IInv
<1> QED BY Inductive, <1>1, PTL

(* No manual order reaches the fallback broker or a queue, for every       *)
(* failure threshold above one.                                            *)
THEOREM ManualNeverFailsOver == Spec => []ManualOrderNeverFailsOver
<1>1. IInv => ManualOrderNeverFailsOver
  BY DEF IInv
<1> QED BY Inductive, <1>1, PTL

(* The row of a failed-over order stays PENDING until a kill switch sweeps it.*)
THEOREM FailedOverRowsAreBlind == Spec => []FailedOverRowIsBlind
<1>1. IInv => FailedOverRowIsBlind
  BY DEF IInv
<1> QED BY Inductive, <1>1, PTL

(* No retry and no failover repeats an order that a broker has acknowledged.*)
THEOREM NeverRepeats == Spec => NeverRepeatsAKnownOrder
<1>1. IInv /\ [Next]_vars =>
        [\A o \in Orders : taken'[o] > taken[o] => call[o].venue = None]_vars
  <2> SUFFICES ASSUME IInv, Next, NEW p \in Orders, taken'[p] > taken[p]
               PROVE  call[p].venue = None
    BY DEF vars
  <2>0. taken \in [Orders -> Nat] /\ ~(taken[p] > taken[p])
    BY DEF IInv, TypeOK
  <2>1. ASSUME NEW o \in Orders, PrimaryReply(o) \/ FallbackReply(o)
        PROVE  call[p].venue = None
    <3>1. call[o].at \in {"primary", "fallback"} /\ \E reply \in Replies : Taken(o, reply)
      BY <2>1, Zenon DEF PrimaryReply, FallbackReply
    <3>2. p = o
      BY <2>0, <3>1 DEF Taken
    <3> QED BY <3>1, <3>2 DEF IInv, AckComesFirst, Unanswered
  <2>2. (\E o \in Orders : PrimaryReply(o) \/ FallbackReply(o)) \/ taken' = taken
    BY Zenon DEF Next, Place, Gate, Route, Backoff, Record, RecordFails, Cool, PollRead, PollWrite,
         CancelLoad, CancelSend, CancelWrite, BrokerMoves, TripFlag, TripRead,
         TripCommit, reset, Relisten, Restart
  <2> QED BY <2>0, <2>1, <2>2
<1> QED BY Inductive, <1>1, PTL DEF Spec, NeverRepeatsAKnownOrder
=============================================================================
