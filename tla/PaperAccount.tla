---------------------------- MODULE PaperAccount ----------------------------
(* The paper account and one equity strategy trading on it.  Three processes
   write one ledger: the API process runs the daily cycle (from cron and from
   "Run now") and serves manual trades; the worker
   watches ticks and fires the stop-loss.  The two processes hold separate
   copies of the paper kill switch; nothing ever updates the worker's.

   Prices are whole numbers of the smallest unit of money.  Average costs are not:
   amounts that derive from them are exact fractions, with the denominator beside
   them, where the code has floats.                                           *)
EXTENDS Integers

CONSTANTS
  Cycles,        \* daily cycles in flight: the cron run and a manual one
  Prices,        \* quotes
  Capital,       \* Account.capital_allocated
  MaxOrder,      \* largest manual order
  MaxFills       \* bound on the ledger

ASSUME PaperBounds ==
  /\ Prices \subseteq Nat \ {0} /\ Capital \in Nat \ {0} /\ MaxFills \in Nat /\ MaxOrder \in Nat

VARIABLES
  book,        \* replay_ledger of the ledger so far, and the money it moved
  price,       \* the market
  cycle,       \* daily cycles
  stop,        \* the worker's pipeline of the strategy
  inflight,    \* the order the tick listener is awaiting
  listening,   \* the listener task is alive
  switch,      \* the API process's paper kill switch
  trading,     \* the strategy is in PaperTrading
  fills,       \* length of the ledger
  disturbed    \* history: somebody else traded, or an order of the pipeline was not filled

paperVars == <<book, price, cycle, stop, inflight, listening, switch, trading, fills, disturbed>>

Whole(n) == [num |-> n, den |-> 1]
NoCycle == [phase |-> "idle", capital |-> Whole(0), signed |-> 0]
NoStop == [on |-> FALSE, open |-> FALSE, qty |-> 0, entry |-> Whole(0)]

PaperInit ==
  /\ book = [net |-> 0, cost |-> 0, realized |-> 0, per |-> 1, paid |-> 0]
  /\ price \in Prices
  /\ cycle = [c \in Cycles |-> NoCycle]
  /\ stop = NoStop /\ inflight = 0 /\ listening = TRUE
  /\ switch = [tripped |-> FALSE, peak |-> {}]
  /\ trading = TRUE /\ fills = 0 /\ disturbed = FALSE

-----------------------------------------------------------------------------
(* Accounting *)

Abs(n) == IF n < 0 THEN -n ELSE n
Least(a, b) == IF a < b THEN a ELSE b

(* Mutant: what is left of a reversed position keeps the old cost. *)
ReplayLedger_KeepsCost(b, q, p) ==
  LET net == b.net + q
      adds == b.net = 0 \/ (b.net > 0) = (q > 0)
      closing == Least(Abs(q), Abs(b.net))
  IN [net  |-> net, paid |-> b.paid + q * p,
      per  |-> IF adds THEN b.per * Abs(net) ELSE b.per,
      cost |-> IF adds THEN b.cost * Abs(b.net) + p * b.per * Abs(q) ELSE b.cost,
      realized |-> IF adds THEN b.realized * Abs(net)
                   ELSE b.realized + (IF b.net > 0 THEN 1 ELSE -1) * (p * b.per - b.cost) * closing]

(* One fill of q signed shares at p: opening or adding averages the cost,
   reducing realises, and what is left of a reversal opens at p.  Cost and realised
   profit are counted in parts, per of which are one unit of money. *)
ReplayLedger(b, q, p) ==
  LET net == b.net + q
      adds == b.net = 0 \/ (b.net > 0) = (q > 0)
      closing == Least(Abs(q), Abs(b.net))
  IN [net  |-> net, paid |-> b.paid + q * p,
      per  |-> IF adds THEN b.per * Abs(net) ELSE b.per,
      cost |-> IF adds THEN b.cost * Abs(b.net) + p * b.per * Abs(q)
               ELSE IF net # 0 /\ (net > 0) # (b.net > 0) THEN p * b.per ELSE b.cost,
      realized |-> IF adds THEN b.realized * Abs(net)
                   ELSE b.realized + (IF b.net > 0 THEN 1 ELSE -1) * (p * b.per - b.cost) * closing]

(* A cash position blocks no margin; without a quote it has no unrealised part. *)
Unrealized(quoted) == IF quoted THEN (price * book.per - book.cost) * book.net ELSE 0
AccountEquity(quoted) ==
  [num |-> Capital * book.per + book.realized + Unrealized(quoted), den |-> book.per]

(* simulate_fill walks the depth and may fill less than was asked. *)
FillSizes(signed) == IF signed > 0 THEN 1 .. signed ELSE signed .. -1

(* execute_paper_trade: the fill is committed at the quote of the moment. *)
ExecutePaperTrade(q) ==
  /\ fills < MaxFills
  /\ fills' = fills + 1
  /\ book' = ReplayLedger(book, q, price)

TradedByOthers == disturbed' = (disturbed \/ stop.on)

-----------------------------------------------------------------------------
(* The kill switch of the API process *)

(* MaxDrawdownKillSwitch.update with DEFAULT_KILL_SWITCH_THRESHOLD = 0.15 *)
UpdatedSwitch(equity) ==
  LET peak == IF \A p \in switch.peak : equity.num * p.den > p.num * equity.den THEN equity
              ELSE CHOOSE p \in switch.peak : TRUE
      fallen == peak.num * equity.den - equity.num * peak.den
  IN [peak |-> {peak},
      tripped |-> switch.tripped \/ (peak.num > 0 /\ fallen * 100 >= 15 * peak.num * equity.den)]

(* kill_switch_service.is_tripped() is the switch of LiveOrders, here an input. *)
IsPaperTradingHalted(sw, production) == sw.tripped \/ production

ResetPaperSwitch ==
  /\ switch.tripped
  /\ switch' = [tripped |-> FALSE, peak |-> {}]
  /\ UNCHANGED <<book, price, cycle, stop, inflight, listening, trading, fills, disturbed>>

-----------------------------------------------------------------------------
(* The daily cycle *)

(* Up to update_and_check, which is fed an equity with or without a quote. *)
DailyGate(c) ==
  /\ cycle[c].phase = "idle" /\ trading
  /\ \E quoted, production \in BOOLEAN :
       /\ switch' = UpdatedSwitch(AccountEquity(quoted))
       /\ cycle' = IF IsPaperTradingHalted(switch', production) THEN cycle
                   ELSE [cycle EXCEPT ![c] = [phase |-> "gated", capital |-> AccountEquity(quoted), signed |-> 0]]
  /\ UNCHANGED <<book, price, stop, inflight, listening, trading, fills, disturbed>>

(* The whole account in shares of the last close, which may be another price. *)
PositionSizes(capital) == {capital.num \div (capital.den * p) : p \in Prices}

(* _process_strategy reads the ledger and decides; the order comes later. *)
DailyDecide(c) ==
  /\ cycle[c].phase = "gated"
  /\ \/ cycle' = [cycle EXCEPT ![c] = NoCycle]    \* skipped, or no transition
     \/ \E n \in PositionSizes(cycle[c].capital) :
          /\ book.net <= 0 /\ n > 0
          /\ cycle' = [cycle EXCEPT ![c].phase = "decided", ![c].signed = n]
     \/ /\ book.net > 0
        /\ cycle' = [cycle EXCEPT ![c].phase = "decided", ![c].signed = -book.net]
  /\ UNCHANGED <<book, price, stop, inflight, listening, switch, trading, fills, disturbed>>

DailyFill(c) ==
  /\ cycle[c].phase = "decided"
  /\ \E q \in FillSizes(cycle[c].signed) : ExecutePaperTrade(q)
  /\ cycle' = [cycle EXCEPT ![c] = NoCycle] /\ TradedByOthers
  /\ UNCHANGED <<price, stop, inflight, listening, switch, trading>>

DailyFails(c) ==
  /\ cycle[c].phase = "decided"
  /\ cycle' = [cycle EXCEPT ![c] = NoCycle]
  /\ UNCHANGED <<book, price, stop, inflight, listening, switch, trading, fills, disturbed>>

(* POST /paper-trading/execute asks no switch. *)
Execute(signed) ==
  /\ \E q \in FillSizes(signed) : ExecutePaperTrade(q)
  /\ TradedByOthers
  /\ UNCHANGED <<price, cycle, stop, inflight, listening, switch, trading>>

-----------------------------------------------------------------------------
(* The worker *)

(* Every 60 s: a pipeline for a long position that has none, none for a strategy
   that left PaperTrading. *)
SyncPipelines ==
  /\ IF trading THEN /\ ~stop.on /\ book.net > 0
                     /\ stop' = [on |-> TRUE, open |-> TRUE, qty |-> book.net, entry |-> [num |-> book.cost, den |-> book.per]]
                     /\ disturbed' = (inflight # 0)
     ELSE stop.on /\ stop' = NoStop /\ disturbed' = FALSE
  /\ UNCHANGED <<book, price, cycle, inflight, listening, switch, trading, fills>>

MarketCloses ==
  /\ stop.on /\ stop' = NoStop /\ disturbed' = FALSE
  /\ UNCHANGED <<book, price, cycle, inflight, listening, switch, trading, fills>>

(* Strategy.max_drawdown_limit at its default of 15 per cent *)
StopHit == (stop.entry.num - price * stop.entry.den) * 100 >= 15 * stop.entry.num

(* Mutant: the re-entry leaves the position marked as stopped out. *)
SignalGenerator_StaysFlat ==
  \/ /\ stop.open /\ StopHit
     /\ stop' = [stop EXCEPT !.open = FALSE] /\ inflight' = -stop.qty
  \/ /\ ~stop.open /\ price * stop.entry.den >= stop.entry.num
     /\ stop' = [stop EXCEPT !.entry = Whole(price)] /\ inflight' = stop.qty

(* The state flips with the signal, before the order is sent. *)
SignalGenerator ==
  \/ /\ stop.open /\ StopHit
     /\ stop' = [stop EXCEPT !.open = FALSE] /\ inflight' = -stop.qty
  \/ /\ ~stop.open /\ price * stop.entry.den >= stop.entry.num
     /\ stop' = [stop EXCEPT !.open = TRUE, !.entry = Whole(price)] /\ inflight' = stop.qty

(* handle_tick up to the quote it awaits: the risk checks look at this process's
   switch, which is never fed an equity. *)
HandleTick ==
  /\ listening /\ inflight = 0 /\ stop.on
  /\ SignalGenerator
  /\ UNCHANGED <<book, price, cycle, listening, switch, trading, fills, disturbed>>

TickFill ==
  /\ inflight # 0
  /\ \E q \in FillSizes(inflight) :
       /\ ExecutePaperTrade(q)
       /\ disturbed' = (disturbed \/ (stop.on /\ q # inflight))
  /\ inflight' = 0
  /\ UNCHANGED <<price, cycle, stop, listening, switch, trading>>

(* What execute_paper_trade raises ends the listener task; nobody restarts it. *)
TickFails ==
  /\ inflight # 0
  /\ inflight' = 0 /\ listening' = FALSE /\ disturbed' = (disturbed \/ stop.on)
  /\ UNCHANGED <<book, price, cycle, stop, switch, trading, fills>>

WorkerRestarts ==
  /\ stop' = NoStop /\ inflight' = 0 /\ listening' = TRUE /\ disturbed' = FALSE
  /\ UNCHANGED <<book, price, cycle, switch, trading, fills>>

-----------------------------------------------------------------------------
PriceMoves ==
  /\ price' \in Prices \ {price}
  /\ UNCHANGED <<book, cycle, stop, inflight, listening, switch, trading, fills, disturbed>>

StatusChanges ==
  /\ trading' = ~trading
  /\ UNCHANGED <<book, price, cycle, stop, inflight, listening, switch, fills, disturbed>>

PaperNext ==
  \/ PriceMoves \/ StatusChanges \/ ResetPaperSwitch
  \/ \E c \in Cycles : DailyGate(c) \/ DailyDecide(c) \/ DailyFill(c) \/ DailyFails(c)
  \/ \E n \in 1 .. MaxOrder : Execute(n) \/ Execute(-n)
  \/ SyncPipelines \/ MarketCloses \/ HandleTick \/ TickFill \/ TickFails \/ WorkerRestarts

PaperSpec == PaperInit /\ [][PaperNext]_paperVars

-----------------------------------------------------------------------------
(* replay_ledger accounts for all the money, through partial closes, reversals
   and short positions in any order: realised profit is what was received plus
   what the open position cost. *)
LedgerBalances == book.realized = book.net * book.cost - book.paid * book.per

(* The worker protects what is there: unless somebody else traded the strategy
   since the pipeline was opened, or one of its orders was not wholly filled, the
   position it believes in is the one in the ledger. *)
PipelineTracksLedger ==
  stop.on /\ inflight = 0 /\ ~disturbed => book.net = IF stop.open THEN stop.qty ELSE 0

(* The ledger adds up and its readers in other processes have the position right. *)
PaperBooksAgree == LedgerBalances /\ PipelineTracksLedger
=============================================================================
