----------------------------- MODULE GoLiveGate -----------------------------
(* Shadow mode and the go-live readiness gate of one strategy: order attempts against
   a broker's sandbox (or its payload builder), recorded day by day, the strategy's
   paper trades and its backtests, and the four conditions computed from them. *)
EXTENDS Naturals, Sequences, FiniteSets

CONSTANTS
  Brokers,        \* brokers a shadow order can be attempted with
  MinTradeCount, MinCalendarDays, MinCleanDays,   \* the gate's thresholds
  Tolerance,      \* WIN_RATE_DIVERGENCE_TOLERANCE, in tenths
  WinRates,       \* backtested win rates, in tenths
  LastDay,        \* bound on days
  MaxPaperTrades, \* bound on paper trades
  MaxCodeVersions \* bound on versions of the strategy

ASSUME GateBounds ==
  /\ MinTradeCount \in Nat /\ MinCalendarDays \in Nat /\ MinCleanDays \in Nat
  /\ WinRates \subseteq 0 .. 10 /\ LastDay \in Nat \ {0}

VARIABLES
  today,       \* the calendar
  configured,  \* brokers with an adapter
  attempts,    \* SHADOW_MODE_ATTEMPTS: outcomes of each day
  paperTrades, \* PaperTrade rows, in order of execution
  codeVersion, \* the strategy's current version
  winRate,     \* the latest backtested win rate of each version, if any
  lastError,   \* history: the last day on which an attempt failed
  cleanSince   \* history: days with an attempt since then

gateVars == <<today, configured, attempts, paperTrades, codeVersion, winRate, lastError, cleanSince>>

GateInit ==
  /\ today = 1 /\ configured = Brokers /\ attempts = [d \in 1 .. LastDay |-> {}] /\ paperTrades = <<>>
  /\ codeVersion = 1 /\ winRate = [v \in 1 .. MaxCodeVersions |-> {}]
  /\ lastError = 0 /\ cleanSince = {}

-----------------------------------------------------------------------------
(* compute_daily_summary and consecutive_clean_days: days without an attempt do not occur *)

(* Mutant: one validated order makes the day clean. *)
CleanDay_AnyValidated(outcomes) == "Validated" \in outcomes

CleanDay(outcomes) == \A o \in outcomes : o = "Validated"

RecordedDays == {d \in 1 .. LastDay : attempts[d] # {}}
Latest(k) == {d \in RecordedDays : Cardinality({e \in RecordedDays : e > d}) < k}
ConsecutiveCleanDays ==
  CHOOSE k \in 0 .. Cardinality(RecordedDays) :
    /\ \A d \in Latest(k) : CleanDay(attempts[d])
    /\ k = Cardinality(RecordedDays) \/ \E d \in Latest(k + 1) : ~CleanDay(attempts[d])

TradeCountCondition == Cardinality({i \in DOMAIN paperTrades : paperTrades[i].filled}) >= MinTradeCount
CalendarSpanCondition ==
  paperTrades # <<>> /\ paperTrades[Len(paperTrades)].day - paperTrades[1].day >= MinCalendarDays
ShadowModeCondition == ConsecutiveCleanDays >= MinCleanDays

(* |wins / closes - backtest| <= tolerance *)
PerformanceDivergenceCondition ==
  LET closes(r) == Cardinality({i \in DOMAIN paperTrades : paperTrades[i].result \in r})
      all == closes({"win", "loss"})
  IN all > 0 /\ \E rate \in winRate[codeVersion] :
       /\ 10 * closes({"win"}) <= (rate + Tolerance) * all
       /\ rate * all <= 10 * closes({"win"}) + Tolerance * all

GateMet == TradeCountCondition /\ CalendarSpanCondition /\ ShadowModeCondition /\ PerformanceDivergenceCondition

-----------------------------------------------------------------------------
(* An Upstox order goes to the real sandbox and may fail there; for Zerodha only the
   payload is built, which fails on a product it cannot map. *)
AttemptOrder(b) == {"Validated", "Error"}

(* Every outcome is recorded. *)
RunOneShadowModeAttempt(b) ==
  \E outcome \in AttemptOrder(b) :
    /\ b \in configured
    /\ attempts' = [attempts EXCEPT ![today] = @ \cup {outcome}]
    /\ lastError' = IF outcome = "Error" THEN today ELSE lastError
    /\ cleanSince' = IF outcome = "Error" THEN {} ELSE IF lastError = today THEN cleanSince ELSE cleanSince \cup {today}
    /\ UNCHANGED <<today, configured, paperTrades, codeVersion, winRate>>

(* Brokers without an adapter are skipped.  A cycle that fails before the first attempt,
   while it asks the broker for the instrument, leaves no row of the day. *)
DailyBrokers == configured
RunShadowModeDailyCycle == \E b \in DailyBrokers : RunOneShadowModeAttempt(b)
Attempt == \E b \in Brokers : RunOneShadowModeAttempt(b)

PaperTradeExecuted(filled, result) ==
  /\ Len(paperTrades) < MaxPaperTrades /\ (~filled => result = "open")
  /\ paperTrades' = Append(paperTrades, [day |-> today, filled |-> filled, result |-> result])
  /\ UNCHANGED <<today, configured, attempts, codeVersion, winRate, lastError, cleanSince>>

BacktestRecorded(rate) ==
  /\ winRate' = [winRate EXCEPT ![codeVersion] = {rate}]
  /\ UNCHANGED <<today, configured, attempts, paperTrades, codeVersion, lastError, cleanSince>>

(* A suggestion is applied: new code, the trades stay the strategy's. *)
NewCodeVersion ==
  /\ codeVersion < MaxCodeVersions /\ codeVersion' = codeVersion + 1
  /\ UNCHANGED <<today, configured, attempts, paperTrades, winRate, lastError, cleanSince>>

ConfigureBroker(b) ==
  /\ configured' = IF b \in configured THEN configured \ {b} ELSE configured \cup {b}
  /\ UNCHANGED <<today, attempts, paperTrades, codeVersion, winRate, lastError, cleanSince>>

TradingDayEnds ==
  /\ today < LastDay /\ today' = today + 1
  /\ UNCHANGED <<configured, attempts, paperTrades, codeVersion, winRate, lastError, cleanSince>>

GateNext ==
  \/ RunShadowModeDailyCycle \/ Attempt \/ \E b \in Brokers : ConfigureBroker(b)
  \/ \E filled \in BOOLEAN, result \in {"open", "win", "loss"} : PaperTradeExecuted(filled, result)
  \/ \E rate \in WinRates : BacktestRecorded(rate)
  \/ NewCodeVersion \/ TradingDayEnds

GateSpec == GateInit /\ [][GateNext]_gateVars

(* The gate never opens on a broken record: since the last attempt that failed there
   have been orders on MinCleanDays further days, later ones of a day in which one
   failed not counted, and the current code has a backtest of its own. *)
GateNeedsCleanDays ==
  GateMet => Cardinality(cleanSince) >= MinCleanDays /\ winRate[codeVersion] # {}
=============================================================================
