----------------------------- MODULE MarketData -----------------------------
(* Market data: the scheduled ingestion job and on-demand ingestion requests
   fetch candles through the provider chain and merge them into Parquet
   partitions; the job reports its outcome as the freshness of the dataset, which
   planner, task engine and the daily research cycle ask about.

   The provider a symbol was last fetched from (src/data/provenance.py) is kept for
   display only and left out.  Time is counted in trading days.  On day d the last completed
   one is d - 1.  The partitions of one symbol are read and written as one.              *)
EXTENDS Naturals, Sequences, FiniteSets

CONSTANTS
  Symbols,      \* symbols in the lake or in a strategy's universe
  OnDemand,     \* symbols requested on demand as well
  Chain,        \* the providers in failover order
  MaxAttempts,  \* settings.max_retries
  MaxDay        \* bound on time

(* With no symbol at all an empty job counts as fresh and the cycle is still skipped. *)
ASSUME MarketDataBounds ==
  Symbols # {} /\ OnDemand \subseteq Symbols /\ MaxAttempts \in Nat \ {0} /\ MaxDay \in Nat /\ Len(Chain) > 0

VARIABLES
  day,         \* today
  lake,        \* days present in the partitions of each symbol
  fetcher,     \* the job and an on-demand request
  freshness,   \* the DatasetFreshnessRecord of ohlcv_daily; history: the day the job
               \* took for today, and the symbols it skipped or got short answers for
  torn,        \* symbols with a partition file cut short, which nobody can read
  collided     \* history: two writers were between read and write of one partition

marketVars == <<day, lake, fetcher, freshness, torn, collided>>

Fetchers == {"job", "request"}
NoFetch == [phase |-> "idle", todo |-> {}, sym |-> "none", today |-> 0, start |-> 0, at |-> 1, attempt |-> 1,
            got |-> {}, read |-> {}, failed |-> {}, gaps |-> {}]

MarketInit ==
  /\ day = 1
  /\ lake = [s \in Symbols |-> {}]
  /\ fetcher = [f \in Fetchers |-> NoFetch]
  /\ freshness = [status |-> "unavailable", on |-> 0, asOf |-> 0, gaps |-> {}]
  /\ torn = {} /\ collided = FALSE

LatestDate(s) == IF lake[s] = {} THEN 0 ELSE CHOOSE d \in lake[s] : \A e \in lake[s] : e <= d

NewDay ==
  /\ day < MaxDay /\ day' = day + 1
  /\ UNCHANGED <<lake, fetcher, freshness, torn, collided>>

-----------------------------------------------------------------------------
(* Instrument master: rows missing from the new file become inactive; a failing
   download leaves the table alone.  What is left are the symbols that resolve. *)
InstrumentSync == SUBSET Symbols

(* The job alone looks symbols up in the table, which it has just synced; those that
   do not resolve are skipped. *)
JobStart ==
  /\ fetcher["job"].phase = "idle"
  /\ \E listed \in InstrumentSync :
       fetcher' = [fetcher EXCEPT !["job"] = [NoFetch EXCEPT !.phase = "pick", !.todo = listed,
                                                            !.gaps = Symbols \ listed, !.today = day]]
  /\ UNCHANGED <<day, lake, freshness, torn, collided>>

(* POST /market/ingest/trigger for one symbol, from the first day on; an unlisted
   one is tried by its name. *)
RequestStart(s) ==
  /\ fetcher["request"].phase = "idle"
  /\ fetcher' = [fetcher EXCEPT !["request"] = [NoFetch EXCEPT !.phase = "fetch", !.sym = s, !.start = 1,
                                                           !.today = day]]
  /\ UNCHANGED <<day, lake, freshness, torn, collided>>

(* The next symbol of the job: one with today's bar needs nothing, any other is
   fetched from the day after its last.  A torn partition raises. *)
PickSymbol(s) ==
  LET j == fetcher["job"]
  IN /\ j.phase = "pick" /\ s \in j.todo \ torn
     /\ fetcher' = [fetcher EXCEPT !["job"] =
          IF LatestDate(s) >= j.today THEN [j EXCEPT !.todo = j.todo \ {s}]
          ELSE [j EXCEPT !.todo = j.todo \ {s}, !.sym = s, !.phase = "fetch", !.start = LatestDate(s) + 1,
                         !.at = 1, !.attempt = 1]]
     /\ UNCHANGED <<day, lake, freshness, torn, collided>>

-----------------------------------------------------------------------------
(* MarketDataManager.get_historical_data *)

(* The job goes on to its next symbol; a request is over. *)
Done(f) == IF f = "job"
             THEN [NoFetch EXCEPT !.phase = "pick", !.todo = fetcher[f].todo, !.today = fetcher[f].today,
                                  !.failed = fetcher[f].failed, !.gaps = fetcher[f].gaps]
             ELSE NoFetch

(* Mutant: a symbol no provider had anything for is passed over. *)
Unavailable_PassedOver(f) == Done(f)

(* MarketDataUnavailable: the symbol counts as failed in the job; a request is
   without it, and one whose adapter raises is Failed. *)
Unavailable(f) == IF f = "job" THEN [Done(f) EXCEPT !.failed = @ \cup {fetcher[f].sym}] ELSE Done(f)

NextProvider(f) ==
  IF fetcher[f].at = Len(Chain) THEN Unavailable(f)
  ELSE [fetcher[f] EXCEPT !.at = @ + 1, !.attempt = 1]

(* A failed health check, an error that retrying cannot help, no candles at all,
   or candles that fail validation. *)
ProviderFails(f) ==
  /\ fetcher[f].phase = "fetch"
  /\ fetcher' = [fetcher EXCEPT ![f] = NextProvider(f)]
  /\ UNCHANGED <<day, lake, freshness, torn, collided>>

(* Timeouts, network and server errors and rate limits are retried with backoff. *)
ProviderRetries(f) ==
  /\ fetcher[f].phase = "fetch"
  /\ fetcher' = [fetcher EXCEPT ![f] = IF @.attempt < MaxAttempts
                                         THEN [fetcher[f] EXCEPT !.attempt = fetcher[f].attempt + 1]
                                         ELSE NextProvider(f)]
  /\ UNCHANGED <<day, lake, freshness, torn, collided>>

(* Valid candles run from the first day asked for up to some day, which need not
   be the last completed one.  Yahoo takes the end of the range as exclusive. *)
UpstoxV3Days(start, today) == start .. today
YahooDays(start, today) == start .. today - 1
LastDays(f) ==
  IF Chain[fetcher[f].at] = "yfinance" THEN YahooDays(fetcher[f].start, fetcher[f].today)
                                       ELSE UpstoxV3Days(fetcher[f].start, fetcher[f].today)

ProviderAnswers(f, d) ==
  /\ fetcher[f].phase = "fetch" /\ d \in LastDays(f)
  /\ fetcher' = [fetcher EXCEPT ![f].phase = "merge", ![f].got = fetcher[f].start .. d,
                                ![f].at = 1, ![f].attempt = 1,
                                ![f].gaps = IF f = "job" /\ d < fetcher[f].today - 1 THEN @ \cup {fetcher[f].sym} ELSE @]
  /\ UNCHANGED <<day, lake, freshness, torn, collided>>

-----------------------------------------------------------------------------
(* ParquetLakeWriter: the partition is read, merged in memory and written over the old
   file.  A torn one cannot be read. *)

MergeReads(f) ==
  /\ fetcher[f].phase = "merge" /\ fetcher[f].sym \notin torn
  /\ fetcher' = [fetcher EXCEPT ![f].phase = "write", ![f].read = lake[fetcher[f].sym]]
  /\ collided' = (collided \/ \E g \in Fetchers \ {f} :
                                fetcher[g].phase = "write" /\ fetcher[g].sym = fetcher[f].sym)
  /\ UNCHANGED <<day, lake, freshness, torn>>

(* Mutant: the new rows replace the partition. *)
Merged_Replaces(f) == fetcher[f].got

Merged(f) == fetcher[f].read \cup fetcher[f].got

WritePartition(f) ==
  /\ fetcher[f].phase = "write"
  /\ lake' = [lake EXCEPT ![fetcher[f].sym] = Merged(f)]
  /\ torn' = torn \ {fetcher[f].sym}
  /\ fetcher' = [fetcher EXCEPT ![f] = Done(f)]
  /\ UNCHANGED <<day, freshness, collided>>

(* The disk or the process fails between two partitions, in any order of their months, or
   in the middle of one: the old file is gone by then. *)
WriteInterrupted(f) ==
  LET s == fetcher[f].sym
  IN /\ fetcher[f].phase = "write"
     /\ \/ \E X \in SUBSET fetcher[f].got : lake' = [lake EXCEPT ![s] = @ \cup X] /\ torn' = torn
        \/ lake' = [lake EXCEPT ![s] = {}] /\ torn' = torn \cup {s}
     /\ fetcher' = [fetcher EXCEPT ![f] = [NoFetch EXCEPT !.phase = "raised"]]
     /\ UNCHANGED <<day, freshness, collided>>

(* The process dies, or the job of a request ends as Failed, whatever it was doing. *)
FetcherDies(f) ==
  /\ fetcher[f].phase # "idle"
  /\ fetcher' = [fetcher EXCEPT ![f] = NoFetch]
  /\ UNCHANGED <<day, lake, freshness, torn, collided>>

-----------------------------------------------------------------------------
(* record_ingestion_result *)

RecordIngestionResult(success, clean) ==
  freshness' = IF success /\ clean
                 THEN [status |-> "fresh", on |-> day, asOf |-> fetcher["job"].today, gaps |-> fetcher["job"].gaps]
               ELSE [freshness EXCEPT !.status = IF success THEN "failed" ELSE "unavailable"]

(* Checked and with data is one thing to the job: no symbol failed. *)
JobEnds ==
  /\ fetcher["job"].phase = "pick" /\ fetcher["job"].todo = {}
  /\ RecordIngestionResult(TRUE, fetcher["job"].failed = {})
  /\ fetcher' = [fetcher EXCEPT !["job"] = NoFetch]
  /\ UNCHANGED <<day, lake, torn, collided>>

JobRaises ==
  /\ fetcher["job"].phase # "idle"
  /\ RecordIngestionResult(FALSE, FALSE)
  /\ fetcher' = [fetcher EXCEPT !["job"] = NoFetch]
  /\ UNCHANGED <<day, lake, torn, collided>>

(* is_fresh, with the daily cadence *)
IsFresh == freshness.status = "fresh" /\ freshness.on >= day - 1

CheckFreshness(s) == LatestDate(s) >= day - 1

(* The research cycle asks the lake itself, about the symbols that are in it, and
   creates a run or skips the day. *)
DailyResearchCycle ==
  /\ \E s \in Symbols : lake[s] # {}
  /\ \A s \in Symbols : lake[s] # {} => CheckFreshness(s)

MarketNext ==
  \/ NewDay \/ JobStart \/ JobEnds \/ JobRaises
  \/ (\E s \in Symbols : PickSymbol(s)) \/ (\E s \in OnDemand : RequestStart(s))
  \/ \E f \in Fetchers : \/ ProviderFails(f) \/ ProviderRetries(f) \/ MergeReads(f) \/ WritePartition(f)
                         \/ WriteInterrupted(f) \/ FetcherDies(f)
                         \/ \E d \in 1 .. MaxDay : ProviderAnswers(f, d)

-----------------------------------------------------------------------------
MarketSpec == MarketInit /\ [][MarketNext]_marketVars

(* The lake only grows, and what is called fresh is in it.
   Ingestion only adds: whatever is fetched, retried or fetched twice, no day is lost from
   the lake, unless two writers merged one partition at once or a write was cut short.
   When is_fresh answers yes, every symbol's rows reach the last completed trading day of
   the day its job started on, except symbols the job skipped as unresolvable or got short
   answers for -- which the record does not show -- and rows lost as above.  For a job that
   ended on the day it started this is yesterday's bar or the one before: a record of
   yesterday's job still counts, whose last bar is the day before yesterday's.  And when
   today's job says so of every symbol, once there has been a trading day, the research
   cycle, which asks the lake instead of the record, does not skip the day. *)
LakeHolds ==
  /\ [][\A s \in Symbols : lake[s] \subseteq lake'[s] \/ collided \/ s \in torn']_marketVars
  /\ [](IsFresh /\ ~collided =>
          /\ \A s \in Symbols \ (freshness.gaps \cup torn) :
               /\ LatestDate(s) >= freshness.asOf - 1
               /\ freshness.asOf = freshness.on => LatestDate(s) >= day - 2
          /\ freshness.asOf = day /\ day > 1 /\ freshness.gaps \cup torn = {} => DailyResearchCycle)
=============================================================================
