--------------------------- MODULE TradingProofs ---------------------------
(* Proofs about data and paper trading, for any number of days, symbols, fills and legs:
   the lake and its freshness, the cached bhavcopies, the paper account, the legs of an
   option strategy and the gate before live trading. *)
EXTENDS MarketData, BhavcopyCache, PaperAccount, PaperLegs, GoLiveGate,
        FiniteSetTheorems, WellFoundedInduction, TLAPS

-----------------------------------------------------------------------------
(* MarketData: two writers, one lake, and what is called fresh *)

LEMMA LeastNat ==
    ASSUME NEW T, T \subseteq Nat, T # {}
    PROVE  \E x \in T : \A y \in T : x <= y
<1> DEFINE R == OpToRel(<, Nat)
<1>1. IsWellFoundedOn(R, Nat)
  BY NatLessThanWellFounded, Zenon
<1>2. \A a, b \in Nat : a < b => <<a, b>> \in R
  BY DEF OpToRel
<1> HIDE DEF R
<1>3. PICK x \in T : \A y \in T : ~(<<y, x>> \in R)
  BY <1>1, WFMin
<1>4. \A y \in T : ~(y < x)
  BY <1>2, <1>3
<1> QED BY <1>4

LEMMA GreatestNat ==
    ASSUME NEW T, T \subseteq Nat, T # {}, NEW n \in Nat, \A y \in T : y <= n
    PROVE  \E x \in T : \A y \in T : y <= x
<1> DEFINE U == {k \in Nat : \A y \in T : y <= k}
<1>1. U \subseteq Nat /\ U # {}
  OBVIOUS
<1>2. PICK m \in U : \A k \in U : m <= k
  BY <1>1, LeastNat
<1>3. m \in T
  <2> SUFFICES ASSUME m \notin T PROVE FALSE
    OBVIOUS
  <2>1. \A y \in T : y \in Nat /\ y <= m /\ y # m
    OBVIOUS
  <2>2. PICK y \in T : y \in Nat /\ y <= m /\ y # m
    BY <2>1
  <2>4. m \in Nat /\ m > 0
    BY <2>2
  <2>3. m - 1 \in Nat /\ \A k \in T : k <= m - 1
    BY <2>1, <2>4
  <2> QED BY <1>2, <2>3
<1> QED BY <1>3

Busy == {"fetch", "merge", "write"}

FetchRows ==
  [phase : {"idle", "pick", "fetch", "merge", "write", "raised"}, todo : SUBSET Symbols, sym : Symbols \cup {"none"},
   today : Nat, start : Nat, at : Nat, attempt : Nat, got : SUBSET (1 .. MaxDay),
   read : SUBSET (1 .. MaxDay), failed : SUBSET Symbols, gaps : SUBSET Symbols]

MarketTypeOK ==
  /\ day \in Nat
  /\ lake \in [Symbols -> SUBSET (1 .. MaxDay)]
  /\ fetcher \in [Fetchers -> FetchRows]
  /\ freshness \in [status : {"fresh", "failed", "unavailable"}, on : Nat, asOf : Nat, gaps : SUBSET Symbols]
  /\ torn \subseteq Symbols /\ collided \in BOOLEAN

(* A fetch under way has its symbol, and asks for days from some day on. *)
FetchFor(r) == r.phase \in Busy => r.sym \in Symbols /\ r.start # 0

(* The days S of a partition go up to day k. *)
Reaches(S, k) == k <= 0 \/ \E d \in S : d >= k

(* The symbols a job is done with are up to date, and so is what it is about to store,
   except where it failed, noted a gap or cannot read the file. *)
JobCovers(r, table, lost) ==
  r.phase \notin {"idle", "raised"} =>
    /\ \A s \in Symbols \ (r.todo \cup r.failed \cup r.gaps \cup lost) :
         (r.phase \in Busy /\ s = r.sym) \/ Reaches(table[s], r.today - 1)
    /\ r.phase \in {"merge", "write"} /\ r.sym \notin r.gaps => Reaches(r.got, r.today - 1)

(* A writer that is alone with its partition has read what is there. *)
ReadIsCurrent ==
  /\ \A f \in Fetchers : fetcher[f].phase = "write" =>
       fetcher[f].read = lake[fetcher[f].sym] /\ fetcher[f].sym \notin torn
  /\ \A f, g \in Fetchers :
       fetcher[f].phase = "write" /\ fetcher[g].phase = "write" /\ fetcher[f].sym = fetcher[g].sym => f = g

FreshIsCovered ==
  freshness.status = "fresh" =>
    \A s \in Symbols \ (freshness.gaps \cup torn) : Reaches(lake[s], freshness.asOf - 1)

MarketInv ==
  /\ MarketTypeOK
  /\ \A f \in Fetchers : FetchFor(fetcher[f])
  /\ ~collided => JobCovers(fetcher["job"], lake, torn) /\ ReadIsCurrent /\ FreshIsCovered

LEMMA LatestReaches ==
    ASSUME MarketTypeOK, NEW s \in Symbols, NEW k \in Int
    PROVE  LatestDate(s) \in Nat /\ (LatestDate(s) >= k <=> Reaches(lake[s], k))
<1> DEFINE L == lake[s]
<1>0. MaxDay \in Nat /\ L \subseteq Nat /\ (\A y \in L : y >= 1 /\ y <= MaxDay)
  BY MarketDataBounds DEF MarketTypeOK
<1>1. CASE L = {}
  BY <1>1 DEF LatestDate, Reaches
<1>2. CASE L # {}
  <2>1. \E x \in L : \A y \in L : y <= x
    BY <1>0, <1>2, GreatestNat
  <2>2. LatestDate(s) \in L /\ \A y \in L : y <= LatestDate(s)
    BY <1>2, <2>1 DEF LatestDate
  <2>3. \A n \in Nat : (n \in L /\ \A y \in L : y <= n) => (n >= k <=> Reaches(L, k))
    BY <1>0 DEF Reaches
  <2> QED BY <1>0, <2>2, <2>3
<1> QED BY <1>1, <1>2

LEMMA MarketInitial == MarketInit => MarketInv
<1> SUFFICES ASSUME MarketInit PROVE MarketInv
  OBVIOUS
<1>1. NoFetch \in FetchRows /\ NoFetch.phase = "idle"
  BY DEF NoFetch, FetchRows
<1>2. \A f \in Fetchers : fetcher[f] = NoFetch
  BY DEF MarketInit
<1>3. MarketTypeOK
  BY <1>1 DEF MarketInit, MarketTypeOK
<1>4. JobCovers(fetcher["job"], lake, torn) /\ ReadIsCurrent
  BY <1>1, <1>2 DEF JobCovers, ReadIsCurrent, Fetchers
<1>5. FreshIsCovered
  BY DEF FreshIsCovered, MarketInit
<1> QED BY <1>1, <1>2, <1>3, <1>4, <1>5 DEF MarketInv, FetchFor, Busy

(* One fetcher moves on without touching the lake and without starting to write. *)
LEMMA FetcherMoves ==
    ASSUME MarketInv, NEW f \in Fetchers, NEW r \in FetchRows, fetcher' = [fetcher EXCEPT ![f] = r],
           FetchFor(r), r.phase # "write", f = "job" /\ ~collided => JobCovers(r, lake, torn),
           UNCHANGED <<day, lake, torn, collided>>,
           freshness' = freshness \/
             (/\ freshness' \in [status : {"fresh", "failed", "unavailable"}, on : Nat, asOf : Nat, gaps : SUBSET Symbols]
              /\ ~collided => FreshIsCovered')
    PROVE  MarketInv'
<1>1. /\ fetcher' \in [Fetchers -> FetchRows] /\ fetcher'[f] = r
      /\ \A g \in Fetchers \ {f} : fetcher'[g] = fetcher[g]
  BY DEF MarketInv, MarketTypeOK
<1>2. MarketTypeOK'
  BY <1>1 DEF MarketInv, MarketTypeOK
<1>3. \A g \in Fetchers : FetchFor(fetcher'[g])
  BY <1>1 DEF MarketInv
<1>4. ASSUME ~collided PROVE JobCovers(fetcher'["job"], lake', torn')
  BY <1>1, <1>4 DEF MarketInv, Fetchers
<1>5. ASSUME ~collided PROVE ReadIsCurrent'
  BY <1>1, <1>5 DEF MarketInv, ReadIsCurrent
<1>6. ASSUME ~collided PROVE FreshIsCovered'
  BY <1>6 DEF MarketInv, FreshIsCovered
<1> QED BY <1>2, <1>3, <1>4, <1>5, <1>6 DEF MarketInv
LEMMA RowFields ==
    ASSUME MarketInv, NEW f \in Fetchers
    PROVE  /\ fetcher[f] \in FetchRows /\ fetcher[f].todo \subseteq Symbols /\ fetcher[f].today \in Nat
           /\ fetcher[f].failed \subseteq Symbols /\ fetcher[f].gaps \subseteq Symbols
           /\ fetcher[f].start \in Nat /\ fetcher[f].at \in Nat /\ fetcher[f].attempt \in Nat
           /\ fetcher[f].got \subseteq 1 .. MaxDay /\ fetcher[f].read \subseteq 1 .. MaxDay
           /\ FetchFor(fetcher[f])
           /\ fetcher[f].phase \in Busy => fetcher[f].sym \in Symbols /\ fetcher[f].start \in Nat \ {0}
<1>1. fetcher[f] \in FetchRows /\ FetchFor(fetcher[f])
  BY DEF MarketInv, MarketTypeOK
<1> QED BY <1>1 DEF FetchRows, FetchFor

LEMMA DoneRow ==
    ASSUME MarketInv, NEW f \in Fetchers
    PROVE  /\ Done(f) \in FetchRows /\ FetchFor(Done(f))
           /\ f # "job" => Done(f) = NoFetch
           /\ f = "job" => /\ Done(f).phase = "pick" /\ Done(f).todo = fetcher[f].todo
                           /\ Done(f).today = fetcher[f].today /\ Done(f).failed = fetcher[f].failed
                           /\ Done(f).gaps = fetcher[f].gaps
           /\ Done(f).phase \notin Busy
BY RowFields DEF Done, NoFetch, FetchRows, FetchFor, Busy

(* The job gives up on its symbol and notes it. *)
LEMMA UnavailableRow ==
    ASSUME MarketInv, NEW f \in Fetchers, fetcher[f].phase \in Busy
    PROVE  /\ Unavailable(f) \in FetchRows /\ FetchFor(Unavailable(f)) /\ Unavailable(f).phase \notin Busy
           /\ f = "job" /\ ~collided => JobCovers(Unavailable(f), lake, torn)
<1>1. CASE f # "job"
  BY <1>1, DoneRow DEF Unavailable
<1>2. CASE f = "job"
  <2> DEFINE r == Unavailable(f)
  <2>1. fetcher[f].sym \in Symbols /\ fetcher[f].failed \subseteq Symbols
    BY RowFields
  <2>2. /\ r \in FetchRows /\ r.phase = "pick" /\ r.todo = fetcher[f].todo /\ r.today = fetcher[f].today
        /\ r.failed = fetcher[f].failed \cup {fetcher[f].sym} /\ r.gaps = fetcher[f].gaps
    BY <1>2, <2>1, DoneRow DEF Unavailable, FetchRows
  <2> HIDE DEF r
  <2>3. ASSUME ~collided PROVE JobCovers(r, lake, torn)
    <3>1. JobCovers(fetcher[f], lake, torn) /\ fetcher[f].phase \notin {"idle", "raised"}
      BY <1>2, <2>3 DEF MarketInv, Busy
    <3> QED BY <2>2, <3>1 DEF JobCovers
  <2> QED BY <2>2, <2>3 DEF r, FetchFor, Busy
<1> QED BY <1>1, <1>2

LEMMA NextProviderRow ==
    ASSUME MarketInv, NEW f \in Fetchers, fetcher[f].phase = "fetch"
    PROVE  /\ NextProvider(f) \in FetchRows /\ FetchFor(NextProvider(f)) /\ NextProvider(f).phase # "write"
           /\ f = "job" /\ ~collided => JobCovers(NextProvider(f), lake, torn)
<1>1. CASE fetcher[f].at = Len(Chain)
  BY <1>1, UnavailableRow DEF NextProvider, Busy
<1>2. CASE fetcher[f].at # Len(Chain)
  <2> DEFINE r == NextProvider(f)
  <2>1. /\ r \in FetchRows /\ r.phase = "fetch" /\ r.todo = fetcher[f].todo /\ r.today = fetcher[f].today
        /\ r.failed = fetcher[f].failed /\ r.gaps = fetcher[f].gaps /\ r.sym = fetcher[f].sym
        /\ r.start = fetcher[f].start
    <3>1. r = [fetcher[f] EXCEPT !.at = fetcher[f].at + 1, !.attempt = 1]
      BY <1>2 DEF NextProvider
    <3>2. fetcher[f] \in FetchRows /\ fetcher[f].at + 1 \in Nat
      BY RowFields
    <3> HIDE DEF r
    <3> QED BY <3>1, <3>2 DEF FetchRows
  <2> HIDE DEF r
  <2>2. FetchFor(r) /\ r.phase # "write"
    BY <2>1, RowFields DEF FetchFor, Busy
  <2>3. ASSUME f = "job", ~collided PROVE JobCovers(r, lake, torn)
    <3>1. JobCovers(fetcher[f], lake, torn)
      BY <2>3 DEF MarketInv
    <3> QED BY <2>1, <3>1 DEF JobCovers, Busy
  <2> QED BY <2>1, <2>2, <2>3 DEF r
<1> QED BY <1>1, <1>2

LEMMA ProvidersKeep ==
    ASSUME MarketInv, NEW f \in Fetchers, ProviderFails(f) \/ ProviderRetries(f)
    PROVE  MarketInv'
<1>0. fetcher[f].phase = "fetch" /\ UNCHANGED <<day, lake, freshness, torn, collided>>
  BY DEF ProviderFails, ProviderRetries
<1>1. CASE fetcher' = [fetcher EXCEPT ![f] = NextProvider(f)]
  BY <1>0, <1>1, NextProviderRow, FetcherMoves
<1>2. CASE fetcher' = [fetcher EXCEPT ![f] = [fetcher[f] EXCEPT !.attempt = fetcher[f].attempt + 1]]
  <2> DEFINE r == [fetcher[f] EXCEPT !.attempt = fetcher[f].attempt + 1]
  <2>1. /\ r \in FetchRows /\ r.phase = "fetch" /\ r.todo = fetcher[f].todo /\ r.today = fetcher[f].today
        /\ r.failed = fetcher[f].failed /\ r.gaps = fetcher[f].gaps /\ r.sym = fetcher[f].sym
        /\ r.start = fetcher[f].start
    BY <1>0, RowFields DEF FetchRows
  <2>2. fetcher' = [fetcher EXCEPT ![f] = r]
    BY <1>2
  <2> HIDE DEF r
  <2>3. FetchFor(r) /\ r.phase # "write"
    BY <2>1, <1>0, RowFields DEF FetchFor, Busy
  <2>4. ASSUME f = "job", ~collided PROVE JobCovers(r, lake, torn)
    <3>1. JobCovers(fetcher[f], lake, torn)
      BY <2>4 DEF MarketInv
    <3> QED BY <1>0, <2>1, <3>1 DEF JobCovers, Busy
  <2> QED BY <1>0, <2>1, <2>2, <2>3, <2>4, FetcherMoves
<1>3. \/ fetcher' = [fetcher EXCEPT ![f] = NextProvider(f)]
      \/ fetcher' = [fetcher EXCEPT ![f] = [fetcher[f] EXCEPT !.attempt = fetcher[f].attempt + 1]]
  BY DEF ProviderFails, ProviderRetries
<1> QED BY <1>1, <1>2, <1>3

LEMMA ProviderAnswersKeeps ==
    ASSUME MarketInv, NEW f \in Fetchers, NEW d \in 1 .. MaxDay, ProviderAnswers(f, d)
    PROVE  MarketInv'
<1>0. /\ fetcher[f].phase = "fetch" /\ d \in LastDays(f) /\ UNCHANGED <<day, lake, freshness, torn, collided>>
      /\ d \in Nat /\ MaxDay \in Nat /\ d <= MaxDay /\ fetcher \in [Fetchers -> FetchRows]
  BY MarketDataBounds DEF ProviderAnswers, MarketInv, MarketTypeOK
<1>1. PICK gaps : gaps = IF f = "job" /\ d < fetcher[f].today - 1
                           THEN fetcher[f].gaps \cup {fetcher[f].sym} ELSE fetcher[f].gaps
  OBVIOUS
<1>2. PICK r : r = [fetcher[f] EXCEPT !.phase = "merge", !.got = fetcher[f].start .. d,
                                      !.at = 1, !.attempt = 1, !.gaps = gaps]
  OBVIOUS
<1>3. fetcher' = [fetcher EXCEPT ![f] = r]
  BY <1>0, <1>1, <1>2 DEF ProviderAnswers, FetchRows
<1>4. fetcher[f].sym \in Symbols /\ fetcher[f].start \in Nat /\ fetcher[f].start >= 1 /\ fetcher[f].today \in Nat
  BY <1>0, RowFields DEF Busy
<1>5. gaps \subseteq Symbols /\ fetcher[f].gaps \subseteq gaps /\ gaps \subseteq fetcher[f].gaps \cup {fetcher[f].sym}
  BY <1>1, <1>4, RowFields
<1>6. fetcher[f].start .. d \subseteq 1 .. MaxDay /\ d \in fetcher[f].start .. d
  BY <1>0, <1>4 DEF LastDays, UpstoxV3Days, YahooDays
<1>7. /\ r \in FetchRows /\ r.phase = "merge" /\ r.todo = fetcher[f].todo /\ r.today = fetcher[f].today
      /\ r.failed = fetcher[f].failed /\ r.gaps = gaps /\ r.sym = fetcher[f].sym
      /\ r.start = fetcher[f].start /\ r.got = fetcher[f].start .. d
  BY <1>0, <1>2, <1>5, <1>6 DEF FetchRows
<1>8. FetchFor(r) /\ r.phase # "write"
  BY <1>4, <1>7 DEF FetchFor, Busy
<1>9. ASSUME f = "job", ~collided PROVE JobCovers(r, lake, torn)
  <2>1. JobCovers(fetcher[f], lake, torn) /\ fetcher[f].phase \in Busy
    BY <1>0, <1>9 DEF MarketInv, Busy
  <2>2. r.phase \in Busy /\ r.phase \notin {"idle", "raised"} /\ fetcher[f].phase \notin {"idle", "raised"}
    BY <1>0, <1>7 DEF Busy
  <2>3. \A s \in Symbols \ (r.todo \cup r.failed \cup r.gaps \cup torn) :
         (r.phase \in Busy /\ s = r.sym) \/ Reaches(lake[s], r.today - 1)
    BY <1>5, <1>7, <2>1, <2>2 DEF JobCovers
  <2>4. r.sym \notin r.gaps => Reaches(r.got, r.today - 1)
    <3> SUFFICES ASSUME r.sym \notin r.gaps PROVE Reaches(r.got, r.today - 1)
      OBVIOUS
    <3>1. ~(d < fetcher[f].today - 1)
      BY <1>1, <1>7, <1>9
    <3> QED BY <1>0, <1>4, <1>6, <1>7, <3>1 DEF Reaches
  <2> QED BY <2>3, <2>4 DEF JobCovers
<1> QED BY <1>0, <1>3, <1>7, <1>8, <1>9, FetcherMoves

LEMMA StartsKeep ==
    ASSUME MarketInv, JobStart \/ \E s \in OnDemand : RequestStart(s)
    PROVE  MarketInv'
<1>0. UNCHANGED <<day, lake, freshness, torn, collided>> /\ day \in Nat
  BY DEF JobStart, RequestStart, MarketInv, MarketTypeOK
<1>1. CASE JobStart
  <2>1. PICK listed \in SUBSET Symbols :
          fetcher' = [fetcher EXCEPT !["job"] = [NoFetch EXCEPT !.phase = "pick", !.todo = listed,
                                                               !.gaps = Symbols \ listed, !.today = day]]
    BY <1>1 DEF JobStart, InstrumentSync
  <2>2. PICK r : r = [NoFetch EXCEPT !.phase = "pick", !.todo = listed, !.gaps = Symbols \ listed, !.today = day]
    OBVIOUS
  <2>3. /\ r \in FetchRows /\ r.phase = "pick" /\ r.todo = listed /\ r.gaps = Symbols \ listed
    BY <1>0, <2>2 DEF NoFetch, FetchRows
  <2>4. FetchFor(r) /\ JobCovers(r, lake, torn)
    BY <2>3 DEF FetchFor, JobCovers, Busy
  <2> QED BY <1>0, <2>1, <2>2, <2>3, <2>4, FetcherMoves DEF Fetchers
<1>2. ASSUME NEW s \in OnDemand, RequestStart(s) PROVE MarketInv'
  <2>1. s \in Symbols
    BY MarketDataBounds
  <2>2. PICK r : r = [NoFetch EXCEPT !.phase = "fetch", !.sym = s, !.start = 1, !.today = day]
    OBVIOUS
  <2>3. r \in FetchRows /\ r.phase = "fetch" /\ r.sym = s /\ r.start = 1
    BY <1>0, <2>1, <2>2 DEF NoFetch, FetchRows
  <2>4. fetcher' = [fetcher EXCEPT !["request"] = r]
    BY <1>2, <2>2 DEF RequestStart
  <2>5. FetchFor(r)
    BY <2>1, <2>3 DEF FetchFor
  <2> QED BY <1>0, <2>3, <2>4, <2>5, FetcherMoves DEF Fetchers
<1> QED BY <1>1, <1>2

LEMMA PickSymbolKeeps ==
    ASSUME MarketInv, NEW s \in Symbols, PickSymbol(s)
    PROVE  MarketInv'
<1> DEFINE j == fetcher["job"]
<1>0. /\ UNCHANGED <<day, lake, freshness, torn, collided>> /\ j.phase = "pick" /\ s \in j.todo /\ "job" \in Fetchers
      /\ MarketTypeOK
  BY DEF PickSymbol, MarketInv, Fetchers
<1>1. j \in FetchRows /\ j.today \in Nat /\ j.todo \subseteq Symbols
  BY <1>0, RowFields
<1>2. LatestDate(s) \in Nat /\ (LatestDate(s) >= j.today - 1 <=> Reaches(lake[s], j.today - 1))
  BY <1>0, <1>1, LatestReaches
<1>3. PICK r : /\ fetcher' = [fetcher EXCEPT !["job"] = r]
               /\ \/ LatestDate(s) >= j.today /\ r = [j EXCEPT !.todo = j.todo \ {s}]
                  \/ r = [j EXCEPT !.todo = j.todo \ {s}, !.sym = s, !.phase = "fetch",
                                   !.start = LatestDate(s) + 1, !.at = 1, !.attempt = 1]
  BY DEF PickSymbol
<1>4. CASE LatestDate(s) >= j.today /\ r = [j EXCEPT !.todo = j.todo \ {s}]
  <2>1. /\ r \in FetchRows /\ r.phase = "pick" /\ r.todo = j.todo \ {s} /\ r.today = j.today
        /\ r.failed = j.failed /\ r.gaps = j.gaps
    BY <1>0, <1>1, <1>4 DEF FetchRows
  <2>2. FetchFor(r) /\ r.phase # "write"
    BY <2>1 DEF FetchFor, Busy
  <2>3. ASSUME ~collided PROVE JobCovers(r, lake, torn)
    <3>1. JobCovers(j, lake, torn) /\ j.phase \notin Busy /\ Reaches(lake[s], j.today - 1)
      BY <1>0, <1>1, <1>2, <1>4, <2>3 DEF MarketInv, Busy
    <3> QED BY <1>0, <2>1, <3>1 DEF JobCovers
  <2> QED BY <1>0, <1>3, <2>1, <2>2, <2>3, FetcherMoves
<1>5. CASE r = [j EXCEPT !.todo = j.todo \ {s}, !.sym = s, !.phase = "fetch",
                         !.start = LatestDate(s) + 1, !.at = 1, !.attempt = 1]
  <2>1. /\ r \in FetchRows /\ r.phase = "fetch" /\ r.todo = j.todo \ {s} /\ r.today = j.today
        /\ r.failed = j.failed /\ r.gaps = j.gaps /\ r.sym = s /\ r.start = LatestDate(s) + 1
    <3>1. PICK n \in Nat : n = LatestDate(s) + 1
      BY <1>2
    <3>2. r = [j EXCEPT !.todo = j.todo \ {s}, !.sym = s, !.phase = "fetch", !.start = n, !.at = 1, !.attempt = 1]
      BY <1>5, <3>1
    <3>3. j \in FetchRows /\ j.todo \ {s} \subseteq Symbols
      BY <1>1
    <3> HIDE DEF j
    <3> QED BY <3>1, <3>2, <3>3 DEF FetchRows
  <2>2. FetchFor(r) /\ r.phase # "write"
    BY <1>2, <2>1 DEF FetchFor, Busy
  <2>3. ASSUME ~collided PROVE JobCovers(r, lake, torn)
    <3>1. JobCovers(j, lake, torn) /\ j.phase \notin Busy
      BY <1>0, <2>3 DEF MarketInv, Busy
    <3> QED BY <1>0, <2>1, <3>1 DEF JobCovers, Busy
  <2> QED BY <1>0, <1>3, <2>1, <2>2, <2>3, FetcherMoves
<1> QED BY <1>3, <1>4, <1>5

(* Whoever reads a partition that another writer has already read collides with it. *)
LEMMA MergeReadsKeeps ==
    ASSUME MarketInv, NEW f \in Fetchers, MergeReads(f)
    PROVE  MarketInv'
<1>0. /\ fetcher[f].phase = "merge" /\ UNCHANGED <<day, lake, freshness, torn>> /\ fetcher \in [Fetchers -> FetchRows]
      /\ lake \in [Symbols -> SUBSET (1 .. MaxDay)]
  BY DEF MergeReads, MarketInv, MarketTypeOK
<1>1. fetcher[f].sym \in Symbols /\ fetcher[f] \in FetchRows /\ fetcher[f].start # 0
  BY <1>0, RowFields DEF Busy
<1>2. PICK r : r = [fetcher[f] EXCEPT !.phase = "write", !.read = lake[fetcher[f].sym]]
  OBVIOUS
<1>3. fetcher' = [fetcher EXCEPT ![f] = r]
  BY <1>0, <1>2 DEF MergeReads, FetchRows
<1>4. /\ r \in FetchRows /\ r.phase = "write" /\ r.read = lake[fetcher[f].sym] /\ r.sym = fetcher[f].sym
      /\ r.todo = fetcher[f].todo /\ r.today = fetcher[f].today /\ r.failed = fetcher[f].failed
      /\ r.gaps = fetcher[f].gaps /\ r.got = fetcher[f].got /\ r.start = fetcher[f].start
  BY <1>0, <1>1, <1>2 DEF FetchRows
<1>5. /\ fetcher' \in [Fetchers -> FetchRows] /\ fetcher'[f] = r
      /\ \A g \in Fetchers \ {f} : fetcher'[g] = fetcher[g]
  BY <1>0, <1>3, <1>4
<1>6. collided' \in BOOLEAN /\ (~collided' => ~collided /\ \A g \in Fetchers \ {f} :
                                ~(fetcher[g].phase = "write" /\ fetcher[g].sym = fetcher[f].sym))
  BY DEF MergeReads
<1>7. MarketTypeOK'
  BY <1>0, <1>5, <1>6 DEF MarketInv, MarketTypeOK
<1>8. \A g \in Fetchers : FetchFor(fetcher'[g])
  <2>1. FetchFor(r)
    BY <1>1, <1>4 DEF FetchFor
  <2> QED BY <1>5, <2>1 DEF MarketInv
<1>9. ASSUME ~collided' PROVE JobCovers(fetcher'["job"], lake', torn')
  <2>1. JobCovers(fetcher["job"], lake, torn)
    BY <1>6, <1>9 DEF MarketInv
  <2>2. CASE f = "job"
    BY <1>0, <1>4, <1>5, <2>1, <2>2 DEF JobCovers, Busy
  <2> QED BY <1>0, <1>5, <2>1, <2>2 DEF Fetchers
<1>10. ASSUME ~collided' PROVE ReadIsCurrent'
  <2>1. ReadIsCurrent
    BY <1>6, <1>10 DEF MarketInv
  <2>2. fetcher[f].sym \notin torn
    BY DEF MergeReads
  <2> QED BY <1>0, <1>4, <1>5, <1>6, <1>10, <2>1, <2>2 DEF ReadIsCurrent
<1>11. ASSUME ~collided' PROVE FreshIsCovered'
  BY <1>0, <1>6, <1>11 DEF MarketInv, FreshIsCovered
<1> QED BY <1>7, <1>8, <1>9, <1>10, <1>11 DEF MarketInv

LEMMA ReachesMore ==
    ASSUME NEW S, NEW T, S \subseteq T, NEW k
    PROVE  Reaches(S, k) => Reaches(T, k)
BY DEF Reaches

(* Nothing is lost from the lake by one writer. *)
LEMMA WriteAdds ==
    ASSUME MarketInv, NEW f \in Fetchers, WritePartition(f), ~collided
    PROVE  /\ \A s \in Symbols : lake[s] \subseteq lake'[s]
           /\ lake'[fetcher[f].sym] = lake[fetcher[f].sym] \cup fetcher[f].got
           /\ \A s \in Symbols \ {fetcher[f].sym} : lake'[s] = lake[s]
           /\ torn' = torn
<1>1. fetcher[f].sym \in Symbols
  BY RowFields DEF WritePartition, Busy
<1>2. lake' = [lake EXCEPT ![fetcher[f].sym] = fetcher[f].read \cup fetcher[f].got]
  BY DEF WritePartition, Merged
<1>3. fetcher[f].read = lake[fetcher[f].sym] /\ torn' = torn
  BY DEF WritePartition, MarketInv, ReadIsCurrent
<1>4. lake \in [Symbols -> SUBSET (1 .. MaxDay)]
  BY DEF MarketInv, MarketTypeOK
<1> QED BY <1>1, <1>2, <1>3, <1>4

LEMMA WritePartitionKeeps ==
    ASSUME MarketInv, NEW f \in Fetchers, WritePartition(f)
    PROVE  MarketInv'
<1>0. /\ fetcher[f].phase = "write" /\ UNCHANGED <<day, freshness, collided>> /\ fetcher \in [Fetchers -> FetchRows]
      /\ fetcher' = [fetcher EXCEPT ![f] = Done(f)] /\ lake \in [Symbols -> SUBSET (1 .. MaxDay)]
  BY DEF WritePartition, MarketInv, MarketTypeOK
<1>1. fetcher[f].sym \in Symbols /\ fetcher[f].got \subseteq 1 .. MaxDay /\ fetcher[f].read \subseteq 1 .. MaxDay
  BY <1>0, RowFields DEF Busy
<1>2. /\ fetcher' \in [Fetchers -> FetchRows] /\ fetcher'[f] = Done(f)
      /\ \A g \in Fetchers \ {f} : fetcher'[g] = fetcher[g]
  BY <1>0, DoneRow
<1>3. lake' = [lake EXCEPT ![fetcher[f].sym] = fetcher[f].read \cup fetcher[f].got]
  BY DEF WritePartition, Merged
<1>4. lake' \in [Symbols -> SUBSET (1 .. MaxDay)]
  BY <1>0, <1>1, <1>3
<1>5. MarketTypeOK'
  BY <1>0, <1>2, <1>4 DEF WritePartition, MarketInv, MarketTypeOK
<1>6. \A g \in Fetchers : FetchFor(fetcher'[g])
  BY <1>2, DoneRow DEF MarketInv
<1>7. ASSUME ~collided PROVE JobCovers(fetcher'["job"], lake', torn') /\ ReadIsCurrent' /\ FreshIsCovered'
  <2>1. /\ \A s \in Symbols : lake[s] \subseteq lake'[s]
        /\ lake'[fetcher[f].sym] = lake[fetcher[f].sym] \cup fetcher[f].got
        /\ \A s \in Symbols \ {fetcher[f].sym} : lake'[s] = lake[s]
        /\ torn' = torn
    BY <1>7, WriteAdds
  <2>2. JobCovers(fetcher["job"], lake, torn) /\ ReadIsCurrent /\ FreshIsCovered
    BY <1>7 DEF MarketInv
  <2>3. \A s \in Symbols : \A k : Reaches(lake[s], k) => Reaches(lake'[s], k)
    BY <2>1, ReachesMore
  <2>4. JobCovers(fetcher'["job"], lake', torn')
    <3>1. CASE f # "job"
      <4>1. fetcher'["job"] = fetcher["job"]
        BY <1>2, <3>1 DEF Fetchers
      <4> QED BY <2>1, <2>2, <2>3, <4>1 DEF JobCovers
    <3>2. CASE f = "job"
      <4>1. /\ Done(f).phase = "pick" /\ Done(f).todo = fetcher[f].todo
            /\ Done(f).today = fetcher[f].today /\ Done(f).failed = fetcher[f].failed
            /\ Done(f).gaps = fetcher[f].gaps
        BY <3>2, DoneRow
      <4>2. fetcher[f].sym \notin fetcher[f].gaps => Reaches(lake'[fetcher[f].sym], fetcher[f].today - 1)
        <5>1. fetcher[f].got \subseteq lake'[fetcher[f].sym]
          BY <2>1
        <5> QED BY <1>0, <2>2, <3>2, <5>1, ReachesMore DEF JobCovers
      <4>3. \A s \in Symbols \ (Done(f).todo \cup Done(f).failed \cup Done(f).gaps \cup torn') : Reaches(lake'[s], Done(f).today - 1)
        BY <1>0, <2>1, <2>2, <2>3, <3>2, <4>1, <4>2 DEF JobCovers
      <4> QED BY <1>2, <3>2, <4>1, <4>3 DEF JobCovers
    <3> QED BY <3>1, <3>2
  <2>5. ReadIsCurrent'
    <3>1. Done(f).phase # "write"
      BY DoneRow DEF Busy
    <3>2. \A g \in Fetchers : fetcher[g].phase = "write" => fetcher[g].sym \in Symbols
      BY RowFields DEF Busy
    <3> QED BY <1>0, <1>2, <2>1, <2>2, <3>1, <3>2 DEF ReadIsCurrent
  <2>6. FreshIsCovered'
    BY <1>0, <2>1, <2>2, <2>3 DEF FreshIsCovered
  <2> QED BY <2>4, <2>5, <2>6
<1> QED BY <1>0, <1>5, <1>6, <1>7 DEF MarketInv

(* A write that is cut short loses nothing but the partition it was writing. *)
LEMMA InterruptedAdds ==
    ASSUME MarketInv, NEW f \in Fetchers, WriteInterrupted(f)
    PROVE  /\ lake' \in [Symbols -> SUBSET (1 .. MaxDay)] /\ torn' \subseteq Symbols /\ torn \subseteq torn'
           /\ \A s \in Symbols \ torn' : lake[s] \subseteq lake'[s]
           /\ \A s \in Symbols \ {fetcher[f].sym} : lake'[s] = lake[s] /\ (s \in torn' => s \in torn)
<1>1. fetcher[f].sym \in Symbols /\ fetcher[f].got \subseteq 1 .. MaxDay
  BY RowFields DEF WriteInterrupted, Busy
<1>2. lake \in [Symbols -> SUBSET (1 .. MaxDay)] /\ torn \subseteq Symbols
  BY DEF MarketInv, MarketTypeOK
<1>3. CASE /\ torn' = torn
           /\ \E X \in SUBSET fetcher[f].got : lake' = [lake EXCEPT ![fetcher[f].sym] = lake[fetcher[f].sym] \cup X]
  BY <1>1, <1>2, <1>3
<1>4. CASE lake' = [lake EXCEPT ![fetcher[f].sym] = {}] /\ torn' = torn \cup {fetcher[f].sym}
  BY <1>1, <1>2, <1>4
<1> QED BY <1>3, <1>4 DEF WriteInterrupted

LEMMA WriteInterruptedKeeps ==
    ASSUME MarketInv, NEW f \in Fetchers, WriteInterrupted(f)
    PROVE  MarketInv'
<1> DEFINE r == [NoFetch EXCEPT !.phase = "raised"]
<1>0. /\ fetcher[f].phase = "write" /\ UNCHANGED <<day, freshness, collided>> /\ fetcher \in [Fetchers -> FetchRows]
      /\ fetcher' = [fetcher EXCEPT ![f] = r]
  BY DEF WriteInterrupted, MarketInv, MarketTypeOK
<1>1. r \in FetchRows /\ r.phase = "raised"
  BY DEF NoFetch, FetchRows
<1> HIDE DEF r
<1>2. /\ fetcher' \in [Fetchers -> FetchRows] /\ fetcher'[f] = r
      /\ \A g \in Fetchers \ {f} : fetcher'[g] = fetcher[g]
  BY <1>0, <1>1
<1>3. MarketTypeOK'
  BY <1>0, <1>2, InterruptedAdds DEF MarketInv, MarketTypeOK
<1>4. \A g \in Fetchers : FetchFor(fetcher'[g])
  BY <1>1, <1>2 DEF MarketInv, FetchFor, Busy
<1>5. ASSUME ~collided PROVE JobCovers(fetcher'["job"], lake', torn') /\ ReadIsCurrent' /\ FreshIsCovered'
  <2>1. JobCovers(fetcher["job"], lake, torn) /\ ReadIsCurrent /\ FreshIsCovered
    BY <1>5 DEF MarketInv
  <2>2. \A s \in Symbols \ torn' : s \notin torn /\ \A k : Reaches(lake[s], k) => Reaches(lake'[s], k)
    BY InterruptedAdds, ReachesMore
  <2>3. JobCovers(fetcher'["job"], lake', torn')
    <3>1. CASE f # "job"
      <4>1. fetcher'["job"] = fetcher["job"]
        BY <1>2, <3>1 DEF Fetchers
      <4> QED BY <2>1, <2>2, <4>1 DEF JobCovers
    <3>2. CASE f = "job"
      BY <1>1, <1>2, <3>2 DEF JobCovers
    <3> QED BY <3>1, <3>2
  <2>4. ReadIsCurrent'
    <3>1. \A g \in Fetchers : fetcher[g].phase = "write" => fetcher[g].sym \in Symbols
      BY RowFields DEF Busy
    <3> QED BY <1>0, <1>1, <1>2, <2>1, <3>1, InterruptedAdds DEF ReadIsCurrent
  <2>5. FreshIsCovered'
    BY <1>0, <2>1, <2>2 DEF FreshIsCovered
  <2> QED BY <2>3, <2>4, <2>5
<1> QED BY <1>0, <1>3, <1>4, <1>5 DEF MarketInv

LEMMA FetcherDiesKeeps ==
    ASSUME MarketInv, NEW f \in Fetchers, FetcherDies(f)
    PROVE  MarketInv'
<1>1. NoFetch \in FetchRows /\ NoFetch.phase = "idle"
  BY DEF NoFetch, FetchRows
<1>2. FetchFor(NoFetch) /\ JobCovers(NoFetch, lake, torn)
  BY <1>1 DEF FetchFor, JobCovers, Busy
<1>3. fetcher' = [fetcher EXCEPT ![f] = NoFetch] /\ UNCHANGED <<day, lake, freshness, torn, collided>>
  BY DEF FetcherDies
<1> QED BY <1>1, <1>2, <1>3, FetcherMoves

LEMMA JobStopsKeeps ==
    ASSUME MarketInv, JobEnds \/ JobRaises
    PROVE  MarketInv'
<1> DEFINE j == fetcher["job"]
           Freshness == [status : {"fresh", "failed", "unavailable"}, on : Nat, asOf : Nat, gaps : SUBSET Symbols]
<1>0. /\ UNCHANGED <<day, lake, torn, collided>> /\ fetcher' = [fetcher EXCEPT !["job"] = NoFetch]
      /\ "job" \in Fetchers /\ day \in Nat /\ freshness \in Freshness
  BY DEF JobEnds, JobRaises, MarketInv, MarketTypeOK, Fetchers
<1>1. NoFetch \in FetchRows /\ NoFetch.phase = "idle"
  BY DEF NoFetch, FetchRows
<1>2. FetchFor(NoFetch) /\ JobCovers(NoFetch, lake, torn)
  BY <1>1 DEF FetchFor, JobCovers, Busy
<1>3. freshness' \in Freshness /\ (~collided => FreshIsCovered')
  <2>1. CASE freshness' = [status |-> "fresh", on |-> day, asOf |-> j.today, gaps |-> j.gaps] /\ JobEnds /\ j.failed = {}
    <3>1. j.today \in Nat /\ j.gaps \subseteq Symbols
      BY <1>0, RowFields
    <3>2. freshness' \in Freshness /\ freshness'.asOf = j.today /\ freshness'.gaps = j.gaps
      BY <1>0, <2>1, <3>1
    <3>3. ASSUME ~collided PROVE \A s \in Symbols \ (j.gaps \cup torn) : Reaches(lake[s], j.today - 1)
      <4>1. JobCovers(j, lake, torn) /\ j.phase = "pick" /\ j.todo = {} /\ j.failed = {}
        BY <2>1, <3>3 DEF MarketInv, JobEnds
      <4> QED BY <4>1 DEF JobCovers, Busy
    <3> QED BY <1>0, <3>2, <3>3 DEF FreshIsCovered
  <2>2. CASE \E st \in {"failed", "unavailable"} : freshness' = [freshness EXCEPT !.status = st]
    <3>1. freshness' \in Freshness /\ freshness'.status # "fresh"
      BY <1>0, <2>2
    <3> QED BY <3>1 DEF FreshIsCovered
  <2>3. CASE JobEnds
    BY <2>1, <2>2, <2>3 DEF JobEnds, RecordIngestionResult
  <2>4. CASE JobRaises
    BY <2>2, <2>4 DEF JobRaises, RecordIngestionResult
  <2> QED BY <2>3, <2>4
<1> QED BY <1>0, <1>1, <1>2, <1>3, FetcherMoves

LEMMA MarketSteps ==
    ASSUME MarketInv, [MarketNext]_marketVars
    PROVE  MarketInv'
<1>1. CASE NewDay
  <2>1. day' \in Nat /\ UNCHANGED <<lake, fetcher, freshness, torn, collided>>
    BY <1>1 DEF NewDay, MarketInv, MarketTypeOK
  <2> QED BY <2>1 DEF MarketInv, MarketTypeOK, ReadIsCurrent, FreshIsCovered
<1>2. CASE UNCHANGED marketVars
  BY <1>2 DEF marketVars, MarketInv, MarketTypeOK, ReadIsCurrent, FreshIsCovered
<1>3. ASSUME NEW f \in Fetchers,
             \/ ProviderFails(f) \/ ProviderRetries(f) \/ MergeReads(f) \/ WritePartition(f)
             \/ WriteInterrupted(f) \/ FetcherDies(f)
      PROVE  MarketInv'
  BY <1>3, ProvidersKeep, MergeReadsKeeps, WritePartitionKeeps, WriteInterruptedKeeps, FetcherDiesKeeps
<1> QED BY <1>1, <1>2, <1>3, StartsKeep, PickSymbolKeeps, ProviderAnswersKeeps, JobStopsKeeps DEF MarketNext

LEMMA LakeGrows ==
    ASSUME MarketInv, [MarketNext]_marketVars
    PROVE  [\A s \in Symbols : lake[s] \subseteq lake'[s] \/ collided \/ s \in torn']_marketVars
<1>1. ASSUME NEW f \in Fetchers, WritePartition(f), ~collided
      PROVE  \A s \in Symbols : lake[s] \subseteq lake'[s]
  BY <1>1, WriteAdds
<1>3. ASSUME NEW f \in Fetchers, WriteInterrupted(f)
      PROVE  \A s \in Symbols \ torn' : lake[s] \subseteq lake'[s]
  BY <1>3, InterruptedAdds
<1>2. lake' = lake \/ \E f \in Fetchers : WritePartition(f) \/ WriteInterrupted(f)
  BY DEF MarketNext, marketVars, NewDay, JobStart, JobEnds, JobRaises, PickSymbol, RequestStart,
         ProviderFails, ProviderRetries, MergeReads, ProviderAnswers, FetcherDies
<1> QED BY <1>1, <1>2, <1>3

FreshMeansCovered ==
  IsFresh /\ ~collided =>
    /\ \A s \in Symbols \ (freshness.gaps \cup torn) :
         /\ LatestDate(s) >= freshness.asOf - 1
         /\ freshness.asOf = freshness.on => LatestDate(s) >= day - 2
    /\ freshness.asOf = day /\ day > 1 /\ freshness.gaps \cup torn = {} => DailyResearchCycle

LEMMA FreshIsFresh ==
    ASSUME MarketInv
    PROVE  FreshMeansCovered
<1> SUFFICES ASSUME IsFresh, ~collided
             PROVE  /\ \A s \in Symbols \ (freshness.gaps \cup torn) :
                         /\ LatestDate(s) >= freshness.asOf - 1
                         /\ freshness.asOf = freshness.on => LatestDate(s) >= day - 2
                    /\ freshness.asOf = day /\ day > 1 /\ freshness.gaps \cup torn = {} => DailyResearchCycle
  BY DEF FreshMeansCovered
<1>1. /\ MarketTypeOK /\ FreshIsCovered /\ freshness.asOf \in Nat /\ freshness.on \in Nat /\ day \in Nat
      /\ freshness.on >= day - 1
  BY DEF MarketInv, MarketTypeOK, IsFresh
<1>2. \A s \in Symbols \ (freshness.gaps \cup torn) : Reaches(lake[s], freshness.asOf - 1)
  BY <1>1 DEF FreshIsCovered, IsFresh
<1>3. ASSUME NEW s \in Symbols \ (freshness.gaps \cup torn)
      PROVE  LatestDate(s) \in Nat /\ LatestDate(s) >= freshness.asOf - 1
  <2>1. freshness.asOf - 1 \in Int
    BY <1>1
  <2> QED BY <1>1, <1>2, <2>1, LatestReaches
<1>5. ASSUME NEW s \in Symbols \ (freshness.gaps \cup torn), freshness.asOf = freshness.on
      PROVE  LatestDate(s) >= day - 2
  BY <1>1, <1>3, <1>5
<1>4. ASSUME freshness.asOf = day, day > 1, freshness.gaps \cup torn = {} PROVE DailyResearchCycle
  <2>1. \A s \in Symbols : LatestDate(s) >= day - 1
    BY <1>3, <1>4
  <2>2. \A s \in Symbols : lake[s] # {}
    BY <1>1, <1>4, <2>1 DEF LatestDate
  <2> QED BY <2>1, <2>2, MarketDataBounds DEF DailyResearchCycle, CheckFreshness
<1> QED BY <1>3, <1>4, <1>5

(* The lake only grows unless two writers merged one partition at once or a write was cut
   short, and a dataset that is_fresh calls fresh covers the last completed trading day of
   the job's own day for every readable symbol without a gap, so at least the day before
   yesterday's bar when the job ended on the day it began, whatever providers answer, fail
   or time out and wherever a fetcher dies (get_historical_data, ParquetLakeWriter,
   record_ingestion_result, is_fresh). *)
THEOREM LakeIsSafe == MarketSpec => LakeHolds
<1>1. MarketInit => MarketInv
  BY MarketInitial
<1>2. MarketInv /\ [MarketNext]_marketVars => MarketInv'
  BY MarketSteps
<1>3. MarketInv /\ [MarketNext]_marketVars
        => [\A s \in Symbols : lake[s] \subseteq lake'[s] \/ collided \/ s \in torn']_marketVars
  BY LakeGrows
<1>4. MarketInv => FreshMeansCovered
  BY FreshIsFresh
<1> QED BY <1>1, <1>2, <1>3, <1>4, PTL DEF MarketSpec, LakeHolds, FreshMeansCovered

-----------------------------------------------------------------------------
(* BhavcopyCache: a day without rows *)

CacheText == {"absent", "empty", "part", "full"}

BhavTypeOK ==
  /\ published \subseteq Days /\ early \subseteq Days
  /\ cached \in [Days -> CacheText]
  /\ loader \in [Loaders -> {NoLoad} \cup [day : Days, phase : {"look", "write", "fill"},
                                           text : {"none", "empty", "full"}, out : BOOLEAN]]
  /\ blank \subseteq [day : Days, torn : BOOLEAN]

(* An empty file stands for a day that was asked for too early, and so does the empty
   text a thread is about to write; a thread that writes has the one or the other text. *)
EmptyIsEarly ==
  /\ \A d \in Days : cached[d] = "empty" => d \in early
  /\ \A t \in Loaders : loader[t].phase \in {"write", "fill"} =>
       /\ loader[t].text \in {"empty", "full"}
       /\ loader[t].text = "empty" => loader[t].day \in early

BhavInv == BhavTypeOK /\ EmptyIsEarly /\ MissingOnlyIfEarlyOrTorn

LEMMA BusyLoader ==
    ASSUME BhavInv, NEW t \in Loaders, loader[t].phase # "idle"
    PROVE  /\ loader[t].day \in Days /\ loader[t].out \in BOOLEAN
           /\ loader[t].phase \in {"look", "write", "fill"}
           /\ loader[t].text \in {"none", "empty", "full"}
BY DEF BhavInv, BhavTypeOK, NoLoad

LEMMA AnswerKeeps ==
    ASSUME BhavInv, NEW t \in Loaders, loader[t].phase # "idle", NEW row, NEW text,
           Answer(t, row), row \in Answers(text), UNCHANGED <<published, early>>,
           text \in {"empty", "part", "full"},
           text = "empty" => loader[t].day \in early,
           \/ text = cached[loader[t].day] /\ cached' = cached
           \/ text # "part" /\ cached' = [cached EXCEPT ![loader[t].day] = text]
    PROVE  BhavInv'
<1> USE DEF BhavInv
<1>1. loader[t].day \in Days /\ loader[t].out \in BOOLEAN
  BY BusyLoader
<1>2. /\ loader' = [loader EXCEPT ![t] = NoLoad]
      /\ blank' \subseteq blank \cup {[day |-> loader[t].day, torn |-> cached[loader[t].day] = "part"]}
      /\ row # "norow" => blank' = blank
  BY DEF Answer
<1>3. BhavTypeOK'
  <2>1. cached' \in [Days -> CacheText] /\ published' \subseteq Days /\ early' \subseteq Days
    BY DEF BhavTypeOK, CacheText
  <2>2. [day |-> loader[t].day, torn |-> cached[loader[t].day] = "part"] \in [day : Days, torn : BOOLEAN]
    BY <1>1
  <2>3. blank' \subseteq [day : Days, torn : BOOLEAN]
    BY <1>2, <2>2 DEF BhavTypeOK
  <2> QED BY <1>2, <2>1, <2>3 DEF BhavTypeOK
<1>4. EmptyIsEarly'
  <2>1. \A u \in Loaders : loader'[u] = loader[u] \/ loader'[u] = NoLoad
    BY <1>2 DEF BhavTypeOK
  <2>2. \A u \in Loaders : loader'[u].phase \in {"write", "fill"} =>
          /\ loader'[u].text \in {"empty", "full"}
          /\ loader'[u].text = "empty" => loader'[u].day \in early
    BY <2>1 DEF EmptyIsEarly, NoLoad
  <2>3. \A d \in Days : cached'[d] = "empty" => d \in early
    BY <1>1 DEF BhavTypeOK, EmptyIsEarly
  <2> QED BY <2>2, <2>3 DEF EmptyIsEarly
<1>5. row = "norow" => loader[t].day \in early \/ cached[loader[t].day] = "part"
  BY DEF Answers
<1>6. MissingOnlyIfEarlyOrTorn'
  <2> SUFFICES ASSUME NEW b \in blank' PROVE b.day \in early \/ b.torn
    BY DEF MissingOnlyIfEarlyOrTorn
  <2>1. CASE b \in blank
    BY <2>1 DEF MissingOnlyIfEarlyOrTorn
  <2>2. CASE b \notin blank
    <3>1. row = "norow" /\ b = [day |-> loader[t].day, torn |-> cached[loader[t].day] = "part"]
      BY <1>2, <2>2
    <3>2. b.day = loader[t].day /\ (b.torn <=> cached[loader[t].day] = "part")
      BY <3>1
    <3> QED BY <1>5, <3>1, <3>2
  <2> QED BY <2>1, <2>2
<1> QED BY <1>3, <1>4, <1>6

(* A reader is told that a day has no rows only if the file was asked for before it was
   published or was read while another thread was writing it (_load_day, _write_cache). *)
THEOREM MissingRows == BhavSpec => []MissingOnlyIfEarlyOrTorn
<1>1. BhavInit => BhavInv
  <2> SUFFICES ASSUME BhavInit PROVE BhavInv
    OBVIOUS
  <2>1. BhavTypeOK
    BY DEF BhavInit, BhavTypeOK, CacheText
  <2>2. EmptyIsEarly /\ MissingOnlyIfEarlyOrTorn
    BY DEF BhavInit, EmptyIsEarly, MissingOnlyIfEarlyOrTorn, NoLoad
  <2> QED BY <2>1, <2>2 DEF BhavInv
<1>2. BhavInv /\ [BhavNext]_bhavVars => BhavInv'
  <2> SUFFICES ASSUME BhavInv, [BhavNext]_bhavVars PROVE BhavInv'
    OBVIOUS
  <2> USE DEF BhavInv
  <2>1. ASSUME NEW d \in Days, Publish(d) PROVE BhavInv'
    BY <2>1 DEF Publish, BhavTypeOK, EmptyIsEarly, MissingOnlyIfEarlyOrTorn
  <2>2. ASSUME NEW t \in Loaders, ReadCache(t) PROVE BhavInv'
    <3>1. loader[t].phase # "idle" /\ loader[t].day \in Days /\ cached' = cached
      BY <2>2, BusyLoader DEF ReadCache
    <3>2. cached[loader[t].day] \in {"empty", "part", "full"}
      BY <2>2, <3>1 DEF ReadCache, BhavTypeOK, CacheText
    <3>3. cached[loader[t].day] = "empty" => loader[t].day \in early
      BY <3>1 DEF EmptyIsEarly
    <3>4. PICK row \in Answers(cached[loader[t].day]) : Answer(t, row)
      BY <2>2 DEF ReadCache
    <3> QED BY <2>2, <3>1, <3>2, <3>3, <3>4, AnswerKeeps DEF ReadCache
  <2>3. ASSUME NEW t \in Loaders, Download(t) PROVE BhavInv'
    <3>1. loader[t].phase # "idle" /\ loader[t].day \in Days
      BY <2>3, BusyLoader DEF Download
    <3>2. /\ loader' = [loader EXCEPT ![t].phase = "write",
                          ![t].text = IF loader[t].day \in published THEN "full" ELSE "empty"]
          /\ early' = IF loader[t].day \in published THEN early ELSE early \cup {loader[t].day}
          /\ UNCHANGED <<published, cached, blank>>
      BY <2>3 DEF Download
    <3>3. /\ loader'[t].day = loader[t].day /\ loader'[t].text = IF loader[t].day \in published THEN "full" ELSE "empty"
          /\ loader'[t] \in [day : Days, phase : {"look", "write", "fill"},
                             text : {"none", "empty", "full"}, out : BOOLEAN]
          /\ \A u \in Loaders \ {t} : loader'[u] = loader[u]
      <4> DEFINE text == IF loader[t].day \in published THEN "full" ELSE "empty"
      <4>1. /\ loader[t] \in [day : Days, phase : {"look", "write", "fill"},
                              text : {"none", "empty", "full"}, out : BOOLEAN]
            /\ text \in {"none", "empty", "full"}
        BY <2>3 DEF Download, BhavTypeOK, NoLoad
      <4> HIDE DEF text
      <4>2. loader' = [loader EXCEPT ![t] = [loader[t] EXCEPT !.phase = "write", !.text = text]]
        BY <3>2 DEF text, BhavTypeOK
      <4>3. loader'[t] = [loader[t] EXCEPT !.phase = "write", !.text = text]
        BY <4>2 DEF BhavTypeOK
      <4>4. \A u \in Loaders \ {t} : loader'[u] = loader[u]
        BY <4>2 DEF BhavTypeOK
      <4>5. loader'[t].day = loader[t].day /\ loader'[t].text = text
        BY <4>1, <4>3
      <4>6. loader'[t] \in [day : Days, phase : {"look", "write", "fill"},
                             text : {"none", "empty", "full"}, out : BOOLEAN]
        BY <4>1, <4>3
      <4> QED BY <4>4, <4>5, <4>6 DEF text
    <3>4. BhavTypeOK'
      BY <3>1, <3>2, <3>3 DEF BhavTypeOK
    <3>5. EmptyIsEarly' /\ MissingOnlyIfEarlyOrTorn'
      <4>1. early \subseteq early' /\ (loader'[t].text = "empty" => loader'[t].day \in early')
        BY <3>2, <3>3
      <4>2. MissingOnlyIfEarlyOrTorn'
        BY <3>2, <4>1 DEF MissingOnlyIfEarlyOrTorn
      <4>3. EmptyIsEarly'
        BY <3>2, <3>3, <4>1 DEF EmptyIsEarly
      <4> QED BY <4>2, <4>3
    <3> QED BY <3>4, <3>5
  <2>4. ASSUME NEW t \in Loaders, DownloadFails(t) PROVE BhavInv'
    BY <2>4 DEF DownloadFails, BhavTypeOK, EmptyIsEarly, MissingOnlyIfEarlyOrTorn, NoLoad
  <2>5. ASSUME NEW t \in Loaders, WriteOpens(t) PROVE BhavInv'
    <3>1. loader[t].phase # "idle" /\ loader[t].day \in Days
      BY <2>5, BusyLoader DEF WriteOpens
    <3>2. /\ loader'[t].day = loader[t].day /\ loader'[t].text = loader[t].text
          /\ loader'[t] \in [day : Days, phase : {"look", "write", "fill"},
                             text : {"none", "empty", "full"}, out : BOOLEAN]
          /\ \A u \in Loaders \ {t} : loader'[u] = loader[u]
      BY <2>5, <3>1 DEF WriteOpens, BhavTypeOK, NoLoad
    <3>3. BhavTypeOK'
      BY <2>5, <3>1, <3>2 DEF WriteOpens, BhavTypeOK, CacheText
    <3>4. \A d \in Days : cached'[d] = "empty" => d \in early
      BY <2>5, <3>1 DEF WriteOpens, BhavTypeOK, EmptyIsEarly
    <3>5. EmptyIsEarly' /\ MissingOnlyIfEarlyOrTorn'
      BY <2>5, <3>2, <3>4 DEF WriteOpens, EmptyIsEarly, MissingOnlyIfEarlyOrTorn
    <3> QED BY <3>3, <3>5
  <2>6. ASSUME NEW t \in Loaders, WriteCloses(t) PROVE BhavInv'
    <3>1. loader[t].phase = "fill" /\ cached' = [cached EXCEPT ![loader[t].day] = loader[t].text]
      BY <2>6 DEF WriteCloses
    <3>2. /\ loader[t].text \in {"empty", "full"}
          /\ loader[t].text = "empty" => loader[t].day \in early
      BY <3>1 DEF EmptyIsEarly
    <3>3. PICK row \in Answers(loader[t].text) : Answer(t, row)
      BY <2>6 DEF WriteCloses
    <3> QED BY <2>6, <3>1, <3>2, <3>3, AnswerKeeps DEF WriteCloses
  <2>7. ASSUME NEW t \in Loaders, NEW d \in Days, LoadStart(t, d) PROVE BhavInv'
    <3> DEFINE new == [NoLoad EXCEPT !.day = d, !.phase = "look", !.out = d \in published]
    <3>1. loader' = [loader EXCEPT ![t] = new] /\ UNCHANGED <<published, cached, early, blank>>
      BY <2>7 DEF LoadStart
    <3>2. BhavTypeOK'
      <4>1. new \in [day : Days, phase : {"look", "write", "fill"},
                     text : {"none", "empty", "full"}, out : BOOLEAN]
        <5>1. ASSUME NEW o \in BOOLEAN
              PROVE  [NoLoad EXCEPT !.day = d, !.phase = "look", !.out = o] \in
                       [day : Days, phase : {"look", "write", "fill"},
                        text : {"none", "empty", "full"}, out : BOOLEAN]
          BY DEF NoLoad
        <5>2. (d \in published) \in BOOLEAN
          OBVIOUS
        <5> HIDE DEF NoLoad
        <5> QED BY <5>1, <5>2, Zenon
      <4> HIDE DEF new
      <4> QED BY <3>1, <4>1 DEF BhavTypeOK
    <3>3. /\ loader'[t].phase = "look"
          /\ \A u \in Loaders \ {t} : loader'[u] = loader[u]
      BY <3>1 DEF BhavTypeOK, NoLoad
    <3>4. EmptyIsEarly' /\ MissingOnlyIfEarlyOrTorn'
      BY <3>1, <3>3 DEF EmptyIsEarly, MissingOnlyIfEarlyOrTorn
    <3> QED BY <3>2, <3>4
  <2>8. CASE UNCHANGED bhavVars
    BY <2>8 DEF bhavVars, BhavTypeOK, EmptyIsEarly, MissingOnlyIfEarlyOrTorn
  <2> QED BY <2>1, <2>2, <2>3, <2>4, <2>5, <2>6, <2>7, <2>8 DEF BhavNext
<1>3. BhavInv => MissingOnlyIfEarlyOrTorn
  BY DEF BhavInv
<1> QED BY <1>1, <1>2, <1>3, PTL DEF BhavSpec

-----------------------------------------------------------------------------
(* PaperAccount: one ledger, three writers *)

Books == [net : Int, cost : Int, realized : Int, per : Nat \ {0}, paid : Int]
Fractions == [num : Int, den : Nat \ {0}]
CycleRows == [phase : {"idle", "gated", "decided"}, capital : Fractions, signed : Int]
Stops == [on : BOOLEAN, open : BOOLEAN, qty : Int, entry : Fractions]

PaperTypeOK ==
  /\ book \in Books /\ price \in Prices /\ inflight \in Int
  /\ cycle \in [Cycles -> CycleRows]
  /\ stop \in Stops
  /\ disturbed \in BOOLEAN

(* With the order under way the ledger will show what the pipeline believes. *)
OrderCompletesPosition ==
  stop.on /\ ~disturbed => book.net + inflight = IF stop.open THEN stop.qty ELSE 0

PaperInv == PaperTypeOK /\ OrderCompletesPosition

Adds(b, q) == b.net = 0 \/ (b.net > 0) = (q > 0)

Balances(b) == b.realized = b.net * b.cost - b.paid * b.per

LEMMA WholeIsFraction == \A n \in Int : Whole(n) \in Fractions
BY DEF Whole, Fractions

LEMMA FillIsABook ==
    ASSUME NEW b \in Books, NEW q \in Int \ {0}, NEW p \in Int
    PROVE  ReplayLedger(b, q, p) \in Books /\ ReplayLedger(b, q, p).net = b.net + q
<1>1. b.net \in Int /\ b.cost \in Int /\ b.realized \in Int /\ b.paid \in Int /\ b.per \in Nat \ {0}
  BY DEF Books
<1>2. PICK per : per = IF Adds(b, q) THEN b.per * Abs(b.net + q) ELSE b.per
  OBVIOUS
<1>3. per \in Nat \ {0}
  <2>1. CASE Adds(b, q)
    <3>1. PICK m \in Nat \ {0} : m = Abs(b.net + q)
      BY <1>1, <2>1 DEF Adds, Abs
    <3>2. b.per * m \in Nat \ {0}
      BY <1>1
    <3> QED BY <1>2, <2>1, <3>1, <3>2
  <2>2. CASE ~Adds(b, q)
    BY <1>1, <1>2, <2>2
  <2> QED BY <2>1, <2>2
<1>4. PICK cost : cost = IF Adds(b, q) THEN b.cost * Abs(b.net) + p * b.per * Abs(q)
                         ELSE IF b.net + q # 0 /\ (b.net + q > 0) # (b.net > 0) THEN p * b.per ELSE b.cost
  OBVIOUS
<1>5. cost \in Int
  BY <1>1, <1>4 DEF Abs
<1>6. PICK realized : realized = IF Adds(b, q) THEN b.realized * Abs(b.net + q)
                   ELSE b.realized + (IF b.net > 0 THEN 1 ELSE -1) * (p * b.per - b.cost) * Least(Abs(q), Abs(b.net))
  OBVIOUS
<1>7. realized \in Int
  BY <1>1, <1>6 DEF Least, Abs
<1>8. ReplayLedger(b, q, p) = [net |-> b.net + q, paid |-> b.paid + q * p, per |-> per, cost |-> cost, realized |-> realized]
  BY <1>2, <1>4, <1>6 DEF ReplayLedger, Adds
<1> QED BY <1>1, <1>3, <1>5, <1>7, <1>8 DEF Books

(* The arithmetic of a fill that adds: with n and q of one sign, averaging in parts of per * |n + q|
   changes neither side. *)
LEMMA AveragingBalances ==
    ASSUME NEW n \in Int, NEW q \in Int, NEW c \in Int, NEW p \in Int, NEW d \in Int, NEW e \in Int,
           NEW a \in Int, NEW an \in Int, NEW aq \in Int, NEW s \in Int, s * s = 1,
           a = s * (n + q), an = s * n, aq = s * q
    PROVE  (n * c - d * e) * a = (n + q) * (c * an + p * e * aq) - (d + q * p) * (e * a)
<1>1. PICK u \in Int, v \in Int : u = n * c - d * e /\ v = p * e
  OBVIOUS
<1>2. c * an + v * aq = s * (c * n + v * q)
  BY SMT
<1>3. (n + q) * (c * an + v * aq) = a * (c * n + v * q)
  <2>1. PICK w \in Int : w = c * n + v * q
    OBVIOUS
  <2>2. c * an + v * aq = s * w
    BY <1>2, <2>1
  <2>3. (n + q) * (s * w) = a * w
    BY SMT
  <2> QED BY <2>1, <2>2, <2>3
<1>4. (d + q * p) * e = d * e + v * q
  BY <1>1
<1>5. PICK w \in Int : w = c * n + v * q
  OBVIOUS
<1>6. (d + q * p) * (e * a) = (d * e + v * q) * a
  <2>1. (d + q * p) * (e * a) = ((d + q * p) * e) * a
    BY SMT
  <2> QED BY <1>4, <2>1
<1>7. u = w - (d * e + v * q)
  BY <1>1, <1>5
<1>8. PICK z \in Int : z = d * e + v * q
  OBVIOUS
<1>9. u * a = a * w - z * a
  BY <1>7, <1>8
<1> QED BY <1>1, <1>3, <1>5, <1>6, <1>8, <1>9

LEMMA FillBalances ==
    ASSUME NEW b \in Books, NEW q \in Int \ {0}, NEW p \in Int, Balances(b)
    PROVE  Balances(ReplayLedger(b, q, p))
<1>1. PICK n \in Int, c \in Int, r \in Int, d \in Int, e \in Int :
        b.net = n /\ b.cost = c /\ b.realized = r /\ b.paid = d /\ b.per = e
  BY DEF Books
<1>2. r = n * c - d * e
  BY <1>1 DEF Balances
<1>3. ReplayLedger(b, q, p).net = n + q /\ ReplayLedger(b, q, p).paid = d + q * p
  BY <1>1 DEF ReplayLedger
<1>4. CASE Adds(b, q)
  <2> DEFINE a == Abs(n + q)
             an == Abs(n)
             aq == Abs(q)
  <2>1. /\ ReplayLedger(b, q, p).per = e * a
        /\ ReplayLedger(b, q, p).cost = c * an + p * e * aq
        /\ ReplayLedger(b, q, p).realized = r * a
    BY <1>1, <1>4 DEF ReplayLedger, Adds
  <2>2. PICK s \in {1, -1} : a = s * (n + q) /\ an = s * n /\ aq = s * q
    <3>1. CASE n >= 0 /\ q > 0
      <4>1. Abs(n + q) = 1 * (n + q) /\ Abs(n) = 1 * n /\ Abs(q) = 1 * q
        BY <3>1 DEF Abs
      <4> QED BY <4>1
    <3>2. CASE n <= 0 /\ q < 0
      <4>1. Abs(n + q) = (-1) * (n + q) /\ Abs(n) = (-1) * n /\ Abs(q) = (-1) * q
        BY <3>2 DEF Abs
      <4> QED BY <4>1
    <3> QED BY <1>1, <1>4, <3>1, <3>2 DEF Adds
  <2>3. a \in Int /\ an \in Int /\ aq \in Int /\ s \in Int /\ s * s = 1
    BY DEF Abs
  <2> HIDE DEF a, an, aq
  <2>4. (n * c - d * e) * a = (n + q) * (c * an + p * e * aq) - (d + q * p) * (e * a)
    BY <2>2, <2>3, AveragingBalances
  <2>5. r * a = (n + q) * (c * an + p * e * aq) - (d + q * p) * (e * a)
    BY <1>2, <2>4
  <2> QED BY <1>3, <2>1, <2>5 DEF Balances
<1>5. CASE ~Adds(b, q)
  <2> DEFINE s == IF n > 0 THEN 1 ELSE -1
             k == Least(Abs(q), Abs(n))
             v == p * e
  <2>1. ReplayLedger(b, q, p).realized = r + s * (v - c) * k /\ ReplayLedger(b, q, p).per = e
    BY <1>1, <1>5 DEF ReplayLedger, Adds
  <2>2. ReplayLedger(b, q, p).cost = IF n + q # 0 /\ (n + q > 0) # (n > 0) THEN v ELSE c
    BY <1>1, <1>5 DEF ReplayLedger, Adds
  <2>3. (n > 0 /\ q < 0) \/ (n < 0 /\ q > 0)
    BY <1>1, <1>5 DEF Adds
  <2>4. v \in Int /\ (d + q * p) * e = d * e + q * v
    OBVIOUS
  <2>5. s \in Int /\ k \in Int
    BY DEF Least, Abs
  <2>6. CASE n + q = 0 \/ (n + q > 0 <=> n > 0)
    <3>1. s * k = -q
      BY <2>3, <2>6 DEF Least, Abs
    <3>2. ReplayLedger(b, q, p).cost = c
      BY <2>2, <2>6
    <3> HIDE DEF s, k, v
    <3>3. s * (v - c) * k = (v - c) * (-q)
      <4>1. s * (v - c) * k = (v - c) * (s * k)
        BY <2>4, <2>5
      <4> QED BY <3>1, <4>1
    <3>4. r + (v - c) * (-q) = (n + q) * c - (d + q * p) * e
      BY <1>2, <2>4
    <3> QED BY <1>3, <2>1, <3>2, <3>3, <3>4 DEF Balances
  <2>7. CASE n + q # 0 /\ ~(n + q > 0 <=> n > 0)
    <3>1. s * k = n
      BY <2>3, <2>7 DEF Least, Abs
    <3>2. ReplayLedger(b, q, p).cost = v
      BY <2>2, <2>7
    <3> HIDE DEF s, k, v
    <3>3. s * (v - c) * k = (v - c) * n
      <4>1. s * (v - c) * k = (v - c) * (s * k)
        BY <2>4, <2>5
      <4> QED BY <3>1, <4>1
    <3>4. r + (v - c) * n = (n + q) * v - (d + q * p) * e
      BY <1>2, <2>4
    <3> QED BY <1>3, <2>1, <3>2, <3>3, <3>4 DEF Balances
  <2> QED BY <2>6, <2>7
<1> QED BY <1>4, <1>5

LEMMA PaperInitial == PaperInit => PaperInv /\ LedgerBalances
<1> SUFFICES ASSUME PaperInit PROVE PaperInv /\ LedgerBalances
  OBVIOUS
<1>1. NoCycle \in CycleRows /\ NoStop \in Stops /\ ~NoStop.on
  BY WholeIsFraction DEF NoCycle, NoStop, CycleRows, Stops
<1>2. book \in Books /\ LedgerBalances
  BY DEF PaperInit, Books, LedgerBalances
<1>3. cycle \in [Cycles -> CycleRows] /\ price \in Prices /\ inflight \in Int /\ disturbed = FALSE /\ stop = NoStop
  BY <1>1 DEF PaperInit
<1>4. PaperTypeOK
  BY <1>1, <1>2, <1>3, Zenon DEF PaperTypeOK
<1>5. OrderCompletesPosition
  BY <1>1, <1>3, Zenon DEF OrderCompletesPosition
<1> QED BY <1>2, <1>4, <1>5 DEF PaperInv

(* What every fill does to the account: a signed number of shares at the price of the
   moment. *)
LEMMA FillSize ==
    ASSUME NEW signed \in Int, NEW q \in FillSizes(signed)
    PROVE  q \in Int \ {0}
BY DEF FillSizes

LEMMA ExecutedFill ==
    ASSUME PaperInv, NEW q \in Int \ {0}, ExecutePaperTrade(q)
    PROVE  book' \in Books /\ book'.net = book.net + q /\ book' = ReplayLedger(book, q, price)
<1>1. book \in Books /\ price \in Int
  BY PaperBounds DEF PaperInv, PaperTypeOK
<1> QED BY <1>1, FillIsABook DEF ExecutePaperTrade

(* A fill that no pipeline ordered. *)
LEMMA OthersFillKeeps ==
    ASSUME PaperInv, NEW signed \in Int, NEW q \in FillSizes(signed), ExecutePaperTrade(q), TradedByOthers,
           UNCHANGED <<price, stop, inflight>>, cycle' \in [Cycles -> CycleRows]
    PROVE  PaperInv'
<1>1. book' \in Books
  BY FillSize, ExecutedFill
<1> QED BY <1>1 DEF PaperInv, PaperTypeOK, OrderCompletesPosition, TradedByOthers

LEMMA SignalKeeps ==
    ASSUME PaperInv, HandleTick
    PROVE  PaperInv'
<1>1. PICK n \in Int, k \in Int, e \in Fractions, on \in BOOLEAN, open \in BOOLEAN :
        book.net = n /\ stop = [on |-> on, open |-> open, qty |-> k, entry |-> e]
  <2>1. \A t \in Stops :
          t = [on |-> t.on, open |-> t.open, qty |-> t.qty, entry |-> t.entry] /\ t.on \in BOOLEAN
          /\ t.open \in BOOLEAN /\ t.qty \in Int /\ t.entry \in Fractions
    BY DEF Stops
  <2>2. book.net \in Int
    BY DEF PaperInv, PaperTypeOK, Books
  <2> QED BY <2>1, <2>2 DEF PaperInv, PaperTypeOK
<1>2. price \in Int /\ inflight = 0 /\ UNCHANGED <<book, price, cycle, disturbed>>
  BY PaperBounds DEF PaperInv, PaperTypeOK, HandleTick
<1>3. ~disturbed => n = IF open THEN k ELSE 0
  BY <1>1, <1>2 DEF PaperInv, OrderCompletesPosition, HandleTick
<1>4. CASE stop.open /\ stop' = [stop EXCEPT !.open = FALSE] /\ inflight' = -stop.qty
  <2>1. stop' = [on |-> on, open |-> FALSE, qty |-> k, entry |-> e] /\ inflight' = -k /\ open
    BY <1>1, <1>4
  <2> QED BY <1>1, <1>2, <1>3, <2>1 DEF PaperInv, PaperTypeOK, OrderCompletesPosition, Stops
<1>5. CASE ~stop.open /\ stop' = [stop EXCEPT !.open = TRUE, !.entry = Whole(price)] /\ inflight' = stop.qty
  <2>1. stop' = [on |-> on, open |-> TRUE, qty |-> k, entry |-> Whole(price)] /\ inflight' = k /\ ~open
    BY <1>1, <1>5
  <2>2. Whole(price) \in Fractions
    BY <1>2, WholeIsFraction
  <2> QED BY <1>1, <1>2, <1>3, <2>1, <2>2 DEF PaperInv, PaperTypeOK, OrderCompletesPosition, Stops
<1> QED BY <1>4, <1>5 DEF HandleTick, SignalGenerator

LEMMA TickFillKeeps ==
    ASSUME PaperInv, TickFill
    PROVE  PaperInv'
<1>1. PICK q \in FillSizes(inflight) : ExecutePaperTrade(q) /\ disturbed' = (disturbed \/ (stop.on /\ q # inflight))
  BY DEF TickFill
<1>2. inflight \in Int /\ book.net \in Int /\ UNCHANGED <<price, cycle, stop>> /\ inflight' = 0
  BY DEF TickFill, PaperInv, PaperTypeOK, Books
<1>3. q \in Int \ {0}
  BY <1>1, <1>2, FillSize
<1>4. book' \in Books /\ book'.net = book.net + q
  BY <1>1, <1>3, ExecutedFill
<1>5. disturbed' \in BOOLEAN /\ (stop.on /\ ~disturbed' => ~disturbed /\ q = inflight)
  BY <1>1
<1> QED BY <1>2, <1>3, <1>4, <1>5 DEF PaperInv, PaperTypeOK, OrderCompletesPosition

LEMMA WorkerKeeps ==
    ASSUME PaperInv, SyncPipelines \/ MarketCloses \/ TickFails \/ WorkerRestarts
    PROVE  PaperInv'
<1>1. NoStop \in Stops /\ ~NoStop.on
  BY WholeIsFraction DEF NoStop, Stops
<1>2. CASE stop' = NoStop /\ disturbed' = FALSE /\ inflight' \in {0, inflight} /\ UNCHANGED <<book, price, cycle>>
  <2>1. inflight' \in Int /\ book' \in Books /\ price' \in Prices /\ cycle' \in [Cycles -> CycleRows]
    BY <1>2 DEF PaperInv, PaperTypeOK
  <2>2. PaperTypeOK'
    BY <1>1, <1>2, <2>1, Zenon DEF PaperTypeOK
  <2>3. OrderCompletesPosition'
    BY <1>1, <1>2, Zenon DEF OrderCompletesPosition
  <2> QED BY <2>2, <2>3 DEF PaperInv
<1>3. CASE TickFails
  BY <1>3 DEF TickFails, PaperInv, PaperTypeOK, OrderCompletesPosition, Stops
<1>4. CASE /\ stop' = [on |-> TRUE, open |-> TRUE, qty |-> book.net, entry |-> [num |-> book.cost, den |-> book.per]]
           /\ disturbed' = (inflight # 0) /\ UNCHANGED <<book, price, cycle, inflight>>
  <2>1. book.net \in Int /\ [num |-> book.cost, den |-> book.per] \in Fractions /\ inflight \in Int
    BY DEF PaperInv, PaperTypeOK, Books, Fractions
  <2>2. stop' \in Stops /\ stop'.open /\ stop'.qty = book.net
    BY <1>4, <2>1 DEF Stops
  <2>3. /\ book' \in Books /\ price' \in Prices /\ cycle' \in [Cycles -> CycleRows] /\ inflight' \in Int
        /\ disturbed' \in BOOLEAN /\ (~disturbed' => inflight' = 0) /\ book'.net = book.net
    BY <1>4 DEF PaperInv, PaperTypeOK
  <2>4. PaperTypeOK'
    BY <2>2, <2>3, Zenon DEF PaperTypeOK
  <2>5. OrderCompletesPosition'
    BY <2>1, <2>2, <2>3 DEF OrderCompletesPosition
  <2> QED BY <2>4, <2>5 DEF PaperInv
<1> QED BY <1>2, <1>3, <1>4 DEF SyncPipelines, MarketCloses, WorkerRestarts

LEMMA DailyKeeps ==
    ASSUME PaperInv, NEW c \in Cycles, DailyGate(c) \/ DailyDecide(c) \/ DailyFill(c) \/ DailyFails(c)
    PROVE  PaperInv'
<1>1. /\ cycle \in [Cycles -> CycleRows] /\ book.net \in Int /\ book.cost \in Int /\ book.realized \in Int
      /\ book.per \in Nat \ {0} /\ price \in Int /\ NoCycle \in CycleRows /\ Capital \in Int
  BY PaperBounds, WholeIsFraction DEF PaperInv, PaperTypeOK, Books, NoCycle, CycleRows
<1>2. cycle[c].capital \in Fractions /\ cycle[c].signed \in Int
  BY <1>1 DEF CycleRows
<1>3. CASE DailyFill(c)
  <2>1. PICK q \in FillSizes(cycle[c].signed) : ExecutePaperTrade(q)
    BY <1>3 DEF DailyFill
  <2>2. cycle' \in [Cycles -> CycleRows]
    BY <1>1, <1>3 DEF DailyFill
  <2> QED BY <1>2, <1>3, <2>1, <2>2, OthersFillKeeps DEF DailyFill
<1>4. ASSUME UNCHANGED <<book, price, stop, inflight, disturbed>>, cycle' \in [Cycles -> CycleRows]
      PROVE  PaperInv'
  BY <1>4 DEF PaperInv, PaperTypeOK, OrderCompletesPosition
<1>5. CASE DailyGate(c)
  <2>1. \A quoted \in BOOLEAN : AccountEquity(quoted) \in Fractions
    BY <1>1 DEF AccountEquity, Unrealized, Fractions
  <2>2. \A n \in Fractions : [phase |-> "gated", capital |-> n, signed |-> 0] \in CycleRows
    BY DEF CycleRows
  <2>3. cycle' \in [Cycles -> CycleRows]
    BY <1>1, <1>5, <2>1, <2>2 DEF DailyGate
  <2> QED BY <1>4, <1>5, <2>3 DEF DailyGate
<1>6. CASE DailyDecide(c)
  <2>1. \A n \in PositionSizes(cycle[c].capital) : n \in Int
    <3>1. \A p \in Prices : p \in Nat \ {0}
      BY PaperBounds
    <3>2. PICK x \in Int, y \in Nat \ {0} : cycle[c].capital.num = x /\ cycle[c].capital.den = y
      BY <1>2 DEF Fractions
    <3>3. \A p \in Prices : y * p \in Nat \ {0}
      BY <3>1
    <3>4. \A z \in Nat \ {0} : x \div z \in Int
      OBVIOUS
    <3> QED BY <3>2, <3>3, <3>4 DEF PositionSizes
  <2>2. \/ cycle' = [cycle EXCEPT ![c] = NoCycle]
        \/ \E n \in Int : cycle' = [cycle EXCEPT ![c].phase = "decided", ![c].signed = n]
    BY <1>1, <1>6, <2>1 DEF DailyDecide
  <2>3. cycle' \in [Cycles -> CycleRows]
    BY <1>1, <2>2 DEF CycleRows
  <2> QED BY <1>4, <1>6, <2>3 DEF DailyDecide
<1>7. CASE DailyFails(c)
  <2>1. cycle' \in [Cycles -> CycleRows]
    BY <1>1, <1>7 DEF DailyFails
  <2> QED BY <1>4, <1>7, <2>1 DEF DailyFails
<1> QED BY <1>3, <1>5, <1>6, <1>7

LEMMA PaperSteps ==
    ASSUME PaperInv, [PaperNext]_paperVars
    PROVE  PaperInv'
<1>1. ASSUME NEW signed \in Int, Execute(signed) PROVE PaperInv'
  <2>1. PICK q \in FillSizes(signed) : ExecutePaperTrade(q)
    BY <1>1 DEF Execute
  <2>2. cycle' \in [Cycles -> CycleRows] /\ TradedByOthers /\ UNCHANGED <<price, stop, inflight>>
    BY <1>1 DEF Execute, PaperInv, PaperTypeOK
  <2> QED BY <2>1, <2>2, OthersFillKeeps
<1>2. ASSUME NEW n \in 1 .. MaxOrder, Execute(n) \/ Execute(-n) PROVE PaperInv'
  <2>1. n \in Int /\ -n \in Int
    BY PaperBounds
  <2> QED BY <1>1, <1>2, <2>1
<1>3. ASSUME price' \in Prices, UNCHANGED <<book, cycle, stop, inflight, disturbed>> PROVE PaperInv'
  BY <1>3 DEF PaperInv, PaperTypeOK, OrderCompletesPosition
<1>4. price \in Prices
  BY DEF PaperInv, PaperTypeOK
<1>5. CASE PriceMoves \/ StatusChanges \/ ResetPaperSwitch \/ UNCHANGED paperVars
  BY <1>3, <1>4, <1>5 DEF PriceMoves, StatusChanges, ResetPaperSwitch, paperVars
<1> QED BY <1>2, <1>5, DailyKeeps, WorkerKeeps, SignalKeeps, TickFillKeeps DEF PaperNext

LEMMA FillsBalance ==
    ASSUME PaperInv, [PaperNext]_paperVars, LedgerBalances
    PROVE  LedgerBalances'
<1>1. CASE UNCHANGED book
  BY <1>1 DEF LedgerBalances
<1>2. ASSUME NEW signed \in Int, NEW q \in FillSizes(signed), ExecutePaperTrade(q)
      PROVE  LedgerBalances'
  <2>1. q \in Int \ {0}
    BY FillSize
  <2>2. book' \in Books /\ book'.net = book.net + q /\ book' = ReplayLedger(book, q, price)
    BY <1>2, <2>1, ExecutedFill
  <2>3. book \in Books /\ book.net \in Int /\ price \in Int
    BY PaperBounds DEF PaperInv, PaperTypeOK, Books
  <2>4. Balances(ReplayLedger(book, q, price))
    BY <2>1, <2>3, FillBalances DEF LedgerBalances, Balances
  <2> QED BY <2>2, <2>4 DEF LedgerBalances, Balances
<1>3. ASSUME NEW c \in Cycles, DailyFill(c) PROVE LedgerBalances'
  <2>1. cycle[c].signed \in Int
    BY DEF PaperInv, PaperTypeOK, CycleRows
  <2> QED BY <1>2, <1>3, <2>1 DEF DailyFill
<1>4. CASE TickFill
  <2>1. inflight \in Int
    BY DEF PaperInv, PaperTypeOK
  <2> QED BY <1>2, <1>4, <2>1 DEF TickFill
<1>5. ASSUME NEW n \in 1 .. MaxOrder, Execute(n) \/ Execute(-n) PROVE LedgerBalances'
  <2>1. n \in Int /\ -n \in Int
    BY PaperBounds
  <2> QED BY <1>2, <1>5, <2>1 DEF Execute
<1>6. \/ UNCHANGED book
      \/ \E c \in Cycles : DailyFill(c)
      \/ TickFill
      \/ \E n \in 1 .. MaxOrder : Execute(n) \/ Execute(-n)
  BY DEF PaperNext, paperVars, PriceMoves, StatusChanges, ResetPaperSwitch, DailyGate, DailyDecide, DailyFails,
         SyncPipelines, MarketCloses, HandleTick, TickFails, WorkerRestarts
<1> QED BY <1>1, <1>3, <1>4, <1>5, <1>6

LEMMA PipelineIsRight ==
    ASSUME PaperInv
    PROVE  PipelineTracksLedger
<1>1. book.net \in Int
  BY DEF PaperInv, PaperTypeOK, Books
<1> QED BY <1>1 DEF PaperInv, OrderCompletesPosition, PipelineTracksLedger

(* Realised profit is what was received plus what the open position cost, through adding,
   partial closes, reversals and short positions in any order and at any prices; and unless
   somebody else traded the strategy or one of its orders was not wholly filled, the position
   the worker's pipeline believes in is the one in the ledger (replay_ledger, _sync_pipelines,
   signal_generator, handle_tick). *)
THEOREM BooksAgree == PaperSpec => []PaperBooksAgree
<1>1. PaperInit => PaperInv /\ LedgerBalances
  BY PaperInitial
<1>2. PaperInv /\ [PaperNext]_paperVars => PaperInv'
  BY PaperSteps
<1>3. PaperInv /\ LedgerBalances /\ [PaperNext]_paperVars => LedgerBalances'
  BY FillsBalance
<1>4. PaperInv /\ LedgerBalances => PaperBooksAgree
  BY PipelineIsRight DEF PaperBooksAgree
<1> QED BY <1>1, <1>2, <1>3, <1>4, PTL DEF PaperSpec

-----------------------------------------------------------------------------
(* PaperLegs: the legs of an option strategy *)

LegOrders == [leg : Legs, signed : Int]

(* Orders to send, one for each leg; none takes a leg whose side was kept past its size. *)
Fitting(todo) ==
  /\ todo \in Seq(LegOrders) /\ todo # <<>>
  /\ \A i \in 1 .. Len(todo) :
       todo[i].leg \notin turned => Between(legNet[todo[i].leg] + todo[i].signed, legSize[todo[i].leg])
  /\ \A i, j \in 1 .. Len(todo) : todo[i].leg = todo[j].leg => i = j

LegsTyped == /\ legOverlap \in BOOLEAN /\ DOMAIN legCycle = LegCycles
             /\ DOMAIN plan \subseteq Legs /\ \A l \in DOMAIN plan : plan[l] \in LegSizes

(* What holds as long as no two cycles ran at once. *)
LegsApart ==
  /\ legNet \in [Legs -> Int] /\ legSize \in [Legs -> Int]
  /\ \A l \in Legs \ turned : Between(legNet[l], legSize[l])
  /\ \A l \in DOMAIN plan \ turned : LegOpen(l) \/ OnOrder(l) => SameSide(plan[l], legSize[l])
  /\ \A c \in LegCycles :
       \/ legCycle[c] = NoLegCycle
       \/ legCycle[c].phase = "sending" /\ Fitting(legCycle[c].todo)
  /\ \A c, o \in LegCycles : legCycle[c].phase = "sending" /\ legCycle[o].phase = "sending" => c = o

LegsInv == LegsTyped /\ (~legOverlap => LegsApart)

LEMMA SetListed ==
    ASSUME NEW S, IsFiniteSet(S)
    PROVE  /\ SetToSeq(S) \in [1 .. Cardinality(S) -> S]
           /\ \A i, j \in 1 .. Cardinality(S) : SetToSeq(S)[i] = SetToSeq(S)[j] => i = j
           /\ Cardinality(S) \in Nat
           /\ S # {} => Cardinality(S) > 0
<1>1. Cardinality(S) \in Nat /\ ExistsBijection(1 .. Cardinality(S), S)
  BY FS_CardinalityType
<1>2. PICK f \in [1 .. Cardinality(S) -> S] : \A i, j \in 1 .. Cardinality(S) : f[i] = f[j] => i = j
  BY <1>1 DEF ExistsBijection, Bijection, Injection, IsInjective
<1>3. IsInjective(f)
  BY <1>2 DEF IsInjective
<1>4. /\ SetToSeq(S) \in [1 .. Cardinality(S) -> S] /\ IsInjective(SetToSeq(S))
  BY <1>2, <1>3 DEF SetToSeq
<1>5. S # {} => Cardinality(S) > 0
  BY <1>1, FS_EmptySet
<1> QED BY <1>1, <1>4, <1>5 DEF IsInjective

(* A list of fitting orders, one for each leg of a set. *)
LEMMA OrdersFit ==
    ASSUME NEW S, S \subseteq Legs, S # {}, NEW todo, NEW s, s = SetToSeq(S),
           todo = [i \in 1 .. Len(s) |-> todo[i]],
           \A i \in 1 .. Len(s) : todo[i] \in LegOrders /\ todo[i].leg = s[i]
    PROVE  /\ todo \in Seq(LegOrders) /\ todo # <<>> /\ Len(todo) = Len(s) /\ DOMAIN todo = 1 .. Len(s)
           /\ \A i, j \in 1 .. Len(todo) : todo[i].leg = todo[j].leg => i = j
           /\ \A i \in DOMAIN todo : todo[i].leg \in S
<1>1. IsFiniteSet(S)
  BY LegBounds, FS_Subset
<1> DEFINE n == Cardinality(S)
<1>2. s \in [1 .. n -> S] /\ (\A i, j \in 1 .. n : s[i] = s[j] => i = j) /\ n \in Nat /\ n > 0
  BY <1>1, SetListed
<1> HIDE DEF n
<1>3. Len(s) = n
  BY <1>2
<1>4. todo \in [1 .. n -> LegOrders]
  BY <1>3
<1>5. todo \in Seq(LegOrders) /\ Len(todo) = n
  BY <1>2, <1>4
<1>6. \A i \in 1 .. Len(s) : s[i] \in S
  BY <1>2, <1>3
<1> QED BY <1>2, <1>3, <1>5, <1>6

(* What a decision orders: one fitting order for each of the legs concerned. *)
LEMMA EntryFits ==
    ASSUME LegsTyped, LegsApart, NEW c \in LegCycles, EntryLegs # {},
           legSize' = [l \in Legs |-> IF l \in EntryLegs THEN plan[l] ELSE legSize[l]], UNCHANGED <<legNet, turned>>
    PROVE  /\ EntryLegs \subseteq Legs
           /\ \E o : /\ o = Orders(EntryLegs, EntryOrder) /\ Fitting(o)'
                   /\ \A i \in DOMAIN o : o[i].leg \in EntryLegs
<1> DEFINE S == EntryLegs
           s == SetToSeq(S)
<1>1. PICK t : t = [i \in 1 .. Len(s) |-> EntryOrder(s[i])] /\ t = Orders(EntryLegs, EntryOrder)
  BY DEF Orders
<1>2. S \subseteq Legs /\ S # {} /\ IsFiniteSet(S)
  BY LegBounds, FS_Subset DEF EntryLegs, LegsTyped
<1>3. s \in [1 .. Cardinality(S) -> S] /\ Cardinality(S) \in Nat
  BY <1>2, SetListed
<1>4. \A i \in 1 .. Len(s) : s[i] \in S
  BY <1>3
<1>5. \A l \in S : /\ EntryOrder(l) \in LegOrders /\ EntryOrder(l).leg = l
                   /\ Between(legNet'[l] + EntryOrder(l).signed, legSize'[l])
  <2> SUFFICES ASSUME NEW l \in S
               PROVE  /\ EntryOrder(l) \in LegOrders /\ EntryOrder(l).leg = l
                      /\ Between(legNet'[l] + EntryOrder(l).signed, legSize'[l])
    OBVIOUS
  <2>1. l \in Legs /\ legNet[l] = 0 /\ plan[l] \in Int \ {0} /\ legSize'[l] = plan[l]
    BY <1>2, LegBounds DEF EntryLegs, LegOpen, LegsTyped
  <2>2. EntryOrder(l) = [leg |-> l, signed |-> plan[l]]
    BY DEF EntryOrder
  <2>3. Between(plan[l], plan[l])
    BY <2>1 DEF Between
  <2> QED BY <2>1, <2>2, <2>3 DEF LegOrders
<1>6. /\ t \in Seq(LegOrders) /\ t # <<>>
      /\ \A i \in 1 .. Len(t) :
           t[i].leg \notin turned' => Between(legNet'[t[i].leg] + t[i].signed, legSize'[t[i].leg])
      /\ \A i, j \in 1 .. Len(t) : t[i].leg = t[j].leg => i = j
      /\ \A i \in DOMAIN t : t[i].leg \in S
  <2>1. \A i \in 1 .. Len(s) : t[i] = EntryOrder(s[i])
    BY <1>1
  <2>2. t = [i \in 1 .. Len(s) |-> t[i]]
    BY <1>1
  <2> HIDE DEF s
  <2>3. s = SetToSeq(S)
    BY DEF s
  <2>4. \A i \in 1 .. Len(s) : t[i] \in LegOrders /\ t[i].leg = s[i]
    BY <1>4, <1>5, <2>1
  <2>5. \A i \in 1 .. Len(s) : s[i] \notin turned' => Between(legNet'[s[i]] + t[i].signed, legSize'[s[i]])
    BY <1>4, <1>5, <2>1
  <2> HIDE DEF S
  <2>6. /\ t \in Seq(LegOrders) /\ t # <<>> /\ Len(t) = Len(s) /\ DOMAIN t = 1 .. Len(s)
        /\ \A i, j \in 1 .. Len(t) : t[i].leg = t[j].leg => i = j
        /\ \A i \in DOMAIN t : t[i].leg \in S
    BY <1>2, <2>2, <2>3, <2>4, OrdersFit
  <2> QED BY <2>4, <2>5, <2>6
<1>7. Fitting(t)'
  BY <1>6 DEF Fitting
<1> QED BY <1>1, <1>2, <1>6, <1>7

LEMMA ExitFits ==
    ASSUME LegsTyped, LegsApart, NEW c \in LegCycles, ExitLegs # {}, UNCHANGED <<legNet, turned, legSize>>
    PROVE  /\ ExitLegs \subseteq Legs
           /\ \E o : /\ o = Orders(ExitLegs, ExitOrder) /\ Fitting(o)'
                   /\ \A i \in DOMAIN o : o[i].leg \in ExitLegs
<1> DEFINE S == ExitLegs
           s == SetToSeq(S)
<1>1. PICK t : t = [i \in 1 .. Len(s) |-> ExitOrder(s[i])] /\ t = Orders(ExitLegs, ExitOrder)
  BY DEF Orders
<1>2. S \subseteq Legs /\ S # {} /\ IsFiniteSet(S)
  BY LegBounds, FS_Subset DEF ExitLegs, LegsTyped
<1>3. s \in [1 .. Cardinality(S) -> S] /\ Cardinality(S) \in Nat
  BY <1>2, SetListed
<1>4. \A i \in 1 .. Len(s) : s[i] \in S
  BY <1>3
<1>5. \A l \in S : /\ ExitOrder(l) \in LegOrders /\ ExitOrder(l).leg = l
                   /\ l \notin turned' => Between(legNet'[l] + ExitOrder(l).signed, legSize'[l])
  <2> SUFFICES ASSUME NEW l \in S
               PROVE  /\ ExitOrder(l) \in LegOrders /\ ExitOrder(l).leg = l
                      /\ l \notin turned => Between(legNet[l] + ExitOrder(l).signed, legSize[l])
    OBVIOUS
  <2>1. l \in Legs /\ l \in DOMAIN plan /\ legNet[l] \in Int /\ legNet[l] # 0 /\ legSize[l] \in Int /\ plan[l] \in Int \ {0}
    BY <1>2, LegBounds DEF ExitLegs, LegOpen, LegsTyped, LegsApart
  <2> DEFINE held == IF legNet[l] < 0 THEN -legNet[l] ELSE legNet[l]
             sent == IF plan[l] > 0 THEN -held ELSE held
  <2>2. ExitOrder(l) = [leg |-> l, signed |-> sent] /\ sent \in Int
    BY <2>1 DEF ExitOrder
  <2>3. ASSUME l \notin turned PROVE Between(legNet[l] + sent, legSize[l])
    <3>1. Between(legNet[l], legSize[l]) /\ SameSide(plan[l], legSize[l])
      BY <2>1, <2>3 DEF LegsApart, LegOpen
    <3>2. legNet[l] + sent = 0
      BY <2>1, <3>1 DEF Between, SameSide
    <3>3. Between(0, legSize[l])
      BY <2>1 DEF Between
    <3> QED BY <3>2, <3>3
  <2> HIDE DEF sent
  <2> QED BY <2>1, <2>2, <2>3 DEF LegOrders
<1>6. /\ t \in Seq(LegOrders) /\ t # <<>>
      /\ \A i \in 1 .. Len(t) :
           t[i].leg \notin turned' => Between(legNet'[t[i].leg] + t[i].signed, legSize'[t[i].leg])
      /\ \A i, j \in 1 .. Len(t) : t[i].leg = t[j].leg => i = j
      /\ \A i \in DOMAIN t : t[i].leg \in S
  <2>1. \A i \in 1 .. Len(s) : t[i] = ExitOrder(s[i])
    BY <1>1
  <2>2. t = [i \in 1 .. Len(s) |-> t[i]]
    BY <1>1
  <2> HIDE DEF s
  <2>3. s = SetToSeq(S)
    BY DEF s
  <2>4. \A i \in 1 .. Len(s) : t[i] \in LegOrders /\ t[i].leg = s[i]
    BY <1>4, <1>5, <2>1
  <2>5. \A i \in 1 .. Len(s) : s[i] \notin turned' => Between(legNet'[s[i]] + t[i].signed, legSize'[s[i]])
    BY <1>4, <1>5, <2>1
  <2> HIDE DEF S
  <2>6. /\ t \in Seq(LegOrders) /\ t # <<>> /\ Len(t) = Len(s) /\ DOMAIN t = 1 .. Len(s)
        /\ \A i, j \in 1 .. Len(t) : t[i].leg = t[j].leg => i = j
        /\ \A i \in DOMAIN t : t[i].leg \in S
    BY <1>2, <2>2, <2>3, <2>4, OrdersFit
  <2> QED BY <2>4, <2>5, <2>6
<1>7. Fitting(t)'
  BY <1>6 DEF Fitting
<1> QED BY <1>1, <1>2, <1>6, <1>7

LEMMA DecideKeeps ==
    ASSUME LegsInv, NEW c \in LegCycles, DecideLegs(c)
    PROVE  LegsInv'
<1>1. /\ UNCHANGED <<legNet, plan, turned>> /\ DOMAIN legCycle' = LegCycles
      /\ legOverlap' = (legOverlap \/ \E o \in LegCycles \ {c} : legCycle[o].phase = "sending")
  BY DEF DecideLegs, LegsInv, LegsTyped
<1>2. LegsTyped'
  BY <1>1 DEF LegsInv, LegsTyped
<1>3. ASSUME ~legOverlap' PROVE LegsApart'
  <2>1. ~legOverlap /\ LegsApart /\ LegsTyped /\ \A o \in LegCycles \ {c} : legCycle[o].phase # "sending"
    BY <1>1, <1>3, Zenon DEF LegsInv
  <2>2. PICK t : /\ legCycle' = [legCycle EXCEPT ![c] = [phase |-> "sending", todo |-> t]] /\ Fitting(t)'
                 /\ legSize' \in [Legs -> Int]
                 /\ \A l \in Legs \ turned : Between(legNet[l], legSize'[l])
                 /\ \A l \in DOMAIN plan \ turned : LegOpen(l) => SameSide(plan[l], legSize'[l])
                 /\ \A i \in DOMAIN t : t[i].leg \in DOMAIN plan \ turned => SameSide(plan[t[i].leg], legSize'[t[i].leg])
    <3>1. CASE /\ EntryLegs # {} /\ legCycle' = [legCycle EXCEPT ![c] = [phase |-> "sending", todo |-> Orders(EntryLegs, EntryOrder)]]
               /\ legSize' = [l \in Legs |-> IF l \in EntryLegs THEN plan[l] ELSE legSize[l]]
      <4>1. /\ EntryLegs \subseteq Legs
            /\ \E o : /\ o = Orders(EntryLegs, EntryOrder) /\ Fitting(o)'
                    /\ \A i \in DOMAIN o : o[i].leg \in EntryLegs
        BY <1>1, <2>1, <3>1, EntryFits
      <4>2. \A l \in EntryLegs : plan[l] \in Int \ {0} /\ legNet[l] = 0 /\ legSize'[l] = plan[l]
        BY <2>1, <3>1, <4>1, LegBounds DEF EntryLegs, LegOpen, LegsTyped
      <4>3. \A l \in Legs \ EntryLegs : legSize'[l] = legSize[l]
        BY <3>1
      <4>4. legSize' \in [Legs -> Int]
        BY <2>1, <3>1, <4>2 DEF LegsApart
      <4>5. \A l \in EntryLegs : Between(legNet[l], legSize'[l]) /\ SameSide(plan[l], legSize'[l])
        BY <4>2 DEF Between, SameSide
      <4>6. \A l \in DOMAIN plan \ turned : LegOpen(l) => SameSide(plan[l], legSize'[l])
        BY <2>1, <4>3, <4>5 DEF LegsApart, LegsTyped
      <4>7. \A l \in Legs \ turned : Between(legNet[l], legSize'[l])
        BY <2>1, <4>3, <4>5 DEF LegsApart
      <4> QED BY <3>1, <4>1, <4>4, <4>5, <4>6, <4>7
    <3>2. CASE /\ ExitLegs # {} /\ legCycle' = [legCycle EXCEPT ![c] = [phase |-> "sending", todo |-> Orders(ExitLegs, ExitOrder)]]
               /\ UNCHANGED legSize
      <4>1. /\ ExitLegs \subseteq Legs
            /\ \E o : /\ o = Orders(ExitLegs, ExitOrder) /\ Fitting(o)'
                    /\ \A i \in DOMAIN o : o[i].leg \in ExitLegs
        BY <1>1, <2>1, <3>2, ExitFits
      <4>2. \A l \in DOMAIN plan \ turned : LegOpen(l) => SameSide(plan[l], legSize'[l])
        BY <2>1, <3>2 DEF LegsApart
      <4>3. \A l \in ExitLegs : LegOpen(l) /\ l \in DOMAIN plan
        BY DEF ExitLegs
      <4>4. legSize' \in [Legs -> Int] /\ \A l \in Legs \ turned : Between(legNet[l], legSize'[l])
        BY <2>1, <3>2 DEF LegsApart
      <4> QED BY <3>2, <4>1, <4>2, <4>3, <4>4
    <3> QED BY <3>1, <3>2 DEF DecideLegs
  <2>3. legCycle'[c] = [phase |-> "sending", todo |-> t] /\ \A d \in LegCycles \ {c} : legCycle'[d] = legCycle[d]
    BY <2>1, <2>2 DEF LegsTyped
  <2>4. legCycle'[c].phase = "sending" /\ legCycle'[c].todo = t
    BY <2>3
  <2>5. \A d \in LegCycles \ {c} : legCycle'[d] = NoLegCycle
    BY <2>1, <2>3 DEF LegsApart
  <2>6. NoLegCycle.phase # "sending"
    BY DEF NoLegCycle
  <2>7. (\A d \in LegCycles :
                  \/ legCycle[d] = NoLegCycle
                  \/ legCycle[d].phase = "sending" /\ Fitting(legCycle[d].todo))'
    <3> SUFFICES ASSUME NEW d \in LegCycles, legCycle'[d] # NoLegCycle
                 PROVE  legCycle'[d].phase = "sending" /\ Fitting(legCycle[d].todo)'
      OBVIOUS
    <3>1. d = c
      BY <2>5
    <3> QED BY <2>2, <2>4, <3>1 DEF Fitting
  <2>8. (\A d, o \in LegCycles : legCycle[d].phase = "sending" /\ legCycle[o].phase = "sending" => d = o)'
    BY <2>5, <2>6
  <2>9. (\A l \in DOMAIN plan \ turned : LegOpen(l) \/ OnOrder(l) => SameSide(plan[l], legSize[l]))'
    <3> SUFFICES ASSUME NEW l \in DOMAIN plan \ turned, LegOpen(l) \/ OnOrder(l)'
                 PROVE  SameSide(plan[l], legSize'[l])
      BY <1>1 DEF LegOpen
    <3>1. CASE LegOpen(l)
      BY <2>2, <3>1
    <3>2. CASE OnOrder(l)'
      <4>1. PICK d \in LegCycles : legCycle'[d].phase = "sending" /\ \E i \in DOMAIN legCycle'[d].todo : legCycle'[d].todo[i].leg = l
        BY <3>2 DEF OnOrder
      <4>2. d = c
        BY <2>5, <2>6, <4>1
      <4> QED BY <2>2, <2>4, <4>1, <4>2
    <3> QED BY <3>1, <3>2
  <2>10. legNet' \in [Legs -> Int] /\ legSize' \in [Legs -> Int] /\ (\A l \in Legs \ turned : Between(legNet[l], legSize[l]))'
    BY <1>1, <2>1, <2>2 DEF LegsApart
  <2> QED BY <2>7, <2>8, <2>9, <2>10 DEF LegsApart
<1> QED BY <1>2, <1>3 DEF LegsInv

LEMMA OrderDoneKeeps ==
    ASSUME LegsInv, NEW c \in LegCycles, FillLeg(c) \/ LegFails(c)
    PROVE  LegsInv'
<1>1. /\ UNCHANGED <<plan, legOverlap, legSize, turned>> /\ DOMAIN legCycle' = LegCycles /\ legCycle[c].phase = "sending"
      /\ legCycle' = [legCycle EXCEPT ![c] = IF Len(@.todo) = 1 THEN NoLegCycle
                                             ELSE [phase |-> "sending", todo |-> Tail(@.todo)]]
  BY DEF FillLeg, LegFails, OrderDone, LegsInv, LegsTyped
<1>2. ASSUME ~legOverlap PROVE LegsApart'
  <2>0. NoLegCycle.phase # "sending"
    BY DEF NoLegCycle
  <2>1. /\ LegsApart /\ LegsTyped /\ legNet \in [Legs -> Int] /\ legSize \in [Legs -> Int]
        /\ \A l \in Legs \ turned : Between(legNet[l], legSize[l])
        /\ \A d \in LegCycles \ {c} : legCycle[d] = NoLegCycle
    BY <1>1, <1>2, <2>0 DEF LegsInv, LegsApart
  <2>2. PICK t : t = legCycle[c].todo
    OBVIOUS
  <2>3. Fitting(t)
    BY <1>1, <2>0, <2>1, <2>2 DEF LegsApart
  <2>4. /\ t \in Seq(LegOrders) /\ t # <<>> /\ Len(t) \in Nat /\ Len(t) > 0 /\ 1 \in 1 .. Len(t)
        /\ t[1] \in LegOrders /\ Head(t) = t[1]
    BY <2>3 DEF Fitting
  <2>5. PICK l \in Legs, n \in Int : t[1].leg = l /\ t[1].signed = n
    BY <2>4 DEF LegOrders
  <2>6. /\ legNet[l] \in Int /\ legSize[l] \in Int
        /\ l \notin turned => Between(legNet[l], legSize[l]) /\ Between(legNet[l] + n, legSize[l])
    BY <2>1, <2>3, <2>4, <2>5 DEF Fitting
  <2>7. /\ \A m \in Legs \ {l} : legNet'[m] = legNet[m]
        /\ legNet' \in [Legs -> Int] /\ (l \notin turned => Between(legNet'[l], legSize[l]))
    <3>1. CASE LegFails(c)
      BY <2>1, <2>6, <3>1 DEF LegFails
    <3>2. CASE FillLeg(c)
      <4>1. PICK q \in (IF n > 0 THEN 1 .. n ELSE n .. -1) : legNet' = [legNet EXCEPT ![l] = @ + q]
        BY <2>2, <2>4, <2>5, <3>2 DEF FillLeg
      <4>2. q \in Int /\ legNet'[l] = legNet[l] + q /\ legNet' \in [Legs -> Int] /\ \A m \in Legs \ {l} : legNet'[m] = legNet[m]
        BY <2>1, <4>1
      <4>3. l \notin turned => Between(legNet[l] + q, legSize[l])
        BY <2>6, <4>1, <4>2 DEF Between
      <4> QED BY <4>2, <4>3
    <3> QED BY <3>1, <3>2
  <2>8. (\A m \in Legs \ turned : Between(legNet[m], legSize[m]))'
    BY <1>1, <2>1, <2>7
  <2>9. /\ \A d \in LegCycles \ {c} : legCycle'[d] = NoLegCycle
        /\ legCycle'[c] = NoLegCycle \/ (legCycle'[c] = [phase |-> "sending", todo |-> Tail(t)] /\ Len(t) # 1)
    BY <1>1, <2>1, <2>2 DEF LegsTyped
  <2>t. Len(t) # 1 => /\ Tail(t) \in Seq(LegOrders) /\ Len(Tail(t)) = Len(t) - 1 /\ Tail(t) # <<>>
                      /\ \A i \in 1 .. Len(t) - 1 : Tail(t)[i] = t[i + 1] /\ i + 1 \in 1 .. Len(t) /\ i + 1 # 1
    <3> SUFFICES ASSUME Len(t) # 1
                 PROVE  /\ Tail(t) \in Seq(LegOrders) /\ Len(Tail(t)) = Len(t) - 1 /\ Tail(t) # <<>>
                        /\ \A i \in 1 .. Len(t) - 1 : Tail(t)[i] = t[i + 1] /\ i + 1 \in 1 .. Len(t) /\ i + 1 # 1
      OBVIOUS
    <3>1. Tail(t) \in Seq(LegOrders) /\ Len(Tail(t)) = Len(t) - 1
      BY <2>4
    <3>2. Tail(t) # <<>>
      <4>1. Len(Tail(t)) # 0
        BY <2>4, <3>1
      <4>2. \A u : u = <<>> => Len(u) = 0
        OBVIOUS
      <4> QED BY <4>1, <4>2, Zenon
    <3>3. ASSUME NEW i \in 1 .. Len(t) - 1
          PROVE  Tail(t)[i] = t[i + 1] /\ i + 1 \in 1 .. Len(t) /\ i + 1 # 1
      BY <2>4
    <3> QED BY <3>1, <3>2, <3>3
  <2>10. Len(t) # 1 => Fitting(Tail(t))'
    <3> SUFFICES ASSUME Len(t) # 1 PROVE Fitting(Tail(t))'
      OBVIOUS
    <3>1. \A i \in 1 .. Len(t) :
             i # 1 => /\ t[i].leg \in Legs \ {l}
                      /\ t[i].leg \notin turned => Between(legNet'[t[i].leg] + t[i].signed, legSize[t[i].leg])
      <4> SUFFICES ASSUME NEW i \in 1 .. Len(t), i # 1
                   PROVE  /\ t[i].leg \in Legs \ {l}
                          /\ t[i].leg \notin turned => Between(legNet'[t[i].leg] + t[i].signed, legSize[t[i].leg])
        OBVIOUS
      <4>1. t[i] \in LegOrders
        BY <2>4
      <4>2. t[i].leg \in Legs
        BY <4>1 DEF LegOrders
      <4>3. t[i].leg # t[1].leg /\ (t[i].leg \notin turned => Between(legNet[t[i].leg] + t[i].signed, legSize[t[i].leg]))
        BY <2>3, <2>4 DEF Fitting
      <4>4. t[i].leg \in Legs \ {l}
        BY <2>5, <4>2, <4>3
      <4>5. legNet'[t[i].leg] = legNet[t[i].leg]
        BY <2>7, <4>4
      <4> QED BY <4>3, <4>4, <4>5
    <3>2. \A i \in 1 .. Len(Tail(t)) :
             Tail(t)[i].leg \notin turned => Between(legNet'[Tail(t)[i].leg] + Tail(t)[i].signed, legSize[Tail(t)[i].leg])
      <4> SUFFICES ASSUME NEW i \in 1 .. Len(t) - 1
                   PROVE  Tail(t)[i].leg \notin turned => Between(legNet'[Tail(t)[i].leg] + Tail(t)[i].signed, legSize[Tail(t)[i].leg])
        BY <2>t
      <4>1. Tail(t)[i] = t[i + 1] /\ i + 1 \in 1 .. Len(t) /\ i + 1 # 1
        BY <2>t
      <4> QED BY <3>1, <4>1
    <3>3. \A i, j \in 1 .. Len(Tail(t)) : Tail(t)[i].leg = Tail(t)[j].leg => i = j
      <4> SUFFICES ASSUME NEW i \in 1 .. Len(t) - 1, NEW j \in 1 .. Len(t) - 1, Tail(t)[i].leg = Tail(t)[j].leg
                   PROVE  i = j
        BY <2>t
      <4>1. t[i + 1].leg = t[j + 1].leg /\ i + 1 \in 1 .. Len(t) /\ j + 1 \in 1 .. Len(t)
        BY <2>t
      <4>2. i + 1 = j + 1
        BY <2>3, <4>1 DEF Fitting
      <4> QED BY <4>2, <2>4
    <3> QED BY <1>1, <2>t, <3>2, <3>3 DEF Fitting
  <2>11. (\A d \in LegCycles :
                  \/ legCycle[d] = NoLegCycle
                  \/ legCycle[d].phase = "sending" /\ Fitting(legCycle[d].todo))'
    <3> SUFFICES ASSUME NEW d \in LegCycles, legCycle'[d] # NoLegCycle
                 PROVE  legCycle'[d].phase = "sending" /\ Fitting(legCycle[d].todo)'
      OBVIOUS
    <3>1. d = c /\ legCycle'[c] = [phase |-> "sending", todo |-> Tail(t)] /\ Len(t) # 1
      BY <2>9
    <3>2. PICK u : u = Tail(t)
      OBVIOUS
    <3>3. Fitting(u)'
      BY <2>10, <3>1, <3>2 DEF Fitting
    <3>4. legCycle'[d].phase = "sending" /\ legCycle'[d].todo = u
      BY <3>1, <3>2
    <3> QED BY <3>3, <3>4 DEF Fitting
  <2>12. (\A d, o \in LegCycles : legCycle[d].phase = "sending" /\ legCycle[o].phase = "sending" => d = o)'
    BY <2>0, <2>9
  <2>13. (\A m \in DOMAIN plan \ turned : LegOpen(m) \/ OnOrder(m) => SameSide(plan[m], legSize[m]))'
    <3> SUFFICES ASSUME NEW m \in DOMAIN plan \ turned, LegOpen(m)' \/ OnOrder(m)'
                 PROVE  LegOpen(m) \/ OnOrder(m)
      BY <1>1, <2>1 DEF LegsApart
    <3>0. \A i \in DOMAIN t : OnOrder(t[i].leg)
      BY <1>1, <2>2 DEF OnOrder
    <3>1. CASE OnOrder(m)'
      <4>1. PICK d \in LegCycles : legCycle'[d].phase = "sending" /\ \E i \in DOMAIN legCycle'[d].todo : legCycle'[d].todo[i].leg = m
        BY <3>1 DEF OnOrder
      <4>2. d = c /\ legCycle'[c] = [phase |-> "sending", todo |-> Tail(t)] /\ Len(t) # 1
        BY <2>0, <2>9, <4>1
      <4>3. legCycle'[c].todo = Tail(t)
        BY <4>2
      <4>4. PICK i \in DOMAIN Tail(t) : Tail(t)[i].leg = m
        BY <4>1, <4>2, <4>3
      <4>5. i \in 1 .. Len(t) - 1
        BY <2>t, <4>2
      <4>6. t[i + 1].leg = m /\ i + 1 \in DOMAIN t
        BY <2>4, <2>t, <4>2, <4>4, <4>5
      <4> QED BY <3>0, <4>6
    <3>2. CASE LegOpen(m)'
      <4>1. m \in Legs
        BY <2>1 DEF LegsTyped
      <4>2. CASE m # l
        BY <2>7, <3>2, <4>1, <4>2 DEF LegOpen
      <4>3. CASE m = l
        <5>1. 1 \in DOMAIN t
          BY <2>4
        <5> QED BY <2>5, <3>0, <4>3, <5>1
      <4> QED BY <4>2, <4>3
    <3> QED BY <3>1, <3>2
  <2> QED BY <1>1, <2>1, <2>7, <2>8, <2>11, <2>12, <2>13 DEF LegsApart
<1>3. LegsTyped'
  BY <1>1 DEF LegsInv, LegsTyped
<1> QED BY <1>1, <1>2, <1>3 DEF LegsInv

LEMMA NewLegsKeeps ==
    ASSUME LegsInv, NewLegs
    PROVE  LegsInv'
<1>1. /\ UNCHANGED <<legNet, legCycle, legOverlap, legSize>> /\ plan' \in Plans
      /\ turned' = turned \cup {l \in DOMAIN plan' : (LegOpen(l) \/ OnOrder(l)) /\ ~SameSide(plan'[l], legSize[l])}
  BY DEF NewLegs
<1>2. LegsTyped'
  BY <1>1 DEF LegsInv, LegsTyped, Plans
<1>3. ASSUME ~legOverlap PROVE LegsApart'
  <2>1. LegsApart
    BY <1>3 DEF LegsInv
  <2>2. (\A l \in DOMAIN plan \ turned : LegOpen(l) \/ OnOrder(l) => SameSide(plan[l], legSize[l]))'
    BY <1>1 DEF LegOpen, OnOrder
  <2>4. (\A c \in LegCycles :
           \/ legCycle[c] = NoLegCycle
           \/ legCycle[c].phase = "sending" /\ Fitting(legCycle[c].todo))'
    <3> SUFFICES ASSUME NEW c \in LegCycles
                 PROVE  (\/ legCycle[c] = NoLegCycle
                         \/ legCycle[c].phase = "sending" /\ Fitting(legCycle[c].todo))'
      OBVIOUS
    <3>1. CASE legCycle[c] = NoLegCycle
      BY <1>1, <3>1 DEF NoLegCycle
    <3>2. CASE legCycle[c].phase = "sending" /\ Fitting(legCycle[c].todo)
      <4>1. PICK u : u = legCycle[c].todo /\ Fitting(u)
        BY <3>2
      <4>2. Fitting(u)'
        BY <1>1, <4>1 DEF Fitting
      <4>3. legCycle'[c].phase = "sending" /\ legCycle'[c].todo = u
        BY <1>1, <3>2, <4>1
      <4> QED BY <4>2, <4>3 DEF Fitting
    <3> QED BY <2>1, <3>1, <3>2 DEF LegsApart
  <2> QED BY <1>1, <2>1, <2>2, <2>4 DEF LegsApart
<1> QED BY <1>1, <1>2, <1>3 DEF LegsInv

(* Unless two cycles worked on the strategy at once, or a new version turned the side of a
   leg that is held, no leg is ever traded beyond what its entry ordered, through partial
   fills, failing orders and versions that change legs, sides and quantities between cycles
   (_process_fno_strategy, _persist_suggestion_regeneration). *)
THEOREM LegsStayInPlan == LegsSpec => []LegsWithinPlan
<1>1. LegsInit => LegsInv
  <2> SUFFICES ASSUME LegsInit PROVE LegsInv
    OBVIOUS
  <2>1. legNet \in [Legs -> Int] /\ legSize \in [Legs -> Int] /\ \A l \in Legs : legNet[l] = 0 /\ legSize[l] = 0
    BY DEF LegsInit
  <2>2. Between(0, 0)
    BY DEF Between
  <2>3. \A c \in LegCycles : legCycle[c] = NoLegCycle /\ legCycle[c].phase # "sending"
    BY DEF LegsInit, NoLegCycle
  <2>4. LegsTyped
    BY DEF LegsInit, LegsTyped, Plans
  <2>5. \A l \in DOMAIN plan : ~LegOpen(l) /\ ~OnOrder(l)
    BY <2>1, <2>3, <2>4 DEF LegOpen, OnOrder, LegsTyped
  <2> QED BY <2>1, <2>2, <2>3, <2>4, <2>5 DEF LegsInv, LegsApart
<1>2. LegsInv /\ [LegsNext]_legVars => LegsInv'
  <2> SUFFICES ASSUME LegsInv, [LegsNext]_legVars PROVE LegsInv'
    OBVIOUS
  <2>1. CASE UNCHANGED legVars
    BY <2>1 DEF legVars, LegsInv, LegsTyped, LegsApart, Fitting, LegOpen, OnOrder
  <2> QED BY <2>1, DecideKeeps, OrderDoneKeeps, NewLegsKeeps DEF LegsNext
<1>3. LegsInv => LegsWithinPlan
  BY DEF LegsInv, LegsApart, LegsWithinPlan
<1> QED BY <1>1, <1>2, <1>3, PTL DEF LegsSpec

-----------------------------------------------------------------------------
(* GoLiveGate: days since the last error *)

Outcomes == {"Validated", "Error"}

GateTypeOK ==
  /\ today \in 1 .. LastDay /\ lastError \in 0 .. today
  /\ attempts \in [1 .. LastDay -> SUBSET Outcomes]

(* The two histories say what the recorded outcomes say. *)
HistoriesAgree ==
  /\ \A d \in 1 .. LastDay : attempts[d] # {} => d <= today
  /\ \A d \in 1 .. LastDay : ~CleanDay(attempts[d]) => d <= lastError
  /\ lastError # 0 => ~CleanDay(attempts[lastError])
  /\ cleanSince = {d \in RecordedDays : d > lastError}

GateInv == GateTypeOK /\ HistoriesAgree

LEMMA GateInitial == GateInit => GateInv
<1> SUFFICES ASSUME GateInit PROVE GateInv
  OBVIOUS
<1>1. LastDay \in Nat /\ LastDay >= 1
  BY GateBounds
<1>2. GateTypeOK
  BY <1>1 DEF GateTypeOK, GateInit
<1>3. \A d \in 1 .. LastDay : attempts[d] = {}
  BY DEF GateInit
<1>4. HistoriesAgree
  BY <1>3 DEF HistoriesAgree, GateInit, CleanDay, RecordedDays
<1> QED BY <1>2, <1>4 DEF GateInv

LEMMA AttemptKeeps ==
    ASSUME GateInv, NEW b, RunOneShadowModeAttempt(b)
    PROVE  GateInv'
<1>1. PICK o \in Outcomes :
        /\ attempts' = [attempts EXCEPT ![today] = @ \cup {o}]
        /\ lastError' = IF o = "Error" THEN today ELSE lastError
        /\ cleanSince' = IF o = "Error" THEN {} ELSE IF lastError = today THEN cleanSince ELSE cleanSince \cup {today}
        /\ today' = today
  BY DEF RunOneShadowModeAttempt, AttemptOrder, Outcomes
<1>2. /\ today \in 1 .. LastDay /\ lastError \in 0 .. today /\ LastDay \in Nat /\ today \in Nat /\ lastError \in Nat
      /\ attempts \in [1 .. LastDay -> SUBSET Outcomes]
  BY GateBounds DEF GateInv, GateTypeOK
<1>3. /\ attempts' \in [1 .. LastDay -> SUBSET Outcomes] /\ attempts'[today] = attempts[today] \cup {o}
      /\ \A d \in 1 .. LastDay : d # today => attempts'[d] = attempts[d]
  BY <1>1, <1>2
<1>4. GateTypeOK'
  BY <1>1, <1>2, <1>3 DEF GateTypeOK
<1>5. HistoriesAgree
  BY DEF GateInv
<1>6. \A d \in 1 .. LastDay : attempts'[d] # {} => d <= today'
  BY <1>1, <1>2, <1>3, <1>5 DEF HistoriesAgree
<1>7. RecordedDays' = RecordedDays \cup {today}
  BY <1>2, <1>3 DEF RecordedDays
<1>8. CASE o = "Error"
  <2>1. ~CleanDay(attempts'[today])
    BY <1>3, <1>8 DEF CleanDay
  <2>2. \A d \in 1 .. LastDay : ~CleanDay(attempts'[d]) => d <= today
    BY <1>1, <1>6 DEF CleanDay
  <2>3. {d \in RecordedDays' : d > today} = {}
    BY <1>1, <1>2, <1>6 DEF RecordedDays
  <2> QED BY <1>1, <1>4, <1>6, <1>8, <2>1, <2>2, <2>3 DEF GateInv, HistoriesAgree
<1>9. CASE o = "Validated"
  <2>1. \A d \in 1 .. LastDay : CleanDay(attempts'[d]) <=> CleanDay(attempts[d])
    BY <1>2, <1>3, <1>9 DEF CleanDay
  <2>2. lastError' = lastError /\ (lastError # 0 => lastError \in 1 .. LastDay)
    BY <1>1, <1>2, <1>9
  <2>3. cleanSince' = {d \in RecordedDays' : d > lastError}
    <3>1. cleanSince = {d \in RecordedDays : d > lastError}
      BY <1>5 DEF HistoriesAgree
    <3>2. cleanSince' = IF lastError = today THEN cleanSince ELSE cleanSince \cup {today}
      BY <1>1, <1>9
    <3>3. lastError = today <=> ~(today > lastError)
      BY <1>2
    <3> QED BY <1>7, <3>1, <3>2, <3>3
  <2> QED BY <1>4, <1>5, <1>6, <2>1, <2>2, <2>3 DEF GateInv, HistoriesAgree
<1> QED BY <1>8, <1>9 DEF Outcomes

LEMMA GateSteps ==
    ASSUME GateInv, [GateNext]_gateVars
    PROVE  GateInv'
<1>1. CASE RunShadowModeDailyCycle \/ Attempt
  BY <1>1, AttemptKeeps DEF RunShadowModeDailyCycle, Attempt
<1>2. CASE TradingDayEnds
  <2>1. /\ today \in 1 .. LastDay /\ lastError \in 0 .. today /\ LastDay \in Nat /\ today < LastDay /\ today' = today + 1
        /\ UNCHANGED <<attempts, lastError, cleanSince>>
    BY <1>2, GateBounds DEF GateInv, GateTypeOK, TradingDayEnds
  <2>2. GateTypeOK'
    BY <2>1 DEF GateInv, GateTypeOK
  <2>3. \A d \in 1 .. LastDay : attempts[d] # {} => d <= today + 1
    BY <2>1 DEF GateInv, HistoriesAgree
  <2> QED BY <2>1, <2>2, <2>3 DEF GateInv, HistoriesAgree, RecordedDays
<1>3. CASE UNCHANGED <<today, attempts, lastError, cleanSince>>
  BY <1>3 DEF GateInv, GateTypeOK, HistoriesAgree, RecordedDays
<1> QED BY <1>1, <1>2, <1>3 DEF GateNext, gateVars, ConfigureBroker, PaperTradeExecuted, BacktestRecorded, NewCodeVersion

LEMMA RecordedIsFinite == IsFiniteSet(RecordedDays) /\ Cardinality(RecordedDays) \in Nat
<1>1. IsFiniteSet(1 .. LastDay)
  BY GateBounds, FS_Interval
<1>2. RecordedDays \subseteq 1 .. LastDay
  BY DEF RecordedDays
<1>3. IsFiniteSet(RecordedDays)
  BY <1>1, <1>2, FS_Subset
<1> QED BY <1>3, FS_CardinalityType

(* There is such a number of days: the walk back stops at the first day that is not clean,
   or at the beginning. *)
LEMMA CleanDaysCounted ==
    /\ ConsecutiveCleanDays \in 0 .. Cardinality(RecordedDays)
    /\ \A d \in Latest(ConsecutiveCleanDays) : CleanDay(attempts[d])
<1> DEFINE n == Cardinality(RecordedDays)
           Clean(k) == \A d \in Latest(k) : CleanDay(attempts[d])
           T == {k \in 0 .. n : Clean(k)}
<1>1. n \in Nat
  BY RecordedIsFinite
<1>2. 0 \in T
  <2>1. Latest(0) = {}
    <3> SUFFICES ASSUME NEW d \in Latest(0) PROVE FALSE
      OBVIOUS
    <3>1. Cardinality({e \in RecordedDays : e > d}) < 0
      BY DEF Latest
    <3>2. {e \in RecordedDays : e > d} \subseteq RecordedDays
      OBVIOUS
    <3>3. Cardinality({e \in RecordedDays : e > d}) \in Nat
      BY <3>2, RecordedIsFinite, FS_Subset, FS_CardinalityType
    <3> QED BY <3>1, <3>3
  <2>2. Clean(0)
    BY <2>1
  <2> HIDE DEF Clean
  <2> QED BY <1>1, <2>2
<1> HIDE DEF Clean
<1>3. T \subseteq Nat /\ \A y \in T : y <= n
  BY <1>1
<1>4. PICK k \in T : \A y \in T : y <= k
  BY <1>1, <1>2, <1>3, GreatestNat
<1>5. k \in 0 .. n /\ Clean(k)
  OBVIOUS
<1>6. k = n \/ ~Clean(k + 1)
  <2> SUFFICES ASSUME k # n, Clean(k + 1) PROVE FALSE
    OBVIOUS
  <2>1. k + 1 \in T
    BY <1>1, <1>5
  <2> QED BY <1>4, <1>5, <2>1
<1>7. \E m \in 0 .. n : /\ \A d \in Latest(m) : CleanDay(attempts[d])
                        /\ m = n \/ \E d \in Latest(m + 1) : ~CleanDay(attempts[d])
  BY <1>5, <1>6 DEF Clean
<1> QED BY <1>7 DEF ConsecutiveCleanDays

(* A day that is not clean has as many recorded days after it as the count says. *)
LEMMA GateIsEarned ==
    ASSUME GateInv
    PROVE  GateNeedsCleanDays
<1> SUFFICES ASSUME GateMet
             PROVE  Cardinality(cleanSince) >= MinCleanDays /\ winRate[codeVersion] # {}
  BY DEF GateNeedsCleanDays
<1>1. winRate[codeVersion] # {}
  BY DEF GateMet, PerformanceDivergenceCondition
<1>2. PICK k \in 0 .. Cardinality(RecordedDays) : k >= MinCleanDays /\ \A d \in Latest(k) : CleanDay(attempts[d])
  BY CleanDaysCounted DEF GateMet, ShadowModeCondition
<1>3. /\ cleanSince = {d \in RecordedDays : d > lastError} /\ LastDay \in Nat /\ lastError \in 0 .. LastDay
      /\ Cardinality(RecordedDays) \in Nat /\ MinCleanDays \in Nat
  BY GateBounds, RecordedIsFinite DEF GateInv, GateTypeOK, HistoriesAgree
<1>4. Cardinality(cleanSince) \in Nat
  BY <1>3, RecordedIsFinite, FS_Subset, FS_CardinalityType
<1>5. Cardinality(cleanSince) >= k
  <2>1. CASE lastError = 0
    <3>1. RecordedDays = {d \in RecordedDays : d > lastError}
      BY <1>3, <2>1 DEF RecordedDays
    <3> QED BY <1>2, <1>3, <3>1
  <2>2. CASE lastError # 0
    <3>1. lastError \in 1 .. LastDay /\ ~CleanDay(attempts[lastError])
      BY <1>3, <2>2 DEF GateInv, HistoriesAgree
    <3>2. lastError \in RecordedDays
      BY <3>1 DEF RecordedDays, CleanDay
    <3>3. lastError \notin Latest(k)
      BY <1>2, <3>1
    <3>4. ~(Cardinality({e \in RecordedDays : e > lastError}) < k)
      BY <3>2, <3>3 DEF Latest
    <3> QED BY <1>2, <1>3, <1>4, <3>4
  <2> QED BY <2>1, <2>2
<1> QED BY <1>1, <1>2, <1>3, <1>4, <1>5

(* The gate is open only after MinCleanDays recorded days since the last attempt that failed
   and with a backtest of the current code, although the count is taken from the
   outcomes alone (consecutive_clean_days, compute_readiness). *)
THEOREM GateIsSafe == GateSpec => []GateNeedsCleanDays
<1>1. GateInit => GateInv
  BY GateInitial
<1>2. GateInv /\ [GateNext]_gateVars => GateInv'
  BY GateSteps
<1>3. GateInv => GateNeedsCleanDays
  BY GateIsEarned
<1> QED BY <1>1, <1>2, <1>3, PTL DEF GateSpec
=============================================================================
