---------------------------- MODULE BhavcopyCache ----------------------------
(* The NSE F&O bhavcopy provider keeps each day's file in a cache directory that
   all requests share.  A request loads its days with a pool of threads; a day the
   archive has no file for is remembered by an empty file and never asked again. *)
EXTENDS Naturals, FiniteSets

CONSTANTS
  Days,     \* trading days requests may ask for
  Loaders   \* pool threads of the requests under way

VARIABLES
  published,  \* days the archive has a file for
  cached,     \* file in the cache directory: "absent", "empty", "part" or "full"
  loader,     \* each thread: its day, its step, the text it writes, whether the day was out at first
  early,      \* history: days once asked for before the archive had them
  blank       \* history: "no row" answered for a day that was out when it was asked for

bhavVars == <<published, cached, loader, early, blank>>

NoLoad == [day |-> "none", phase |-> "idle", text |-> "none", out |-> FALSE]

BhavInit ==
  /\ published = {} /\ cached = [d \in Days |-> "absent"]
  /\ loader = [t \in Loaders |-> NoLoad] /\ early = {} /\ blank = {}

Publish(d) ==
  /\ d \notin published /\ published' = published \cup {d}
  /\ UNCHANGED <<cached, loader, early, blank>>

(* get_historical_data and its thread pool: one thread takes one day. *)
LoadStart(t, d) ==
  /\ loader[t].phase = "idle"
  /\ loader' = [loader EXCEPT ![t] = [NoLoad EXCEPT !.day = d, !.phase = "look", !.out = d \in published]]
  /\ UNCHANGED <<published, cached, early, blank>>

(* What a reader makes of the file: no text is no file, a part of the text may lack
   the contract's row. *)
Answers(text) == CASE text = "full" -> {"row"} [] text = "part" -> {"row", "norow"} [] OTHER -> {"norow"}

Answer(t, row) ==
  /\ loader' = [loader EXCEPT ![t] = NoLoad]
  /\ blank' = IF row = "norow" /\ loader[t].out
                THEN blank \cup {[day |-> loader[t].day, torn |-> cached[loader[t].day] = "part"]}
                ELSE blank

ReadCache(t) ==
  /\ loader[t].phase = "look" /\ cached[loader[t].day] # "absent"
  /\ \E row \in Answers(cached[loader[t].day]) : Answer(t, row)
  /\ UNCHANGED <<published, cached, early>>

(* Not in the cache: the file is downloaded, the archive answers 404, or it fails
   and the provider call raises. *)
Download(t) ==
  LET d == loader[t].day
  IN /\ loader[t].phase = "look" /\ cached[d] = "absent"
     /\ loader' = [loader EXCEPT ![t].phase = "write",
                                 ![t].text = IF d \in published THEN "full" ELSE "empty"]
     /\ early' = IF d \in published THEN early ELSE early \cup {d}
     /\ UNCHANGED <<published, cached, blank>>

(* Mutant: any HTTP error leaves the marker of a missing file. *)
DownloadFails_Marks(t) ==
  /\ loader[t].phase = "look" /\ cached[loader[t].day] = "absent"
  /\ loader' = [loader EXCEPT ![t] = NoLoad]
  /\ cached' = [cached EXCEPT ![loader[t].day] = "empty"]
  /\ UNCHANGED <<published, early, blank>>

DownloadFails(t) ==
  /\ loader[t].phase = "look" /\ cached[loader[t].day] = "absent"
  /\ loader' = [loader EXCEPT ![t] = NoLoad]
  /\ UNCHANGED <<published, cached, early, blank>>

(* write_text opens the file, empties it and fills it: another thread may read in
   between. *)
WriteOpens(t) ==
  /\ loader[t].phase = "write"
  /\ loader' = [loader EXCEPT ![t].phase = "fill"]
  /\ cached' = [cached EXCEPT ![loader[t].day] = IF loader[t].text = "full" THEN "part" ELSE "empty"]
  /\ UNCHANGED <<published, early, blank>>

WriteCloses(t) ==
  /\ loader[t].phase = "fill"
  /\ cached' = [cached EXCEPT ![loader[t].day] = loader[t].text]
  /\ \E row \in Answers(loader[t].text) : Answer(t, row)
  /\ UNCHANGED <<published, early>>

BhavNext ==
  \/ \E d \in Days : Publish(d)
  \/ \E t \in Loaders :
       \/ ReadCache(t) \/ Download(t) \/ DownloadFails(t) \/ WriteOpens(t) \/ WriteCloses(t)
       \/ \E d \in Days : LoadStart(t, d)

BhavSpec == BhavInit /\ [][BhavNext]_bhavVars

-----------------------------------------------------------------------------
(* The contract's row of a published day is missing from an answer only if the day
   was once asked for before its file was out, or if the file was read while
   another thread wrote it: errors of the archive leave nothing behind. *)
MissingOnlyIfEarlyOrTorn == \A b \in blank : b.day \in early \/ b.torn
=============================================================================
