----------------------------- MODULE SandboxPool -----------------------------
(* Backtest jobs and the pool of warm sandbox workers they run in: one thread per
   job, at most PoolSize pooled workers and a temporary one for whoever finds none,
   one line of JSON per job on a worker's stdin and stdout. *)
EXTENDS Integers, Sequences, FiniteSets

CONSTANTS
  BtJobs,            \* backtest jobs
  NoisyJobs,         \* those whose strategy code prints
  Workers,           \* worker processes that may be spawned
  PoolSize,          \* settings.sandbox_pool_size
  MaxJobsPerWorker   \* MAX_JOBS_PER_WORKER

ASSUME PoolBounds ==
  NoisyJobs \subseteq BtJobs /\ PoolSize \in Nat \ {0} /\ MaxJobsPerWorker \in Nat \ {0}
  /\ IsFiniteSet(Workers)
  /\ Cardinality(Workers) > PoolSize /\ "none" \notin Workers

VARIABLES
  bt,        \* thread and _BacktestJob of each job
  worker,    \* worker processes: stdin, stdout, jobs done
  pool,      \* SandboxWorkerPool._available
  lostSlots, \* history: pooled workers that could not be replaced
  saved      \* BacktestResult rows: the job that wrote it, whose numbers it holds

poolVars == <<bt, worker, pool, lostSlots, saved>>

NoWorker == "none"
NoBacktest == [phase |-> "idle", status |-> "none", at |-> NoWorker, got |-> "none",
          raised |-> FALSE, tainted |-> FALSE]
Fresh(overflow) == [alive |-> TRUE, overflow |-> overflow, done |-> 0, inbox |-> <<>>, pipe |-> <<>>, noised |-> FALSE]
Dead == [Fresh(FALSE) EXCEPT !.alive = FALSE]

(* get_pool creates the pool on first use; here it is there from the start. *)
PoolInit ==
  /\ pool = CHOOSE first \in SUBSET Workers : Cardinality(first) = PoolSize
  /\ worker = [w \in Workers |-> IF w \in pool THEN Fresh(FALSE) ELSE Dead]
  /\ bt = [j \in BtJobs |-> NoBacktest] /\ lostSlots = 0 /\ saved = {}

InUse(w) == w \in pool \/ \E j \in BtJobs : bt[j].at = w
Unused == {w \in Workers : ~InUse(w)}

-----------------------------------------------------------------------------
(* The request and the start of its thread *)

TriggerBacktest(j) ==
  /\ bt[j].phase = "idle" /\ bt[j].status = "none"
  /\ bt' = [bt EXCEPT ![j].phase = "start", ![j].status = "Running"]
  /\ UNCHANGED <<worker, pool, lostSlots, saved>>

(* No universe, no data, a failed run: the job is Failed. *)
Settled(j, status) == [bt[j] EXCEPT !.phase = "ended", !.status = status, !.at = NoWorker]

NoData(j) ==
  /\ bt[j].phase = "start"
  /\ bt' = [bt EXCEPT ![j] = Settled(j, "Failed")]
  /\ UNCHANGED <<worker, pool, lostSlots, saved>>

(* Nothing catches what the thread raises: the version vanished, the lake or the
   database failed, walk-forward or Monte Carlo raised. *)
ThreadRaises(j) ==
  /\ bt[j].phase \in {"start", "persist", "simulate"}
  /\ bt' = [bt EXCEPT ![j].phase = "ended", ![j].raised = TRUE]
  /\ UNCHANGED <<worker, pool, lostSlots, saved>>

-----------------------------------------------------------------------------
(* SandboxWorkerPool *)

(* A worker of the pool, or an overflow worker; if that cannot be spawned the job
   goes to the one-shot sandbox. *)
Checkout(j) ==
  /\ bt[j].phase = "start"
  /\ \/ \E w \in pool :
          /\ pool' = pool \ {w} /\ UNCHANGED worker
          /\ bt' = [bt EXCEPT ![j].phase = "send", ![j].at = w]
     \/ LET w == CHOOSE u \in Unused : TRUE
        IN /\ pool = {} /\ Unused # {} /\ UNCHANGED pool
           /\ worker' = [worker EXCEPT ![w] = Fresh(TRUE)]
           /\ bt' = [bt EXCEPT ![j].phase = "send", ![j].at = w]
     \/ /\ pool = {} /\ UNCHANGED <<pool, worker>>
        /\ bt' = [bt EXCEPT ![j].phase = "oneshot"]
  /\ UNCHANGED <<lostSlots, saved>>

(* Mutant: an overflow worker is given to the pool like any other. *)
Checkin_KeepsOverflow(w, rec, healthy, j, outcome) ==
  /\ worker' = [worker EXCEPT ![w] = rec]
  /\ pool' = pool \cup {w} /\ bt' = [bt EXCEPT ![j] = outcome] /\ UNCHANGED lostSlots

(* An overflow worker is killed; one that is poisoned or used up is killed and
   replaced.  If the replacement cannot be spawned the slot is lost, and what the
   spawn raises sends the job to the one-shot sandbox. *)
Checkin(w, rec, healthy, j, outcome) ==
  LET reusable == healthy /\ rec.done < MaxJobsPerWorker
  IN \/ /\ rec.overflow
        /\ worker' = [worker EXCEPT ![w] = Dead]
        /\ bt' = [bt EXCEPT ![j] = outcome] /\ UNCHANGED <<pool, lostSlots>>
     \/ /\ ~rec.overflow
        /\ worker' = [worker EXCEPT ![w] = IF reusable THEN rec ELSE Fresh(FALSE)]
        /\ pool' = pool \cup {w} /\ bt' = [bt EXCEPT ![j] = outcome] /\ UNCHANGED lostSlots
     \/ /\ ~rec.overflow /\ ~reusable
        /\ worker' = [worker EXCEPT ![w] = Dead]
        /\ bt' = [bt EXCEPT ![j].phase = "oneshot", ![j].at = NoWorker]
        /\ lostSlots' = lostSlots + 1 /\ UNCHANGED pool

SendJob(j) ==
  LET w == bt[j].at
  IN /\ bt[j].phase = "send"
     /\ IF worker[w].alive
          THEN /\ worker' = [worker EXCEPT ![w].inbox = Append(@, j)]
               /\ bt' = [bt EXCEPT ![j].phase = "read"] /\ UNCHANGED <<pool, lostSlots>>
          ELSE Checkin(w, worker[w], FALSE, j, Settled(j, "Failed"))
     /\ UNCHANGED saved

(* What the strategy prints comes out before its result, or stays in the buffer. *)
WorkerAnswers(w) ==
  LET j == Head(worker[w].inbox)
  IN /\ worker[w].alive /\ worker[w].inbox # <<>>
     /\ \E noise \in IF j \in NoisyJobs THEN {<<>>, <<"noise">>} ELSE {<<>>} :
          worker' = [worker EXCEPT ![w].inbox = Tail(@), ![w].pipe = @ \o noise \o <<j>>,
                                   ![w].noised = @ \/ noise # <<>>]
     /\ UNCHANGED <<bt, pool, lostSlots, saved>>

(* The CPU limit, a result that cannot be written as JSON, out of memory. *)
WorkerDies(w) ==
  /\ worker[w].alive
  /\ worker' = [worker EXCEPT ![w].alive = FALSE, ![w].inbox = <<>>]
  /\ UNCHANGED <<bt, pool, lostSlots, saved>>

(* The first line is the answer, whatever else was in the chunk is dropped, what
   comes later stays in the pipe.  The worker counts as healthy. *)
ReadLine(j) ==
  LET w == bt[j].at
      lines == worker[w].pipe
      answer == [bt[j] EXCEPT !.phase = "persist", !.at = NoWorker, !.got = Head(lines),
                              !.tainted = worker[w].noised]
  IN /\ bt[j].phase = "read" /\ lines # <<>>
     /\ \E k \in 1 .. Len(lines), outcome \in {Settled(j, "Failed")} \cup
                                              (IF Head(lines) = "noise" THEN {} ELSE {answer}) :
          Checkin(w, [worker[w] EXCEPT !.pipe = SubSeq(lines, k + 1, Len(lines)), !.done = @ + 1],
                  TRUE, j, outcome)
     /\ UNCHANGED saved

(* Mutant: a worker that has not answered in time is kept. *)
ReadTimeout_KeepsWorker(j) ==
  /\ bt[j].phase = "read"
  /\ Checkin(bt[j].at, worker[bt[j].at], TRUE, j, Settled(j, "Failed"))
  /\ UNCHANGED saved

(* Mutant: the read waits for a line or for the end of the worker. *)
ReadTimeout_OnlyAtEnd(j) ==
  /\ bt[j].phase = "read" /\ ~worker[bt[j].at].alive
  /\ Checkin(bt[j].at, worker[bt[j].at], FALSE, j, Settled(j, "Failed"))
  /\ UNCHANGED saved

(* The deadline passes, or the worker is gone. *)
ReadTimeout(j) ==
  /\ bt[j].phase = "read"
  /\ Checkin(bt[j].at, worker[bt[j].at], FALSE, j, Settled(j, "Failed"))
  /\ UNCHANGED saved

(* execute_in_sandbox: a process of its own; anything printed spoils its output. *)
OneShot(j) ==
  /\ bt[j].phase = "oneshot"
  /\ \/ bt' = [bt EXCEPT ![j] = Settled(j, "Failed")]
     \/ j \notin NoisyJobs /\ bt' = [bt EXCEPT ![j].phase = "persist", ![j].got = j]
  /\ UNCHANGED <<worker, pool, lostSlots, saved>>

(* The row and its equity curve are committed, then the simulation is run. *)
PersistResult(j) ==
  /\ bt[j].phase = "persist"
  /\ saved' = saved \cup {[by |-> j, of |-> bt[j].got]}
  /\ bt' = [bt EXCEPT ![j].phase = "simulate"]
  /\ UNCHANGED <<worker, pool, lostSlots>>

Simulate(j) ==
  /\ bt[j].phase = "simulate"
  /\ bt' = [bt EXCEPT ![j] = Settled(j, "Completed")]
  /\ UNCHANGED <<worker, pool, lostSlots, saved>>

ThreadStep(j) ==
  \/ NoData(j) \/ ThreadRaises(j) \/ Checkout(j) \/ SendJob(j) \/ ReadLine(j) \/ ReadTimeout(j)
  \/ OneShot(j) \/ PersistResult(j) \/ Simulate(j)

PoolNext ==
  \/ \E j \in BtJobs : TriggerBacktest(j) \/ ThreadStep(j)
  \/ \E w \in Workers : WorkerAnswers(w) \/ WorkerDies(w)

(* Threads run on; nothing is assumed of the workers, whose code may hang. *)
JobFairness(j) == WF_poolVars(ThreadStep(j))
PoolFairness == \A j \in BtJobs : JobFairness(j)

PoolSpec == PoolInit /\ [][PoolNext]_poolVars /\ PoolFairness

-----------------------------------------------------------------------------
(* The numbers saved for a job are those its own code produced: late answers,
   deaths and replacements of workers never hand it another job's, unless a
   strategy that prints ran in the same worker before. *)
ResultsAreOwn == \A j \in BtJobs : bt[j].got \in {"none", j} \/ bt[j].tainted

(* Overflow workers come and go and pooled ones are replaced, but the pool keeps
   its size, except for slots whose replacement could not be spawned. *)
PoolKeepsItsSize ==
  Cardinality(pool) + Cardinality({j \in BtJobs : bt[j].at # NoWorker /\ ~worker[bt[j].at].overflow})
    = PoolSize - lostSlots

(* Neither results nor workers get lost or mixed up. *)
PoolHolds == ResultsAreOwn /\ PoolKeepsItsSize

(* A backtest job stops being Running even if its code hangs or its worker dies,
   unless its thread raised, which nothing records. *)
BacktestsEnd == \A j \in BtJobs : bt[j].status = "Running" ~> (bt[j].status # "Running" \/ bt[j].raised)
=============================================================================
