------------------------------ MODULE AuditChain ------------------------------
(* The hash-chained audit log: transactions that append to it under an advisory
   lock, the nightly archive of aged rows, and the monitor that compares the
   table, its chain and the archive.

   A hash is modelled as the pair it is computed from, so it is injective; the
   content of a row is a small value, and rows are identified by their ids,
   which a transaction that rolls back leaves unused.                          *)
EXTENDS Naturals, Sequences, FiniteSets

CONSTANTS
  Writers,    \* transactions that write an audit entry
  MaxIds      \* bound on ids of audit_log

ASSUME AuditAssumption == MaxIds \in Nat \ {0} /\ "free" \notin Writers

VARIABLES
  auditLog,   \* committed rows by id
  auditTx,    \* each writer's transaction: the row it has flushed
  nextId,     \* the id sequence, which never goes back
  lock,       \* holder of the advisory lock
  aged,       \* rows older than the archive age
  worm,       \* archived copies by id
  archiver,   \* rows the archive pass still holds
  monitor,    \* what the divergence check has seen
  altered     \* history: how a committed row was changed behind the application

auditVars == <<auditLog, auditTx, nextId, lock, aged, worm, archiver, monitor, altered>>

Genesis == <<>>
EntryHash(body, prev) == <<body, prev>>
AuditRow(body, prev) == [body |-> body, hash |-> EntryHash(body, prev), prev |-> prev]
NoRow == [id |-> 0, row |-> AuditRow(0, Genesis)]
NoMonitor == [phase |-> "idle", live |-> TRUE, ids |-> {}, seen |-> <<>>, alarm |-> FALSE, must |-> FALSE]
EmptyTable == [i \in {} |-> NoRow.row]

AuditInit ==
  /\ auditLog = EmptyTable /\ worm = EmptyTable /\ archiver = EmptyTable
  /\ auditTx = [w \in Writers |-> NoRow]
  /\ nextId = 1 /\ lock = "free" /\ aged = {} /\ monitor = NoMonitor /\ altered = "no"

LastId(table) == CHOOSE i \in DOMAIN table : \A j \in DOMAIN table : j <= i
PrevId(table, i) == CHOOSE j \in DOMAIN table : j < i /\ \A k \in DOMAIN table : k < i => k <= j
LastHash == IF DOMAIN auditLog = {} THEN Genesis ELSE auditLog[LastId(auditLog)].hash
PutRow(table, i, row) == [j \in DOMAIN table \cup {i} |-> IF j = i THEN row ELSE table[j]]

-----------------------------------------------------------------------------
(* write_audit_entry inside its caller's transaction. *)

(* Mutant: the last row is read without the advisory lock. *)
BeginWrite_Unlocked(w) ==
  /\ auditTx[w] = NoRow /\ nextId <= MaxIds
  /\ lock' = "free"
  /\ auditTx' = [auditTx EXCEPT ![w] = [id |-> nextId, row |-> AuditRow(1, LastHash)]]
  /\ nextId' = nextId + 1
  /\ UNCHANGED <<auditLog, aged, worm, archiver, monitor, altered>>

BeginWrite(w) ==
  /\ auditTx[w] = NoRow /\ lock = "free" /\ nextId <= MaxIds
  /\ lock' = w
  /\ auditTx' = [auditTx EXCEPT ![w] = [id |-> nextId, row |-> AuditRow(1, LastHash)]]
  /\ nextId' = nextId + 1
  /\ UNCHANGED <<auditLog, aged, worm, archiver, monitor, altered>>

EndTx(w) == auditTx' = [auditTx EXCEPT ![w] = NoRow] /\ lock' = "free"

CommitWrite(w) ==
  /\ auditTx[w] # NoRow
  /\ auditLog' = PutRow(auditLog, auditTx[w].id, auditTx[w].row)
  /\ EndTx(w)
  /\ UNCHANGED <<nextId, aged, worm, archiver, monitor, altered>>

RollbackWrite(w) ==
  /\ auditTx[w] # NoRow
  /\ EndTx(w)
  /\ UNCHANGED <<auditLog, nextId, aged, worm, archiver, monitor, altered>>

(* Rows age in the order they were written. *)
DayPasses ==
  /\ aged # DOMAIN auditLog
  /\ aged' = aged \cup {i \in DOMAIN auditLog : \A j \in DOMAIN auditLog \ aged : i <= j}
  /\ UNCHANGED <<auditLog, auditTx, nextId, lock, worm, archiver, monitor, altered>>

-----------------------------------------------------------------------------
(* archive_pending_rows: the rows are loaded, what is already archived is
   skipped, and every other row is put, or fails, on its own. *)

ArchiveStart ==
  /\ DOMAIN archiver = {} /\ aged \ DOMAIN worm # {}
  /\ archiver' = [i \in aged \ DOMAIN worm |-> auditLog[i]]
  /\ UNCHANGED <<auditLog, auditTx, nextId, lock, aged, worm, monitor, altered>>

ArchiveRow ==
  /\ DOMAIN archiver # {}
  /\ LET i == CHOOSE i \in DOMAIN archiver : \A j \in DOMAIN archiver : i <= j
     IN /\ \/ worm' = PutRow(worm, i, archiver[i])
           \/ UNCHANGED worm
        /\ archiver' = [j \in DOMAIN archiver \ {i} |-> archiver[j]]
  /\ UNCHANGED <<auditLog, auditTx, nextId, lock, aged, monitor, altered>>

-----------------------------------------------------------------------------
(* run_divergence_check: the chain, then the list of archived ids with their live
   rows, then the archived copies, which no longer change. *)

VerifyChain(table) ==
  \A i \in DOMAIN table :
    LET prev == IF \E j \in DOMAIN table : j < i THEN table[PrevId(table, i)].hash ELSE Genesis
    IN table[i].prev = prev /\ table[i].hash = EntryHash(table[i].body, prev)

(* What a check that starts now must not miss. *)
Divergent == \/ ~VerifyChain(auditLog)
             \/ \E i \in DOMAIN worm : worm[i].hash # auditLog[i].hash

MonitorStart ==
  /\ monitor.phase = "idle"
  /\ monitor' = [NoMonitor EXCEPT !.phase = "list", !.live = VerifyChain(auditLog), !.must = Divergent]
  /\ UNCHANGED <<auditLog, auditTx, nextId, lock, aged, worm, archiver, altered>>

MonitorList ==
  /\ monitor.phase = "list"
  /\ monitor' = [monitor EXCEPT !.phase = "check", !.ids = DOMAIN worm,
                                !.seen = [i \in DOMAIN worm |-> auditLog[i].hash]]
  /\ UNCHANGED <<auditLog, auditTx, nextId, lock, aged, worm, archiver, altered>>

(* Mutant: an archived copy is only compared with its own content. *)
ArchiveDiverges_Lax ==
  \E i \in monitor.ids : worm[i].hash # EntryHash(worm[i].body, worm[i].prev)

ArchiveDiverges ==
  \E i \in monitor.ids : \/ worm[i].hash # EntryHash(worm[i].body, worm[i].prev)
                         \/ monitor.seen[i] # worm[i].hash

MonitorCheck ==
  /\ monitor.phase = "check"
  /\ monitor' = [monitor EXCEPT !.phase = "done", !.alarm = ~monitor.live \/ ArchiveDiverges]
  /\ UNCHANGED <<auditLog, auditTx, nextId, lock, aged, worm, archiver, altered>>

MonitorAgain ==
  /\ monitor.phase = "done"
  /\ monitor' = NoMonitor
  /\ UNCHANGED <<auditLog, auditTx, nextId, lock, aged, worm, archiver, altered>>

-----------------------------------------------------------------------------
(* The gap AuditLog's comment names: the owner of the table can turn the trigger
   off.  A row is edited as it stands, or it and its successors are written
   afresh with hashes that fit. *)

EditRow(i) ==
  /\ altered = "no" /\ lock = "free"
  /\ auditLog' = [auditLog EXCEPT ![i].body = 2]
  /\ altered' = "edited"
  /\ UNCHANGED <<auditTx, nextId, lock, aged, worm, archiver, monitor>>

RewriteLast ==
  /\ altered = "no" /\ lock = "free" /\ DOMAIN auditLog # {}
  /\ LET i == LastId(auditLog) IN auditLog' = [auditLog EXCEPT ![i] = AuditRow(2, auditLog[i].prev)]
  /\ altered' = "rewritten"
  /\ UNCHANGED <<auditTx, nextId, lock, aged, worm, archiver, monitor>>

AuditNext ==
  \/ \E w \in Writers : BeginWrite(w) \/ CommitWrite(w) \/ RollbackWrite(w)
  \/ DayPasses \/ ArchiveStart \/ ArchiveRow
  \/ MonitorStart \/ MonitorList \/ MonitorCheck \/ MonitorAgain
  \/ (\E i \in DOMAIN auditLog : EditRow(i)) \/ RewriteLast

AuditSpec == AuditInit /\ [][AuditNext]_auditVars

-----------------------------------------------------------------------------
(* Concurrent transactions, some of which roll back, leave one chain: unless a
   row was edited, verify_chain accepts the log at every moment. *)
ChainIntact == altered # "edited" => VerifyChain(auditLog)

(* The divergence check raises an alarm exactly when it should, while
   transactions and the archive pass go on beside it: never without a change
   behind the application, and always when it began after one that the chain or
   an archived copy can still show. *)
MonitorIsRight ==
  monitor.phase = "done" => /\ monitor.alarm => altered # "no"
                            /\ monitor.must => monitor.alarm

(* The log is one chain and whoever tampers with it is found out. *)
AuditTrailHolds == ChainIntact /\ MonitorIsRight
=============================================================================
