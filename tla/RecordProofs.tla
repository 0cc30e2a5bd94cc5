---------------------------- MODULE RecordProofs ----------------------------
(* Proofs about what the platform records and spends, for any number of transactions, rows
   and threads: the audit chain, the event log, conflicts between agents' results and the
   budget of the LLM router. *)
EXTENDS AuditChain, EventLog, Conflicts, LlmRouter, FiniteSetTheorems, WellFoundedInduction, TLAPS

-----------------------------------------------------------------------------
(* AuditChain: one chain, and a monitor that finds a change *)

LEMMA LeastNat ==
    ASSUME NEW T, T \subseteq Nat, T # {}
    PROVE  \E x \in T : \A y \in T : x <= y
<1> DEFINE R == OpToRel(<, Nat)
<1>1. IsWellFoundedOn(R, Nat)
  BY NatLessThanWellFounded, Zenon
<1>2. \A a, b \in Nat : a < b => <<a, b>> \in R
  BY DEF OpToRel
<1> HIDE DEF R
<1>3. PICK x \in T : \A y \in T : ~(<<y, x>> \in R)
  BY <1>1, WFMin
<1>4. \A y \in T : ~(y < x)
  BY <1>2, <1>3
<1> QED BY <1>4

LEMMA GreatestNat ==
    ASSUME NEW T, T \subseteq Nat, T # {}, NEW n \in Nat, \A y \in T : y <= n
    PROVE  \E x \in T : \A y \in T : y <= x
<1> DEFINE U == {k \in Nat : \A y \in T : y <= k}
<1>1. U \subseteq Nat /\ U # {}
  OBVIOUS
<1>2. PICK m \in U : \A k \in U : m <= k
  BY <1>1, LeastNat
<1>3. m \in T
  <2> SUFFICES ASSUME m \notin T PROVE FALSE
    OBVIOUS
  <2>1. \A y \in T : y \in Nat /\ y <= m /\ y # m
    OBVIOUS
  <2>2. PICK y \in T : y \in Nat /\ y <= m /\ y # m
    BY <2>1
  <2>4. m \in Nat /\ m > 0
    BY <2>2
  <2>3. m - 1 \in Nat /\ \A k \in T : k <= m - 1
    BY <2>1, <2>4
  <2> QED BY <1>2, <2>3
<1> QED BY <1>3

IsPrev(table, i, p) == p \in DOMAIN table /\ p < i /\ \A k \in DOMAIN table : k < i => k <= p

(* verify_chain row by row: the first one continues from nothing, every other one from
   the row before it. *)
ChainOK(table) ==
  \A i \in DOMAIN table :
    /\ table[i].hash = EntryHash(table[i].body, table[i].prev)
    /\ (\A j \in DOMAIN table : ~(j < i)) => table[i].prev = Genesis
    /\ \A p \in DOMAIN table : IsPrev(table, i, p) => table[i].prev = table[p].hash

IsLast(table, i) == i \in DOMAIN table /\ \A j \in DOMAIN table : j <= i

LEMMA PrevExists ==
    ASSUME NEW table, DOMAIN table \subseteq Nat, NEW i \in DOMAIN table, NEW j \in DOMAIN table, j < i
    PROVE  IsPrev(table, i, PrevId(table, i))
<1> DEFINE T == {k \in DOMAIN table : k < i}
<1>1. T \subseteq Nat /\ T # {} /\ i \in Nat /\ \A y \in T : y <= i
  OBVIOUS
<1>2. PICK p \in T : \A y \in T : y <= p
  BY <1>1, GreatestNat
<1>3. \E q \in DOMAIN table : q < i /\ \A k \in DOMAIN table : k < i => k <= q
  BY <1>2
<1> QED BY <1>3 DEF PrevId, IsPrev

LEMMA VerifyIsChainOK ==
    ASSUME NEW table, DOMAIN table \subseteq Nat
    PROVE  VerifyChain(table) <=> ChainOK(table)
<1> DEFINE First(i) == \A j \in DOMAIN table : ~(j < i)
           Before(i) == IF \E j \in DOMAIN table : j < i THEN table[PrevId(table, i)].hash ELSE Genesis
<1>1. ASSUME NEW i \in DOMAIN table
      PROVE  (table[i].prev = Before(i)) <=>
               /\ First(i) => table[i].prev = Genesis
               /\ \A p \in DOMAIN table : IsPrev(table, i, p) => table[i].prev = table[p].hash
  <2>1. CASE First(i)
    <3>1. Before(i) = Genesis /\ \A p \in DOMAIN table : ~IsPrev(table, i, p)
      BY <2>1 DEF IsPrev
    <3> QED BY <2>1, <3>1
  <2>2. CASE ~First(i)
    <3>1. PICK j \in DOMAIN table : j < i
      BY <2>2
    <3>2. IsPrev(table, i, PrevId(table, i)) /\ Before(i) = table[PrevId(table, i)].hash
      BY <3>1, PrevExists
    <3> DEFINE q == PrevId(table, i)
    <3> HIDE DEF q, Before
    <3>3. IsPrev(table, i, q) /\ Before(i) = table[q].hash
      BY <3>2 DEF q
    <3>4. \A p \in DOMAIN table : IsPrev(table, i, p) => p = q
      BY <3>3 DEF IsPrev
    <3>5. q \in DOMAIN table
      BY <3>3 DEF IsPrev
    <3> QED BY <2>2, <3>3, <3>4, <3>5
  <2> QED BY <2>1, <2>2
<1>2. VerifyChain(table) <=> \A i \in DOMAIN table :
        table[i].prev = Before(i) /\ table[i].hash = EntryHash(table[i].body, Before(i))
  BY DEF VerifyChain
<1> HIDE DEF Before, First
<1>3. VerifyChain(table) <=> \A i \in DOMAIN table :
        table[i].prev = Before(i) /\ table[i].hash = EntryHash(table[i].body, table[i].prev)
  BY <1>2
<1>4. ChainOK(table) <=> \A i \in DOMAIN table :
        /\ table[i].hash = EntryHash(table[i].body, table[i].prev)
        /\ First(i) => table[i].prev = Genesis
        /\ \A p \in DOMAIN table : IsPrev(table, i, p) => table[i].prev = table[p].hash
  BY DEF ChainOK, First
<1> QED BY <1>1, <1>3, <1>4

(* A row with a greater id that continues from the last one. *)
LEMMA ChainGrows ==
    ASSUME NEW table, DOMAIN table \subseteq Nat, ChainOK(table), NEW n \in Nat, \A j \in DOMAIN table : j < n,
           NEW row, row.hash = EntryHash(row.body, row.prev),
           DOMAIN table = {} => row.prev = Genesis,
           \A i \in DOMAIN table : IsLast(table, i) => row.prev = table[i].hash
    PROVE  ChainOK(PutRow(table, n, row))
<1> DEFINE t == PutRow(table, n, row)
<1>1. DOMAIN t = DOMAIN table \cup {n} /\ t[n] = row /\ (\A j \in DOMAIN table : t[j] = table[j]) /\ n \notin DOMAIN table
  BY DEF PutRow
<1> HIDE DEF t
<1> SUFFICES ASSUME NEW i \in DOMAIN t
             PROVE  /\ t[i].hash = EntryHash(t[i].body, t[i].prev)
                    /\ (\A j \in DOMAIN t : ~(j < i)) => t[i].prev = Genesis
                    /\ \A p \in DOMAIN t : IsPrev(t, i, p) => t[i].prev = t[p].hash
  BY DEF ChainOK, t
<1>2. CASE i = n
  <2>1. t[i] = row
    BY <1>1, <1>2
  <2>2. (\A j \in DOMAIN t : ~(j < i)) => DOMAIN table = {}
    BY <1>1, <1>2
  <2>3. \A p \in DOMAIN t : IsPrev(t, i, p) => p \in DOMAIN table /\ IsLast(table, p) /\ t[p] = table[p]
    BY <1>1, <1>2 DEF IsPrev, IsLast
  <2> QED BY <2>1, <2>2, <2>3
<1>3. CASE i # n
  <2>1. i \in DOMAIN table /\ t[i] = table[i] /\ ~(n < i)
    BY <1>1, <1>3
  <2>2. (\A j \in DOMAIN t : ~(j < i)) => \A j \in DOMAIN table : ~(j < i)
    BY <1>1
  <2>3. \A p \in DOMAIN t : IsPrev(t, i, p) => p \in DOMAIN table /\ IsPrev(table, i, p) /\ t[p] = table[p]
    BY <1>1, <2>1 DEF IsPrev
  <2> QED BY <2>1, <2>2, <2>3 DEF ChainOK
<1> QED BY <1>2, <1>3

LEMMA LastExists ==
    ASSUME NEW table, NEW n \in Nat, DOMAIN table \subseteq 1 .. n, DOMAIN table # {}
    PROVE  IsLast(table, LastId(table)) /\ \A i \in DOMAIN table : IsLast(table, i) => i = LastId(table)
<1>1. DOMAIN table \subseteq Nat /\ \A y \in DOMAIN table : y <= n
  OBVIOUS
<1>2. \E i \in DOMAIN table : \A j \in DOMAIN table : j <= i
  BY <1>1, GreatestNat
<1>3. IsLast(table, LastId(table))
  BY <1>2 DEF LastId, IsLast
<1> QED BY <1>1, <1>3 DEF IsLast

(* One flushed row at a time: its writer holds the lock, its id is above every committed
   one, and it continues from the last committed row. *)
Fits(log, row) ==
  /\ row.hash = EntryHash(row.body, row.prev)
  /\ DOMAIN log = {} => row.prev = Genesis
  /\ \A i \in DOMAIN log : IsLast(log, i) => row.prev = log[i].hash
TxOK == \A w \in Writers : auditTx[w] # NoRow =>
          /\ lock = w /\ auditTx[w].id \in Nat \ {0} /\ auditTx[w].id < nextId
          /\ \A j \in DOMAIN auditLog : j < auditTx[w].id
          /\ Fits(auditLog, auditTx[w].row)
LogOK == /\ nextId \in Nat \ {0} /\ DOMAIN auditLog \subseteq 1 .. (nextId - 1)
         /\ DOMAIN auditTx = Writers
         /\ lock \in Writers \cup {"free"}
         /\ altered \in {"no", "edited", "rewritten"}
         /\ altered # "edited" => ChainOK(auditLog)
ArchiveOK == /\ aged \subseteq DOMAIN auditLog
             /\ DOMAIN worm \subseteq DOMAIN auditLog /\ DOMAIN archiver \subseteq DOMAIN auditLog
             /\ DOMAIN worm \cap DOMAIN archiver = {}
             /\ altered = "no" => /\ \A i \in DOMAIN worm : worm[i] = auditLog[i]
                                  /\ \A i \in DOMAIN archiver : archiver[i] = auditLog[i]
MonShape == monitor = [phase |-> monitor.phase, live |-> monitor.live, ids |-> monitor.ids,
                       seen |-> monitor.seen, alarm |-> monitor.alarm, must |-> monitor.must]
MonList == monitor.phase = "list" =>
             /\ altered = "no" => monitor.live
             /\ monitor.must => /\ altered # "no"
                                /\ monitor.live => \E i \in DOMAIN worm : worm[i].hash # auditLog[i].hash
MonCheck == monitor.phase = "check" =>
             /\ altered = "no" => monitor.live
             /\ monitor.ids \subseteq DOMAIN worm
             /\ altered = "no" => \A i \in monitor.ids : monitor.seen[i] = auditLog[i].hash
             /\ monitor.must => /\ altered # "no"
                                /\ monitor.live => \E i \in monitor.ids : worm[i].hash # monitor.seen[i]
MonOK == MonShape /\ MonList /\ MonCheck /\ MonitorIsRight
AuditInv == TxOK /\ LogOK /\ ArchiveOK /\ MonOK

LEMMA AuditStarts == AuditInit => AuditInv
<1> SUFFICES ASSUME AuditInit PROVE AuditInv
  OBVIOUS
<1>1. DOMAIN auditLog = {} /\ DOMAIN worm = {} /\ DOMAIN archiver = {}
  BY DEF AuditInit, EmptyTable
<1>2. TxOK
  BY DEF AuditInit, TxOK
<1>3. LogOK
  <2>1. ChainOK(auditLog)
    BY <1>1 DEF ChainOK
  <2> QED BY <1>1, <2>1 DEF AuditInit, LogOK
<1>4. ArchiveOK
  BY <1>1 DEF AuditInit, ArchiveOK
<1>5. MonOK
  BY DEF AuditInit, MonOK, MonShape, MonList, MonCheck, MonitorIsRight, NoMonitor
<1> QED BY <1>2, <1>3, <1>4, <1>5 DEF AuditInv

(* The monitor only looks at the table, the archive and how the table was altered. *)
LEMMA MonitorUndisturbed ==
    ASSUME AuditInv, UNCHANGED monitor,
           altered' = altered \/ (altered = "no" /\ altered' # "no"),
           DOMAIN worm \subseteq DOMAIN worm', \A i \in DOMAIN worm : worm'[i] = worm[i],
           altered' = altered => \A i \in DOMAIN auditLog : auditLog'[i] = auditLog[i]
    PROVE  MonOK'
<1> USE DEF AuditInv, MonOK
<1>1. MonShape'
  BY DEF MonShape
<1>2. DOMAIN worm \subseteq DOMAIN auditLog
  BY DEF ArchiveOK
<1>3. MonList'
  <2> SUFFICES ASSUME monitor.phase = "list"
               PROVE  /\ altered' = "no" => monitor.live
                      /\ monitor.must => /\ altered' # "no"
                                         /\ monitor.live => \E i \in DOMAIN worm' : worm'[i].hash # auditLog'[i].hash
    BY DEF MonList
  <2>1. MonList
    OBVIOUS
  <2> QED BY <1>2, <2>1 DEF MonList
<1>4. MonCheck'
  <2> SUFFICES ASSUME monitor.phase = "check"
               PROVE  /\ altered' = "no" => monitor.live
                      /\ monitor.ids \subseteq DOMAIN worm'
                      /\ altered' = "no" => \A i \in monitor.ids : monitor.seen[i] = auditLog'[i].hash
                      /\ monitor.must => /\ altered' # "no"
                                         /\ monitor.live => \E i \in monitor.ids : worm'[i].hash # monitor.seen[i]
    BY DEF MonCheck
  <2>1. MonCheck
    OBVIOUS
  <2> QED BY <1>2, <2>1 DEF MonCheck
<1>5. MonitorIsRight'
  BY DEF MonitorIsRight
<1> QED BY <1>1, <1>3, <1>4, <1>5

LEMMA WriteKeepsInv ==
    ASSUME AuditInv, NEW w \in Writers, BeginWrite(w) \/ CommitWrite(w) \/ RollbackWrite(w)
    PROVE  AuditInv'
<1> USE DEF AuditInv
<1>a. AuditAssumption
  BY AuditAssumption
<1>0. \A v \in Writers : auditTx[v] # NoRow => v = lock
  BY DEF TxOK
<1>1. CASE BeginWrite(w)
  <2>0. lock = "free" /\ \A v \in Writers : auditTx[v] = NoRow
    BY <1>1, <1>0, <1>a DEF BeginWrite, AuditAssumption
  <2> DEFINE x == [id |-> nextId, row |-> AuditRow(1, LastHash)]
  <2>1. auditTx' = [auditTx EXCEPT ![w] = x] /\ lock' = w /\ nextId' = nextId + 1
        /\ UNCHANGED <<auditLog, aged, worm, archiver, monitor, altered>>
    BY <1>1 DEF BeginWrite
  <2>2. x.id = nextId /\ Fits(auditLog, x.row)
    <3>1. x.row.body = 1 /\ x.row.prev = LastHash /\ x.row.hash = EntryHash(1, LastHash)
      BY DEF AuditRow
    <3>2. DOMAIN auditLog # {} => /\ IsLast(auditLog, LastId(auditLog))
                                  /\ \A i \in DOMAIN auditLog : IsLast(auditLog, i) => i = LastId(auditLog)
      <4>1. nextId - 1 \in Nat /\ DOMAIN auditLog \subseteq 1 .. (nextId - 1)
        BY DEF LogOK
      <4> QED BY <4>1, LastExists
    <3> HIDE DEF x
    <3>3. x.id = nextId
      BY DEF x
    <3> QED BY <3>1, <3>2, <3>3 DEF Fits, LastHash
  <2> HIDE DEF x
  <2>3. TxOK'
    <3> SUFFICES ASSUME NEW v \in Writers, auditTx'[v] # NoRow
                 PROVE  /\ lock' = v /\ auditTx'[v].id \in Nat \ {0} /\ auditTx'[v].id < nextId'
                        /\ \A j \in DOMAIN auditLog' : j < auditTx'[v].id
                        /\ Fits(auditLog', auditTx'[v].row)
      BY DEF TxOK
    <3>1. v = w /\ auditTx'[v] = x
      BY <2>0, <2>1 DEF LogOK
    <3>2. Fits(auditLog', x.row)
      BY <2>1, <2>2
    <3>3. Fits(auditLog', auditTx'[v].row)
      BY <3>1, <3>2
    <3> QED BY <2>1, <2>2, <3>1, <3>3 DEF LogOK
  <2>4. LogOK'
    BY <2>1 DEF LogOK, ChainOK, IsPrev
  <2>5. ArchiveOK'
    BY <2>1 DEF ArchiveOK
  <2>6. MonOK'
    BY <2>1, MonitorUndisturbed
  <2> QED BY <2>3, <2>4, <2>5, <2>6
<1>2. CASE CommitWrite(w)
  <2> DEFINE n == auditTx[w].id
             r == auditTx[w].row
  <2>1. /\ auditTx[w] # NoRow /\ auditLog' = PutRow(auditLog, n, r)
        /\ auditTx' = [auditTx EXCEPT ![w] = NoRow] /\ lock' = "free"
        /\ UNCHANGED <<nextId, aged, worm, archiver, monitor, altered>>
    BY <1>2 DEF CommitWrite, EndTx
  <2>2. \A v \in Writers : auditTx'[v] = NoRow
    BY <1>0, <2>1 DEF LogOK
  <2>3. n \in Nat \ {0} /\ n < nextId /\ (\A j \in DOMAIN auditLog : j < n) /\ Fits(auditLog, r)
    BY <2>1 DEF TxOK
  <2> HIDE DEF n, r
  <2>4. DOMAIN auditLog' = DOMAIN auditLog \cup {n} /\ \A j \in DOMAIN auditLog : auditLog'[j] = auditLog[j]
    BY <2>1, <2>3 DEF PutRow, LogOK
  <2>5. DOMAIN auditLog \subseteq Nat
    BY DEF LogOK
  <2>6. ChainOK(auditLog) => ChainOK(PutRow(auditLog, n, r))
    BY <2>3, <2>5, ChainGrows DEF Fits
  <2>7. ChainOK(auditLog) => ChainOK(auditLog')
    BY <2>1, <2>6
  <2>8. TxOK'
    BY <2>2 DEF TxOK
  <2>9. LogOK'
    BY <2>1, <2>3, <2>4, <2>7 DEF LogOK
  <2>10. ArchiveOK'
    BY <2>1, <2>4 DEF ArchiveOK
  <2>11. MonOK'
    BY <2>1, <2>4, MonitorUndisturbed
  <2> QED BY <2>8, <2>9, <2>10, <2>11
<1>3. CASE RollbackWrite(w)
  <2>1. /\ auditTx[w] # NoRow
        /\ auditTx' = [auditTx EXCEPT ![w] = NoRow] /\ lock' = "free"
        /\ UNCHANGED <<auditLog, nextId, aged, worm, archiver, monitor, altered>>
    BY <1>3 DEF RollbackWrite, EndTx
  <2>2. \A v \in Writers : auditTx'[v] = NoRow
    BY <1>0, <2>1 DEF LogOK
  <2>3. TxOK'
    BY <2>2 DEF TxOK
  <2>4. LogOK'
    BY <2>1 DEF LogOK
  <2>5. ArchiveOK'
    BY <2>1 DEF ArchiveOK
  <2>6. MonOK'
    BY <2>1, MonitorUndisturbed
  <2> QED BY <2>3, <2>4, <2>5, <2>6
<1> QED BY <1>1, <1>2, <1>3

LEMMA ArchiveKeepsInv ==
    ASSUME AuditInv, DayPasses \/ ArchiveStart \/ ArchiveRow
    PROVE  AuditInv'
<1> USE DEF AuditInv
<1>0. UNCHANGED <<auditLog, auditTx, nextId, lock, monitor, altered>>
  BY DEF DayPasses, ArchiveStart, ArchiveRow
<1>1. TxOK' /\ LogOK'
  BY <1>0 DEF TxOK, LogOK
<1>2. CASE DayPasses
  <2>1. aged' \subseteq DOMAIN auditLog /\ UNCHANGED <<worm, archiver>>
    BY <1>2 DEF DayPasses, ArchiveOK
  <2>2. ArchiveOK'
    BY <1>0, <2>1 DEF ArchiveOK
  <2>3. MonOK'
    BY <1>0, <2>1, MonitorUndisturbed
  <2> QED BY <1>1, <2>2, <2>3
<1>3. CASE ArchiveStart
  <2>1. archiver' = [i \in aged \ DOMAIN worm |-> auditLog[i]] /\ UNCHANGED <<worm, aged>>
    BY <1>3 DEF ArchiveStart
  <2>2. ArchiveOK'
    BY <1>0, <2>1 DEF ArchiveOK
  <2>3. MonOK'
    BY <1>0, <2>1, MonitorUndisturbed
  <2> QED BY <1>1, <2>2, <2>3
<1>4. CASE ArchiveRow
  <2>1. PICK i \in DOMAIN archiver : \A j \in DOMAIN archiver : i <= j
    <3>1. DOMAIN archiver \subseteq Nat /\ DOMAIN archiver # {}
      BY <1>4 DEF ArchiveRow, ArchiveOK, LogOK
    <3> QED BY <3>1, LeastNat
  <2>2. DOMAIN archiver \subseteq Nat
    BY DEF ArchiveOK, LogOK
  <2>3. i = CHOOSE k \in DOMAIN archiver : \A j \in DOMAIN archiver : k <= j
    BY <2>1, <2>2
  <2>4. /\ worm' = PutRow(worm, i, archiver[i]) \/ UNCHANGED worm
        /\ archiver' = [j \in DOMAIN archiver \ {i} |-> archiver[j]]
        /\ UNCHANGED aged
    BY <1>4, <2>3 DEF ArchiveRow
  <2>5. i \notin DOMAIN worm
    BY DEF ArchiveOK
  <2>6. /\ DOMAIN worm \subseteq DOMAIN worm' /\ DOMAIN worm' \subseteq DOMAIN worm \cup {i}
        /\ \A k \in DOMAIN worm : worm'[k] = worm[k]
        /\ i \in DOMAIN worm' => worm'[i] = archiver[i]
    BY <2>4, <2>5 DEF PutRow
  <2>7. ArchiveOK'
    BY <1>0, <2>4, <2>6 DEF ArchiveOK
  <2>8. MonOK'
    BY <1>0, <2>6, MonitorUndisturbed
  <2> QED BY <1>1, <2>7, <2>8
<1> QED BY <1>2, <1>3, <1>4

(* A row is changed behind the application while no transaction is open. *)
LEMMA TamperKeepsInv ==
    ASSUME AuditInv, (\E i \in DOMAIN auditLog : EditRow(i)) \/ RewriteLast
    PROVE  AuditInv'
<1> USE DEF AuditInv
<1>0. /\ altered = "no" /\ altered' # "no" /\ lock = "free"
      /\ UNCHANGED <<auditTx, nextId, lock, aged, worm, archiver, monitor>>
      /\ DOMAIN auditLog' = DOMAIN auditLog
  BY DEF EditRow, RewriteLast
<1>1. TxOK'
  <2>1. \A w \in Writers : auditTx[w] = NoRow
    BY <1>0, AuditAssumption DEF TxOK
  <2> QED BY <1>0, <2>1 DEF TxOK
<1>2. ArchiveOK'
  BY <1>0 DEF ArchiveOK
<1>3. MonOK'
  BY <1>0, MonitorUndisturbed
<1>4. CASE \E i \in DOMAIN auditLog : EditRow(i)
  <2>1. altered' = "edited"
    BY <1>4 DEF EditRow
  <2>2. LogOK'
    BY <1>0, <2>1 DEF LogOK
  <2> QED BY <1>1, <1>2, <1>3, <2>2
<1>5. CASE RewriteLast
  <2>0. DOMAIN auditLog # {} /\ altered' = "rewritten"
    BY <1>5 DEF RewriteLast
  <2> DEFINE n == LastId(auditLog)
             r == AuditRow(2, auditLog[n].prev)
  <2>1. auditLog' = [auditLog EXCEPT ![n] = r]
    BY <1>5 DEF RewriteLast
  <2>2. IsLast(auditLog, n)
    <3>1. nextId - 1 \in Nat /\ DOMAIN auditLog \subseteq 1 .. (nextId - 1)
      BY DEF LogOK
    <3> QED BY <2>0, <3>1, LastExists
  <2>3. r.prev = auditLog[n].prev /\ r.hash = EntryHash(r.body, r.prev)
    BY DEF AuditRow
  <2> HIDE DEF n, r
  <2>4. n \in DOMAIN auditLog /\ auditLog'[n] = r /\ \A i \in DOMAIN auditLog : i # n => auditLog'[i] = auditLog[i]
    BY <2>1, <2>2 DEF IsLast
  <2>5. ChainOK(auditLog) /\ DOMAIN auditLog \subseteq Nat
    BY <1>0 DEF LogOK
  <2>6. ChainOK(auditLog')
    <3> SUFFICES ASSUME NEW i \in DOMAIN auditLog
                 PROVE  /\ auditLog'[i].hash = EntryHash(auditLog'[i].body, auditLog'[i].prev)
                        /\ (\A j \in DOMAIN auditLog : ~(j < i)) => auditLog'[i].prev = Genesis
                        /\ \A p \in DOMAIN auditLog : IsPrev(auditLog', i, p) => auditLog'[i].prev = auditLog'[p].hash
      BY <1>0 DEF ChainOK
    <3>1. auditLog'[i].prev = auditLog[i].prev
      BY <2>3, <2>4
    <3>2. auditLog'[i].hash = EntryHash(auditLog'[i].body, auditLog'[i].prev)
      BY <2>3, <2>4, <2>5 DEF ChainOK
    <3>3. ASSUME NEW p \in DOMAIN auditLog, IsPrev(auditLog', i, p)
          PROVE  IsPrev(auditLog, i, p) /\ auditLog'[p] = auditLog[p]
      <4>1. IsPrev(auditLog, i, p)
        BY <1>0, <3>3 DEF IsPrev
      <4>2. p # n
        BY <4>1, <2>2, <2>5 DEF IsPrev, IsLast
      <4> QED BY <4>1, <4>2, <2>4
    <3> QED BY <3>1, <3>2, <3>3, <2>5 DEF ChainOK
  <2>7. LogOK'
    BY <1>0, <2>0, <2>6 DEF LogOK
  <2> QED BY <1>1, <1>2, <1>3, <2>7
<1> QED BY <1>4, <1>5

LEMMA MonitorKeepsInv ==
    ASSUME AuditInv, MonitorStart \/ MonitorList \/ MonitorCheck \/ MonitorAgain
    PROVE  AuditInv'
<1> USE DEF AuditInv
<1>0. UNCHANGED <<auditLog, auditTx, nextId, lock, aged, worm, archiver, altered>>
  BY DEF MonitorStart, MonitorList, MonitorCheck, MonitorAgain
<1>1. TxOK' /\ LogOK' /\ ArchiveOK'
  BY <1>0 DEF TxOK, LogOK, ArchiveOK
<1>2. altered # "edited" => VerifyChain(auditLog)
  BY VerifyIsChainOK DEF LogOK
<1>3. CASE MonitorStart
  <2>1. altered = "no" => VerifyChain(auditLog) /\ ~Divergent
    BY <1>2 DEF Divergent, ArchiveOK
  <2>2. Divergent /\ VerifyChain(auditLog) => \E i \in DOMAIN worm : worm[i].hash # auditLog[i].hash
    BY DEF Divergent
  <2>3. ASSUME NEW l, NEW m, l = VerifyChain(auditLog), m = Divergent
        PROVE  MonOK'
    <3>1. monitor' = [NoMonitor EXCEPT !.phase = "list", !.live = l, !.must = m]
      BY <1>3, <2>3 DEF MonitorStart
    <3>2. /\ monitor' = [phase |-> monitor'.phase, live |-> monitor'.live, ids |-> monitor'.ids,
                       seen |-> monitor'.seen, alarm |-> monitor'.alarm, must |-> monitor'.must]
          /\ monitor'.phase = "list" /\ monitor'.live = l /\ monitor'.must = m
      BY <3>1 DEF NoMonitor
    <3>3. MonShape'
      BY <3>2 DEF MonShape
    <3>4. MonList'
      <4>1. (altered = "no" => l) /\ (m => altered # "no")
        BY <2>1, <2>3, Zenon
      <4>2. m /\ l => \E i \in DOMAIN worm : worm[i].hash # auditLog[i].hash
        BY <2>2, <2>3, Zenon
      <4> QED BY <1>0, <4>1, <4>2, <3>2 DEF MonList
    <3>5. MonCheck' /\ MonitorIsRight'
      BY <3>2 DEF MonCheck, MonitorIsRight
    <3> QED BY <3>3, <3>4, <3>5 DEF MonOK
  <2>4. MonOK'
    BY <2>3
  <2> QED BY <1>1, <2>4
<1>4. CASE MonitorList
  <2>1. MonShape /\ MonList /\ monitor.phase = "list"
    BY <1>4 DEF MonOK, MonitorList
  <2>2. /\ monitor' = [phase |-> "check", live |-> monitor.live, ids |-> DOMAIN worm,
                       seen |-> [i \in DOMAIN worm |-> auditLog[i].hash], alarm |-> monitor.alarm, must |-> monitor.must]
    BY <1>4, <2>1 DEF MonShape, MonitorList
  <2>3. /\ monitor'.phase = "check" /\ monitor'.live = monitor.live /\ monitor'.must = monitor.must
        /\ monitor'.ids = DOMAIN worm /\ \A i \in DOMAIN worm : monitor'.seen[i] = auditLog[i].hash
    BY <2>2
  <2>4. MonShape'
    BY <2>2 DEF MonShape
  <2>5. MonCheck'
    BY <1>0, <2>1, <2>3 DEF MonCheck, MonList
  <2>6. MonList' /\ MonitorIsRight'
    BY <2>3 DEF MonList, MonitorIsRight
  <2>7. MonOK'
    BY <2>4, <2>5, <2>6 DEF MonOK
  <2> QED BY <1>1, <2>7
<1>5. CASE MonitorCheck
  <2>1. MonShape /\ MonCheck /\ monitor.phase = "check"
    BY <1>5 DEF MonOK, MonitorCheck
  <2>2. altered = "no" => monitor.live /\ ~ArchiveDiverges
    <3> SUFFICES ASSUME altered = "no" PROVE monitor.live /\ ~ArchiveDiverges
      OBVIOUS
    <3>1. monitor.live /\ monitor.ids \subseteq DOMAIN worm /\ \A i \in monitor.ids : monitor.seen[i] = auditLog[i].hash
      BY <2>1 DEF MonCheck
    <3>2. \A i \in DOMAIN worm : worm[i] = auditLog[i] /\ auditLog[i].hash = EntryHash(auditLog[i].body, auditLog[i].prev)
      BY DEF ArchiveOK, LogOK, ChainOK
    <3> QED BY <3>1, <3>2 DEF ArchiveDiverges
  <2>3. monitor.must => ~monitor.live \/ ArchiveDiverges
    BY <2>1 DEF MonCheck, ArchiveDiverges
  <2>4. ASSUME NEW a, a = (~monitor.live \/ ArchiveDiverges)
        PROVE  MonOK'
    <3>1. monitor' = [phase |-> "done", live |-> monitor.live, ids |-> monitor.ids,
                      seen |-> monitor.seen, alarm |-> a, must |-> monitor.must]
      BY <1>5, <2>1, <2>4 DEF MonitorCheck, MonShape
    <3>2. monitor'.phase = "done" /\ monitor'.alarm = a /\ monitor'.must = monitor.must
      BY <3>1
    <3>3. MonShape'
      BY <3>1 DEF MonShape
    <3>4. MonList' /\ MonCheck'
      BY <3>2 DEF MonList, MonCheck
    <3>5. (a => altered # "no") /\ (monitor.must => a)
      BY <2>2, <2>3, <2>4, Zenon
    <3>6. MonitorIsRight'
      BY <1>0, <3>2, <3>5, Zenon DEF MonitorIsRight
    <3> QED BY <3>3, <3>4, <3>6 DEF MonOK
  <2>5. MonOK'
    BY <2>4
  <2> QED BY <1>1, <2>5
<1>6. CASE MonitorAgain
  <2>1. MonOK'
    BY <1>6 DEF MonitorAgain, NoMonitor, MonOK, MonShape, MonList, MonCheck, MonitorIsRight
  <2> QED BY <1>1, <2>1
<1> QED BY <1>3, <1>4, <1>5, <1>6

LEMMA AuditNextKeepsInv ==
    ASSUME AuditInv, [AuditNext]_auditVars
    PROVE  AuditInv'
<1>1. CASE UNCHANGED auditVars
  BY <1>1 DEF auditVars, AuditInv, TxOK, LogOK, ArchiveOK, MonOK, MonShape, MonList, MonCheck, MonitorIsRight
<1>2. CASE AuditNext
  BY <1>2, WriteKeepsInv, ArchiveKeepsInv, TamperKeepsInv, MonitorKeepsInv DEF AuditNext
<1> QED BY <1>1, <1>2

(* Unless a row was edited in place verify_chain accepts the log at every moment, and the
   divergence check raises an alarm exactly when a change behind the application can be
   seen, while transactions and the archive pass go on (write_audit_entry,
   archive_pending_rows, run_divergence_check). *)
THEOREM TamperEvident == AuditSpec => []AuditTrailHolds
<1>1. AuditInit => AuditInv
  BY AuditStarts
<1>2. AuditInv /\ [AuditNext]_auditVars => AuditInv'
  BY AuditNextKeepsInv
<1>3. AuditInv => AuditTrailHolds
  <2> SUFFICES ASSUME AuditInv PROVE AuditTrailHolds
    OBVIOUS
  <2>1. VerifyChain(auditLog) <=> ChainOK(auditLog)
    BY VerifyIsChainOK DEF AuditInv, LogOK
  <2> QED BY <2>1 DEF AuditInv, LogOK, MonOK, AuditTrailHolds, ChainIntact
<1> QED BY <1>1, <1>2, <1>3, PTL DEF AuditSpec

-----------------------------------------------------------------------------
(* EventLog: two locks and a sequence *)

Txs == EngineTxs \cup ApprovalTxs

EventThenAudit == <<"event", "audit">>
AuditThenEvent == <<"audit", "event">>
EventOnly == <<"event">>
AuditOnly == <<"audit">>

TxRec ==
  [state : {"idle", "emit", "published"},
   want : {<<>>, EventOnly, AuditOnly, EventThenAudit, AuditThenEvent}, seq : Nat, id : Nat]

EventTypeOK ==
  /\ evTx \in [Txs -> TxRec] /\ evLocks \in [{"event", "audit"} -> Txs \cup {"free"}]
  /\ evLog \in Seq(Nat) /\ evCount \in Nat

(* Only an approval takes the chain's lock first; a transaction at rest wants none. *)
OrdersOK ==
  \A w \in Txs :
    /\ w \in EngineTxs => evTx[w].want # AuditThenEvent
    /\ w \notin EngineTxs => evTx[w].want \notin {EventThenAudit, AuditOnly}
    /\ evTx[w].state # "emit" => evTx[w].want = <<>>

(* A lock is held by a transaction under way that no longer wants it, and one that has
   the run's lock has the next sequence. *)
LocksOK ==
  \A w \in Txs :
    /\ evLocks["event"] = w <=> /\ evTx[w].state # "idle"
                                /\ evTx[w].want \in {<<>>, AuditOnly}
    /\ evLocks["audit"] = w => evTx[w].state # "idle" /\ evTx[w].want \in {<<>>, EventOnly}
    /\ w \in EngineTxs /\ evLocks["audit"] = w => evTx[w].want = <<>>
    /\ evLocks["event"] = w => evTx[w].seq = Len(evLog) + 1

EventInv == EventTypeOK /\ OrdersOK /\ LocksOK

-----------------------------------------------------------------------------
LEMMA Orders ==
    /\ Head(EventThenAudit) = "event" /\ Tail(EventThenAudit) = AuditOnly
    /\ Head(AuditThenEvent) = "audit" /\ Tail(AuditThenEvent) = EventOnly
    /\ Head(EventOnly) = "event" /\ Tail(EventOnly) = <<>>
    /\ Head(AuditOnly) = "audit" /\ Tail(AuditOnly) = <<>>
    /\ EventThenAudit # AuditThenEvent /\ EventOnly # AuditOnly
    /\ EventThenAudit \notin {<<>>, EventOnly, AuditOnly} /\ AuditThenEvent \notin {<<>>, EventOnly, AuditOnly}
    /\ EventOnly # <<>> /\ AuditOnly # <<>>
BY DEF EventThenAudit, AuditThenEvent, EventOnly, AuditOnly

LEMMA IdleTx == NoTx \in TxRec /\ NoTx.state = "idle" /\ NoTx.want = <<>>
BY DEF NoTx, TxRec

LEMMA BeginTxKeeps ==
    ASSUME EventInv, NEW w \in Txs, BeginTx(w)
    PROVE  EventInv'
<1> USE DEF EventInv
<1>1. PICK order \in LockOrders(w) :
        evTx' = [evTx EXCEPT ![w] = [NoTx EXCEPT !.state = "emit", !.want = order, !.id = evCount + 1]]
  BY DEF BeginTx
<1> DEFINE x == [NoTx EXCEPT !.state = "emit", !.want = order, !.id = evCount + 1]
<1>2. evTx[w] = NoTx /\ evCount' = evCount + 1 /\ UNCHANGED <<evLocks, evLog>> /\ evCount \in Nat
  BY DEF BeginTx, EventTypeOK
<1>3. /\ order \in {EventOnly, EventThenAudit, AuditThenEvent}
      /\ w \in EngineTxs => order # AuditThenEvent
      /\ w \notin EngineTxs => order = AuditThenEvent
  BY EventBounds DEF LockOrders, EventOnly, EventThenAudit, AuditThenEvent, Txs
<1>4. x \in TxRec /\ x.state = "emit" /\ x.want = order
  <2>1. evCount + 1 \in Nat
    BY <1>2
  <2>2. order \in {<<>>, EventOnly, AuditOnly, EventThenAudit, AuditThenEvent}
    BY <1>3
  <2>3. ASSUME NEW n \in Nat, NEW o \in {<<>>, EventOnly, AuditOnly, EventThenAudit, AuditThenEvent}
        PROVE  LET y == [NoTx EXCEPT !.state = "emit", !.want = o, !.id = n]
               IN y \in TxRec /\ y.state = "emit" /\ y.want = o
    BY <2>3 DEF NoTx, TxRec
  <2> QED BY <2>1, <2>2, <2>3
<1>5. evTx' = [evTx EXCEPT ![w] = x]
  BY <1>1
<1> HIDE DEF x
<1>6. evTx'[w] = x /\ \A u \in Txs \ {w} : evTx'[u] = evTx[u]
  BY <1>5 DEF EventTypeOK
<1>7. EventTypeOK'
  BY <1>2, <1>4, <1>5 DEF EventTypeOK
<1>8. OrdersOK'
  BY <1>3, <1>4, <1>6, Orders DEF OrdersOK
<1>9. evLocks["event"] # w /\ evLocks["audit"] # w
  BY <1>2, IdleTx DEF LocksOK
<1>10. LocksOK'
  BY <1>2, <1>3, <1>4, <1>6, <1>9, Orders DEF LocksOK
<1> QED BY <1>7, <1>8, <1>10

LEMMA TakeLockKeeps ==
    ASSUME EventInv, NEW w \in Txs, TakeLock(w)
    PROVE  EventInv'
<1> USE DEF EventInv
<1> DEFINE l == Head(evTx[w].want)
           x == [evTx[w] EXCEPT !.want = Tail(@), !.seq = IF l = "event" THEN Len(evLog) + 1 ELSE @]
<1>1. evTx[w] \in TxRec /\ evTx[w].want # <<>> /\ evLocks[l] = "free" /\ UNCHANGED <<evLog, evCount>>
      /\ evLocks' = [evLocks EXCEPT ![l] = w]
  BY DEF TakeLock, EventTypeOK
<1>2. evTx' = [evTx EXCEPT ![w] = x]
  BY DEF TakeLock, NextSequence, EventTypeOK
<1>3. Len(evLog) + 1 \in Nat /\ evTx[w].seq \in Nat
  BY <1>1 DEF EventTypeOK, TxRec
<1>4. evTx[w].want \in {EventOnly, AuditOnly, EventThenAudit, AuditThenEvent}
  BY <1>1 DEF TxRec
<1>5. l \in {"event", "audit"} /\ Tail(evTx[w].want) \in {<<>>, AuditOnly, EventOnly}
  BY <1>4, Orders
<1>6. /\ x \in TxRec /\ x.state = evTx[w].state /\ x.want = Tail(evTx[w].want)
      /\ l = "event" => x.seq = Len(evLog) + 1
      /\ l # "event" => x.seq = evTx[w].seq
  <2> DEFINE n == IF l = "event" THEN Len(evLog) + 1 ELSE evTx[w].seq
  <2>1. n \in Nat
    BY <1>3
  <2>2. x = [evTx[w] EXCEPT !.want = Tail(evTx[w].want), !.seq = n]
    OBVIOUS
  <2>3. n = IF l = "event" THEN Len(evLog) + 1 ELSE evTx[w].seq
    OBVIOUS
  <2> HIDE DEF n, x
  <2>4. x \in TxRec /\ x.state = evTx[w].state /\ x.want = Tail(evTx[w].want) /\ x.seq = n
    BY <1>1, <1>5, <2>1, <2>2 DEF TxRec
  <2> QED BY <2>3, <2>4
<1> HIDE DEF x
<1>7. evTx'[w] = x /\ \A u \in Txs \ {w} : evTx'[u] = evTx[u]
  BY <1>2 DEF EventTypeOK
<1>8. evTx[w].state = "emit"
  BY <1>1 DEF OrdersOK
<1>9. evLocks'[l] = w /\ \A m \in {"event", "audit"} \ {l} : evLocks'[m] = evLocks[m]
  BY <1>1, <1>5 DEF EventTypeOK
<1>10. EventTypeOK'
  BY <1>1, <1>2, <1>5, <1>6 DEF EventTypeOK
<1>11. OrdersOK'
  <2>1. w \in EngineTxs => x.want # AuditThenEvent
    BY <1>5, <1>6, Orders
  <2>2. w \notin EngineTxs => x.want \notin {EventThenAudit, AuditOnly}
    BY <1>4, <1>6, Orders DEF OrdersOK
  <2> QED BY <1>6, <1>7, <1>8, <2>1, <2>2 DEF OrdersOK
<1>12. "free" \notin Txs
  BY EventBounds DEF Txs
<1>13. LocksOK'
  <2> HIDE DEF l
  <2>1. ASSUME NEW u \in Txs \ {w}
        PROVE  /\ evLocks'["event"] = u <=> evLocks["event"] = u
               /\ evLocks'["audit"] = u <=> evLocks["audit"] = u
    BY <1>1, <1>5, <1>9, <1>12
  <2>2. CASE l = "event"
    <3>1. /\ evTx[w].want \in {EventOnly, EventThenAudit} /\ x.want \in {<<>>, AuditOnly}
          /\ evTx[w].want = EventOnly => x.want = <<>>
      BY <1>4, <1>6, <2>2, Orders DEF l
    <3>2. evLocks["audit"] = w => x.want = <<>>
      BY <3>1, Orders DEF LocksOK
    <3>3. evLocks'["event"] = w /\ evLocks'["audit"] = evLocks["audit"]
      BY <1>9, <2>2
    <3>4. /\ evTx'[w].state # "idle" /\ evTx'[w].want \in {<<>>, AuditOnly} /\ evTx'[w].seq = Len(evLog') + 1
          /\ evLocks["audit"] = w => evTx'[w].want = <<>>
      BY <1>1, <1>6, <1>7, <1>8, <2>2, <3>1, <3>2
    <3> QED BY <1>1, <1>7, <2>1, <3>3, <3>4 DEF LocksOK
  <2>3. CASE l = "audit"
    <3>1. /\ evTx[w].want \in {AuditOnly, AuditThenEvent} /\ x.want \in {<<>>, EventOnly}
          /\ evTx[w].want = AuditOnly <=> x.want = <<>>
      BY <1>4, <1>6, <2>3, Orders DEF l
    <3>2. w \in EngineTxs => x.want = <<>>
      BY <3>1 DEF OrdersOK
    <3>3. x.want \in {<<>>, AuditOnly} <=> evTx[w].want \in {<<>>, AuditOnly}
      BY <3>1, Orders
    <3>4. evLocks'["audit"] = w /\ evLocks'["event"] = evLocks["event"]
      BY <1>9, <2>3
    <3>5. /\ evTx'[w].state # "idle" /\ evTx'[w].want = x.want /\ evTx'[w].seq = evTx[w].seq
          /\ evLog' = evLog
      BY <1>1, <1>6, <1>7, <1>8, <2>3
    <3>6. \A u \in Txs \ {w} : evLocks'["event"] = u <=> /\ evTx'[u].state # "idle"
                                                        /\ evTx'[u].want \in {<<>>, AuditOnly}
      BY <1>7, <3>4 DEF LocksOK
    <3>7. evLocks'["event"] = w <=> /\ evTx'[w].state # "idle"
                                    /\ evTx'[w].want \in {<<>>, AuditOnly}
      BY <1>8, <3>3, <3>4, <3>5 DEF LocksOK
    <3>8. \A u \in Txs : evLocks'["event"] = u => evTx'[u].seq = Len(evLog') + 1
      BY <1>7, <3>4, <3>5 DEF LocksOK
    <3>9. \A u \in Txs : evLocks'["audit"] = u => u = w
      BY <3>4
    <3> QED BY <3>1, <3>2, <3>5, <3>6, <3>7, <3>8, <3>9 DEF LocksOK
  <2> QED BY <1>5, <2>2, <2>3
<1> QED BY <1>10, <1>11, <1>13

LEMMA PublishKeeps ==
    ASSUME EventInv, NEW w \in Txs, PublishEvent(w)
    PROVE  EventInv'
<1> USE DEF EventInv
<1> DEFINE x == [evTx[w] EXCEPT !.state = "published"]
<1>1. /\ evTx[w] \in TxRec /\ evTx[w].state = "emit" /\ evTx[w].want = <<>>
      /\ UNCHANGED <<evLog, evCount, evLocks>>
  BY DEF PublishEvent, EventTypeOK
<1>2. evTx' = [evTx EXCEPT ![w] = x]
  BY DEF PublishEvent, EventTypeOK
<1>3. x \in TxRec /\ x.state = "published" /\ x.want = <<>> /\ x.seq = evTx[w].seq
  BY <1>1 DEF TxRec
<1> HIDE DEF x
<1>4. evTx'[w] = x /\ \A u \in Txs \ {w} : evTx'[u] = evTx[u]
  BY <1>2 DEF EventTypeOK
<1>5. EventTypeOK'
  BY <1>1, <1>2, <1>3 DEF EventTypeOK
<1>6. OrdersOK'
  BY <1>1, <1>3, <1>4 DEF OrdersOK
<1>7. LocksOK'
  BY <1>1, <1>3, <1>4 DEF LocksOK
<1> QED BY <1>5, <1>6, <1>7

(* A commit appends: the sequence is the next one, and its holder the only one. *)
LEMMA CommitAppends ==
    ASSUME EventInv, NEW w \in Txs, CommitEvent(w)
    PROVE  /\ evLocks["event"] = w /\ evLog' \in Seq(Nat)
           /\ DOMAIN evLog' = 1 .. Len(evLog) + 1 /\ Len(evLog') = Len(evLog) + 1
<1>1. evTx[w] \in TxRec /\ evTx[w].state = "published"
  BY DEF EventInv, EventTypeOK, CommitEvent
<1>2. evLocks["event"] = w /\ evTx[w].seq = Len(evLog) + 1
  BY <1>1 DEF EventInv, OrdersOK, LocksOK
<1>3. evTx[w].id \in Nat
  BY <1>1 DEF TxRec
<1> DEFINE n == Len(evLog)
           s == [k \in 1 .. n + 1 |-> IF k = n + 1 THEN evTx[w].id ELSE evLog[k]]
<1>4. evLog \in Seq(Nat) /\ n \in Nat /\ DOMAIN evLog = 1 .. n /\ \A k \in 1 .. n : evLog[k] \in Nat
  BY DEF EventInv, EventTypeOK
<1>5. evLog' = [k \in DOMAIN evLog \cup {n + 1} |-> IF k = n + 1 THEN evTx[w].id ELSE evLog[k]]
  BY <1>2 DEF CommitEvent
<1> HIDE DEF n
<1>6. (1 .. n) \cup {n + 1} = 1 .. n + 1
  BY <1>4
<1>7. evLog' = s
  BY <1>4, <1>5, <1>6
<1>8. s \in [1 .. n + 1 -> Nat]
  BY <1>3, <1>4
<1>9. s \in Seq(Nat) /\ Len(s) = n + 1 /\ DOMAIN s = 1 .. n + 1
  BY <1>4, <1>8
<1> QED BY <1>2, <1>7, <1>9 DEF n

LEMMA EndEventKeeps ==
    ASSUME EventInv, NEW w \in Txs, CommitEvent(w) \/ RollbackEvent(w)
    PROVE  EventInv'
<1> USE DEF EventInv
<1>1. /\ evTx' = [evTx EXCEPT ![w] = NoTx] /\ evCount' = evCount
      /\ evLocks' = [l \in DOMAIN evLocks |-> IF evLocks[l] = w THEN "free" ELSE evLocks[l]]
  BY DEF CommitEvent, RollbackEvent, EndEventTx
<1>2. evTx'[w] = NoTx /\ \A u \in Txs \ {w} : evTx'[u] = evTx[u]
  BY <1>1 DEF EventTypeOK
<1>3. /\ evLog' \in Seq(Nat)
      /\ evLocks["event"] # w => evLog' = evLog
  BY CommitAppends DEF EventTypeOK, RollbackEvent
<1>4. "free" \notin Txs
  BY EventBounds DEF Txs
<1>5. /\ evLocks' \in [{"event", "audit"} -> Txs \cup {"free"}]
      /\ \A l \in {"event", "audit"} : evLocks'[l] # w /\ \A u \in Txs \ {w} : evLocks'[l] = u <=> evLocks[l] = u
  BY <1>1, <1>4 DEF EventTypeOK
<1>6. EventTypeOK'
  BY <1>1, <1>3, <1>5, IdleTx DEF EventTypeOK
<1>7. OrdersOK'
  BY <1>2, IdleTx, Orders DEF OrdersOK
<1>8. LocksOK'
  <2> SUFFICES ASSUME NEW u \in Txs
               PROVE  /\ evLocks'["event"] = u <=> /\ evTx'[u].state # "idle"
                                                   /\ evTx'[u].want \in {<<>>, AuditOnly}
                      /\ evLocks'["audit"] = u => evTx'[u].state # "idle" /\ evTx'[u].want \in {<<>>, EventOnly}
                      /\ u \in EngineTxs /\ evLocks'["audit"] = u => evTx'[u].want = <<>>
                      /\ evLocks'["event"] = u => evTx'[u].seq = Len(evLog') + 1
    BY DEF LocksOK
  <2>1. CASE u = w
    BY <1>2, <1>5, <2>1, IdleTx
  <2>2. CASE u # w
    <3>1. evTx'[u] = evTx[u]
      BY <1>2, <2>2
    <3>2. evLocks'["event"] = u <=> evLocks["event"] = u
      BY <1>5, <2>2
    <3>3. evLocks'["audit"] = u <=> evLocks["audit"] = u
      BY <1>5, <2>2
    <3>4. evLocks["event"] = u => evLog' = evLog
      BY <1>3, <2>2
    <3> QED BY <3>1, <3>2, <3>3, <3>4 DEF LocksOK
  <2> QED BY <2>1, <2>2
<1> QED BY <1>6, <1>7, <1>8

LEMMA EventQuiet ==
    ASSUME EventInv, UNCHANGED <<evTx, evLocks, evLog, evCount>>
    PROVE  EventInv'
BY DEF EventInv, EventTypeOK, OrdersOK, LocksOK

LEMMA EventInductive ==
    /\ EventInit => EventInv
    /\ EventInv /\ [EventNext]_evVars => EventInv'
<1>1. EventInit => EventInv
  <2> SUFFICES ASSUME EventInit PROVE EventInv
    OBVIOUS
  <2>1. evTx \in [Txs -> TxRec] /\ \A w \in Txs : evTx[w] = NoTx
    BY IdleTx DEF EventInit, Txs
  <2>2. evLocks["event"] = "free" /\ evLocks["audit"] = "free" /\ "free" \notin Txs
    BY EventBounds DEF EventInit, Txs
  <2>3. EventTypeOK
    BY <2>1 DEF EventInit, EventTypeOK
  <2>4. OrdersOK
    BY <2>1, IdleTx, Orders DEF OrdersOK
  <2>5. LocksOK
    BY <2>1, <2>2, IdleTx DEF LocksOK
  <2> QED BY <2>3, <2>4, <2>5 DEF EventInv
<1>2. ASSUME EventInv, [EventNext]_evVars PROVE EventInv'
  <2>1. ASSUME NEW w \in Txs,
               BeginTx(w) \/ TakeLock(w) \/ PublishEvent(w) \/ CommitEvent(w) \/ RollbackEvent(w)
        PROVE  EventInv'
    BY <1>2, <2>1, BeginTxKeeps, TakeLockKeeps, PublishKeeps, EndEventKeeps
  <2>2. CASE Connect \/ Disconnect \/ IngestFrame \/ \E i \in DOMAIN backfills : GetEvents(i) \/ IngestBackfill(i)
    BY <1>2, <2>2, EventQuiet DEF Connect, Disconnect, IngestFrame, GetEvents, IngestBackfill
  <2>3. CASE UNCHANGED evVars
    BY <1>2, <2>3, EventQuiet DEF evVars
  <2> QED BY <1>2, <2>1, <2>2, <2>3 DEF EventNext, Txs
<1> QED BY <1>1, <1>2

(* Where two transactions wait for each other's lock one of them opens or decides an approval and
   the other emits an audited event: any number of approvals never block each other, nor do
   any number of the other transactions (emit, write_audit_entry). *)
THEOREM OnlyApprovalsBlock == EventSpec => []WaitCycleNeedsApproval
<1>1. EventInv => WaitCycleNeedsApproval
  <2> SUFFICES ASSUME EventInv, NEW w \in Txs, NEW v \in Txs, Waits(w, v), Waits(v, w)
               PROVE  (w \in ApprovalTxs) # (v \in ApprovalTxs)
    BY DEF WaitCycleNeedsApproval, Txs
  <2> USE DEF EventInv
  <2>1. ASSUME NEW u \in EngineTxs, NEW t \in EngineTxs, Waits(u, t), evTx[t].want # <<>>
        PROVE  evTx[u].want # AuditOnly /\ evTx[t].want = AuditOnly
    <3>1. u \in Txs /\ t \in Txs
      BY DEF Txs
    <3>2. evTx[u].want \in {EventOnly, AuditOnly, EventThenAudit}
      BY <2>1, <3>1 DEF EventTypeOK, TxRec, OrdersOK, Waits
    <3>3. evLocks["audit"] # t
      BY <2>1, <3>1 DEF LocksOK
    <3>4. evTx[u].want # AuditOnly /\ evLocks["event"] = t
      BY <2>1, <3>2, <3>3, Orders DEF Waits
    <3> QED BY <2>1, <3>1, <3>4 DEF LocksOK
  <2>2. ASSUME NEW u \in ApprovalTxs, NEW t \in ApprovalTxs, Waits(u, t), evTx[t].want # <<>>
        PROVE  evTx[u].want = AuditThenEvent /\ evTx[t].want = EventOnly
    <3>1. u \in Txs /\ t \in Txs /\ u \notin EngineTxs /\ t \notin EngineTxs
      BY EventBounds DEF Txs
    <3>2. evTx[u].want \in {EventOnly, AuditThenEvent}
      BY <2>2, <3>1 DEF EventTypeOK, TxRec, OrdersOK, Waits
    <3>3. evTx[t].want \in {EventOnly, AuditThenEvent}
      BY <2>2, <3>1 DEF EventTypeOK, TxRec, OrdersOK
    <3>4. evLocks["event"] # t
      BY <3>1, <3>3, Orders DEF LocksOK
    <3>5. evTx[u].want = AuditThenEvent /\ evLocks["audit"] = t
      BY <2>2, <3>2, <3>4, Orders DEF Waits
    <3> QED BY <3>1, <3>3, <3>5, Orders DEF LocksOK
  <2>3. evTx[w].want # <<>> /\ evTx[v].want # <<>>
    BY DEF Waits
  <2>4. ~(w \in EngineTxs /\ v \in EngineTxs)
    BY <2>1, <2>3
  <2>5. ~(w \in ApprovalTxs /\ v \in ApprovalTxs)
    BY <2>2, <2>3, Orders
  <2> QED BY <2>4, <2>5 DEF Txs
<1> QED BY <1>1, EventInductive, PTL DEF EventSpec

(* Events are committed under consecutive sequence numbers, and none is ever taken back
   (emit under its lock, commit and rollback). *)
THEOREM SequenceHasNoGaps == EventSpec => CommitsInSequence
<1>1. EventInv /\ [EventNext]_evVars => [evLog' # evLog => DOMAIN evLog' = 1 .. Len(evLog) + 1]_evLog
  <2> SUFFICES ASSUME EventInv, [EventNext]_evVars, evLog' # evLog
               PROVE  DOMAIN evLog' = 1 .. Len(evLog) + 1
    OBVIOUS
  <2>1. \E w \in Txs : CommitEvent(w)
    BY DEF EventNext, Txs, evVars, BeginTx, TakeLock, PublishEvent, RollbackEvent,
           Connect, Disconnect, IngestFrame, GetEvents, IngestBackfill
  <2> QED BY <2>1, CommitAppends
<1> QED BY <1>1, EventInductive, PTL DEF EventSpec, CommitsInSequence

-----------------------------------------------------------------------------
(* Conflicts: what becomes of a veto *)

AnyView == UNION {Views[t] : t \in DOMAIN Views}
AnyRow == [type : DOMAIN Views, view : AnyView]
ConflictRec ==
  [kind : {"none", "market_vs_sentiment", "risk_vs_proposal", "compliance_vs_proposal"}, rows : SUBSET AnyRow]
CloserRec == [open : BOOLEAN, conflict : ConflictRec]
DecisionRec ==
  [type : {"reassign", "escalate_human", "resolve_conflict"},
   role : {"SystemAdministrator", "RiskManager", "none"}, inputs : SUBSET AnyRow]

ConflictTypeOK ==
  /\ results \subseteq AnyRow /\ decisions \in Seq(DecisionRec) /\ closer \in [Closers -> CloserRec]
  /\ tasksEnded \in BOOLEAN /\ closed \in BOOLEAN

OneOfEach == \A a, b \in results : a.type = b.type => a = b
Opposed == MarketVsSentiment(results) \/ RiskVsProposal(results) \/ ComplianceVsProposal(results)
Vetoed == (RiskVsProposal(results) \/ ComplianceVsProposal(results)) /\ ~MarketVsSentiment(results)
IsResolution(d) == d.type = "resolve_conflict" /\ Portfolio \subseteq d.inputs
IsEscalation(d) ==
  d.type = "escalate_human" /\ d.role = "RiskManager" /\ d.inputs \cap Proposed(results) # {}

(* What the decisions have to show. *)
Decided ==
  /\ Opposed => \E i \in DOMAIN decisions : IsResolution(decisions[i])
  /\ Vetoed => \E i \in DOMAIN decisions : IsEscalation(decisions[i])

(* A loop that is about to commit found what there is to find, or a resolution on record. *)
FoundIt(c) == closer[c].conflict = DetectConflict(results) \/ (closer[c].conflict = NoConflict /\ closed)

ConflictInv ==
  /\ ConflictTypeOK
  /\ AlreadyResolved => closed
  /\ closed => tasksEnded
  /\ \A c \in Closers : closer[c].open => tasksEnded /\ (OneOfEach => FoundIt(c))
  /\ closed /\ OneOfEach => Decided

-----------------------------------------------------------------------------
LEMMA Concatenates ==
    ASSUME NEW D, NEW s \in Seq(D), NEW t \in Seq(D)
    PROVE  /\ s \o t \in Seq(D)
           /\ \A i \in DOMAIN s : i \in DOMAIN (s \o t) /\ (s \o t)[i] = s[i]
           /\ \A i \in DOMAIN t : Len(s) + i \in DOMAIN (s \o t) /\ (s \o t)[Len(s) + i] = t[i]
           /\ \A i \in DOMAIN (s \o t) : \/ i \in DOMAIN s /\ (s \o t)[i] = s[i]
                                         \/ \E j \in DOMAIN t : (s \o t)[i] = t[j]
<1>1. s \o t \in Seq(D) /\ Len(s \o t) = Len(s) + Len(t) /\ Len(s) \in Nat /\ Len(t) \in Nat
      /\ DOMAIN s = 1 .. Len(s) /\ DOMAIN t = 1 .. Len(t) /\ DOMAIN (s \o t) = 1 .. Len(s) + Len(t)
  OBVIOUS
<1>2. \A i \in 1 .. Len(s) + Len(t) : (s \o t)[i] = IF i <= Len(s) THEN s[i] ELSE t[i - Len(s)]
  OBVIOUS
<1>3. \A i \in 1 .. Len(s) : i \in 1 .. Len(s) + Len(t) /\ i <= Len(s)
  BY <1>1
<1>4. \A i \in 1 .. Len(t) : Len(s) + i \in 1 .. Len(s) + Len(t) /\ ~(Len(s) + i <= Len(s)) /\ (Len(s) + i) - Len(s) = i
  BY <1>1
<1>5. \A i \in 1 .. Len(s) + Len(t) : i \in 1 .. Len(s) \/ (~(i <= Len(s)) /\ i - Len(s) \in 1 .. Len(t))
  BY <1>1
<1> QED BY <1>1, <1>2, <1>3, <1>4, <1>5

(* Where there is one row of each type every way to look at them is the same. *)
LEMMA OneView == OneOfEach => \A rows \in ByType : rows = results
<1> SUFFICES ASSUME OneOfEach, NEW rows \in ByType, NEW a \in results PROVE a \in rows
  BY DEF ByType
<1>1. a.type \in {b.type : b \in rows} /\ rows \subseteq results
  BY DEF ByType
<1>2. PICK b \in rows : b.type = a.type
  BY <1>1
<1> QED BY <1>1, <1>2 DEF OneOfEach

LEMMA Detects ==
    ASSUME NEW rows \in SUBSET AnyRow
    PROVE  /\ DetectConflict(rows) \in ConflictRec
           /\ MarketVsSentiment(rows) => DetectConflict(rows).kind = "market_vs_sentiment"
           /\ ~MarketVsSentiment(rows) /\ (RiskVsProposal(rows) \/ ComplianceVsProposal(rows)) =>
                /\ DetectConflict(rows).kind \in {"risk_vs_proposal", "compliance_vs_proposal"}
                /\ Proposed(rows) \subseteq DetectConflict(rows).rows /\ Proposed(rows) # {}
<1>1. RowsOf(rows, "MarketContext") \cup RowsOf(rows, "SentimentReport") \subseteq AnyRow
      /\ RowsOf(rows, "RiskReport") \cup Proposed(rows) \subseteq AnyRow
      /\ RowsOf(rows, "ComplianceReport") \cup Proposed(rows) \subseteq AnyRow
  BY DEF RowsOf, Proposed
<1>2. CASE MarketVsSentiment(rows)
  <2>1. DetectConflict(rows) = [kind |-> "market_vs_sentiment",
                                rows |-> RowsOf(rows, "MarketContext") \cup RowsOf(rows, "SentimentReport")]
    BY <1>2 DEF DetectConflict
  <2> QED BY <1>1, <1>2, <2>1 DEF ConflictRec
<1>3. CASE ~MarketVsSentiment(rows) /\ RiskVsProposal(rows)
  <2>1. DetectConflict(rows) = [kind |-> "risk_vs_proposal", rows |-> RowsOf(rows, "RiskReport") \cup Proposed(rows)]
    BY <1>3 DEF DetectConflict
  <2>2. Proposed(rows) # {}
    BY <1>3 DEF RiskVsProposal
  <2> QED BY <1>1, <1>3, <2>1, <2>2 DEF ConflictRec
<1>4. CASE ~MarketVsSentiment(rows) /\ ~RiskVsProposal(rows) /\ ComplianceVsProposal(rows)
  <2>1. DetectConflict(rows) = [kind |-> "compliance_vs_proposal",
                                rows |-> RowsOf(rows, "ComplianceReport") \cup Proposed(rows)]
    BY <1>4 DEF DetectConflict
  <2>2. Proposed(rows) # {}
    BY <1>4 DEF ComplianceVsProposal
  <2> QED BY <1>1, <1>4, <2>1, <2>2 DEF ConflictRec
<1>5. CASE ~MarketVsSentiment(rows) /\ ~RiskVsProposal(rows) /\ ~ComplianceVsProposal(rows)
  <2>1. DetectConflict(rows) = NoConflict
    BY <1>5 DEF DetectConflict
  <2> QED BY <1>5, <2>1 DEF ConflictRec, NoConflict
<1> QED BY <1>2, <1>3, <1>4, <1>5

(* What a commit adds, for what was found. *)
LEMMA Resolves ==
    ASSUME ConflictTypeOK, NEW f \in ConflictRec
    PROVE  /\ ResolveConflict(f) \in Seq(DecisionRec)
           /\ f.kind # "none" => \E i \in DOMAIN ResolveConflict(f) : IsResolution(ResolveConflict(f)[i])
           /\ f.kind \in {"risk_vs_proposal", "compliance_vs_proposal"} =>
                \E i \in DOMAIN ResolveConflict(f) :
                  /\ ResolveConflict(f)[i].type = "escalate_human" /\ ResolveConflict(f)[i].role = "RiskManager"
                  /\ f.rows \subseteq ResolveConflict(f)[i].inputs
<1> DEFINE d1 == RecordDecision("resolve_conflict", "none", f.rows)
           d2 == RecordDecision("resolve_conflict", "RiskManager", f.rows)
           d3 == RecordDecision("escalate_human", "RiskManager", f.rows)
<1>1. f.rows \cup Portfolio \subseteq AnyRow
  BY DEF ConflictTypeOK, ConflictRec, Portfolio
<1>2. /\ d1 \in DecisionRec /\ IsResolution(d1) /\ d2 \in DecisionRec /\ IsResolution(d2)
      /\ d3 \in DecisionRec /\ d3.type = "escalate_human" /\ d3.role = "RiskManager" /\ f.rows \subseteq d3.inputs
  BY <1>1 DEF RecordDecision, Decision, DecisionRec, IsResolution
<1>3. CASE f.kind = "none"
  <2>1. ResolveConflict(f) = <<>>
    BY <1>3 DEF ResolveConflict
  <2> QED BY <1>3, <2>1
<1>4. CASE f.kind = "market_vs_sentiment"
  <2>1. ResolveConflict(f) = <<d1>>
    BY <1>4 DEF ResolveConflict
  <2> HIDE DEF d1
  <2>2. <<d1>> \in Seq(DecisionRec) /\ 1 \in DOMAIN <<d1>> /\ <<d1>>[1] = d1
    BY <1>2
  <2> QED BY <1>2, <1>4, <2>1, <2>2
<1>5. CASE f.kind \in {"risk_vs_proposal", "compliance_vs_proposal"}
  <2>1. ResolveConflict(f) = <<d2, d3>>
    BY <1>5 DEF ResolveConflict
  <2> HIDE DEF d2, d3
  <2>2. <<d2, d3>> \in Seq(DecisionRec) /\ 1 \in DOMAIN <<d2, d3>> /\ 2 \in DOMAIN <<d2, d3>>
        /\ <<d2, d3>>[1] = d2 /\ <<d2, d3>>[2] = d3
    BY <1>2
  <2> QED BY <1>2, <1>5, <2>1, <2>2
<1> QED BY <1>3, <1>4, <1>5 DEF ConflictRec

LEMMA BeforeTheEnd ==
    ASSUME ConflictInv, ~tasksEnded, closer' = closer, closed' = closed,
           results' \subseteq AnyRow, tasksEnded' \in BOOLEAN,
           \/ decisions' = decisions
           \/ \E d \in DecisionRec : d.type # "resolve_conflict" /\ decisions' = Append(decisions, d)
    PROVE  ConflictInv'
<1> USE DEF ConflictInv
<1>1. ~closed /\ \A c \in Closers : ~closer[c].open
  OBVIOUS
<1>2. /\ decisions' \in Seq(DecisionRec)
      /\ \A i \in DOMAIN decisions' : decisions'[i].type = "resolve_conflict" => AlreadyResolved
  <2>1. CASE decisions' = decisions
    BY <2>1 DEF ConflictTypeOK, AlreadyResolved
  <2>2. ASSUME NEW d \in DecisionRec, d.type # "resolve_conflict", decisions' = Append(decisions, d)
        PROVE  /\ decisions' \in Seq(DecisionRec)
               /\ \A i \in DOMAIN decisions' : decisions'[i].type = "resolve_conflict" => AlreadyResolved
    <3>1. decisions \in Seq(DecisionRec)
      BY DEF ConflictTypeOK
    <3>2. /\ decisions' \in Seq(DecisionRec)
          /\ \A i \in DOMAIN decisions' : decisions'[i] = d \/ (i \in DOMAIN decisions /\ decisions'[i] = decisions[i])
      BY <2>2, <3>1
    <3> QED BY <2>2, <3>2 DEF AlreadyResolved
  <2> QED BY <2>1, <2>2
<1>3. ~AlreadyResolved'
  BY <1>1, <1>2 DEF AlreadyResolved
<1>4. ConflictTypeOK'
  BY <1>2 DEF ConflictTypeOK
<1> QED BY <1>1, <1>3, <1>4

(* From here on the results stay, and so does what was decided about them. *)
LEMMA AfterTheEnd ==
    ASSUME ConflictInv, tasksEnded' = tasksEnded, results' = results, tasksEnded,
           decisions' = decisions, closed' = closed, NEW c \in Closers, NEW x \in CloserRec,
           closer' = [closer EXCEPT ![c] = x],
           x.open /\ OneOfEach => x.conflict = DetectConflict(results) \/ (x.conflict = NoConflict /\ closed)
    PROVE  ConflictInv'
<1> USE DEF ConflictInv
<1>1. closer'[c] = x /\ \A b \in Closers \ {c} : closer'[b] = closer[b]
  BY DEF ConflictTypeOK
<1>2. ConflictTypeOK'
  BY DEF ConflictTypeOK
<1>3. (AlreadyResolved' <=> AlreadyResolved) /\ (OneOfEach' <=> OneOfEach)
      /\ DetectConflict(results') = DetectConflict(results)
  BY DEF AlreadyResolved, OneOfEach
<1>4. Decided' <=> Decided
  BY DEF Decided, Opposed, Vetoed, IsResolution, IsEscalation, Portfolio
<1>5. \A b \in Closers : closer'[b].open => tasksEnded' /\ (OneOfEach' => FoundIt(b)')
  <2> SUFFICES ASSUME NEW b \in Closers, closer'[b].open, OneOfEach PROVE FoundIt(b)'
    BY <1>3
  <2>1. CASE b = c
    BY <1>1, <1>3, <2>1 DEF FoundIt
  <2>2. CASE b # c
    BY <1>1, <1>3, <2>2 DEF FoundIt
  <2> QED BY <2>1, <2>2
<1> QED BY <1>2, <1>3, <1>4, <1>5

LEMMA NoCloserShape == NoCloser \in CloserRec /\ ~NoCloser.open /\ NoCloser.conflict = NoConflict
  /\ [NoCloser EXCEPT !.open = TRUE] \in CloserRec /\ [NoCloser EXCEPT !.open = TRUE].conflict = NoConflict
<1>1. NoConflict \in ConflictRec
  BY DEF NoConflict, ConflictRec
<1> QED BY <1>1 DEF NoCloser, CloserRec

LEMMA FinalizeDetectsKeeps ==
    ASSUME ConflictInv, NEW c \in Closers, FinalizeDetects(c)
    PROVE  ConflictInv'
<1>1. tasksEnded /\ UNCHANGED <<results, tasksEnded, decisions, closed>>
  BY DEF FinalizeDetects
<1>2. CASE AlreadyResolved
  <2>1. closer' = [closer EXCEPT ![c] = [NoCloser EXCEPT !.open = TRUE]] /\ closed
    BY <1>2 DEF FinalizeDetects, ConflictInv
  <2> DEFINE x == [NoCloser EXCEPT !.open = TRUE]
  <2>2. x \in CloserRec /\ x.conflict = NoConflict
    BY NoCloserShape
  <2> HIDE DEF x
  <2>3. closer' = [closer EXCEPT ![c] = x]
    BY <2>1 DEF x
  <2> QED BY <1>1, <2>1, <2>2, <2>3, AfterTheEnd
<1>3. CASE ~AlreadyResolved
  <2>1. PICK rows \in ByType : closer' = [closer EXCEPT ![c] = [open |-> TRUE, conflict |-> DetectConflict(rows)]]
    BY <1>3 DEF FinalizeDetects
  <2> DEFINE x == [open |-> TRUE, conflict |-> DetectConflict(rows)]
  <2>2. rows \in SUBSET AnyRow
    BY DEF ByType, ConflictInv, ConflictTypeOK
  <2>3. DetectConflict(rows) \in ConflictRec
    BY <2>2, Detects
  <2>4. x \in CloserRec /\ x.conflict = DetectConflict(rows)
    BY <2>3 DEF CloserRec
  <2>5. closer' = [closer EXCEPT ![c] = x]
    BY <2>1
  <2>6. OneOfEach => rows = results
    BY OneView
  <2> HIDE DEF x
  <2> QED BY <1>1, <2>4, <2>5, <2>6, AfterTheEnd
<1> QED BY <1>2, <1>3

LEMMA CloserDiesKeeps ==
    ASSUME ConflictInv, NEW c \in Closers, CloserDies(c)
    PROVE  ConflictInv'
<1>1. tasksEnded /\ UNCHANGED <<results, tasksEnded, decisions, closed>> /\ closer' = [closer EXCEPT ![c] = NoCloser]
  BY DEF CloserDies, ConflictInv
<1> QED BY <1>1, NoCloserShape, AfterTheEnd

LEMMA FinalizeCommitsKeeps ==
    ASSUME ConflictInv, NEW c \in Closers, FinalizeCommits(c)
    PROVE  ConflictInv'
<1> USE DEF ConflictInv
<1> DEFINE f == closer[c].conflict
           new == ResolveConflict(f)
<1>1. /\ closer[c].open /\ tasksEnded /\ closer[c] \in CloserRec /\ decisions \in Seq(DecisionRec)
      /\ closer' = [closer EXCEPT ![c] = NoCloser] /\ closed' = TRUE /\ UNCHANGED <<results, tasksEnded>>
      /\ decisions' = decisions \o new
  BY DEF FinalizeCommits, ConflictTypeOK
<1>2. f \in ConflictRec
  BY <1>1 DEF CloserRec
<1> HIDE DEF f
<1>3. /\ new \in Seq(DecisionRec)
      /\ f.kind # "none" => \E i \in DOMAIN new : IsResolution(new[i])
      /\ f.kind \in {"risk_vs_proposal", "compliance_vs_proposal"} =>
           \E i \in DOMAIN new : /\ new[i].type = "escalate_human" /\ new[i].role = "RiskManager"
                                 /\ f.rows \subseteq new[i].inputs
  BY <1>2, Resolves
<1> HIDE DEF new
<1>4. /\ decisions' \in Seq(DecisionRec)
      /\ \A i \in DOMAIN decisions : i \in DOMAIN decisions' /\ decisions'[i] = decisions[i]
      /\ \A i \in DOMAIN new : Len(decisions) + i \in DOMAIN decisions' /\ decisions'[Len(decisions) + i] = new[i]
  BY <1>1, <1>3, Concatenates
<1>5. closer'[c] = NoCloser /\ \A b \in Closers \ {c} : closer'[b] = closer[b]
  BY <1>1 DEF ConflictTypeOK
<1>6. ConflictTypeOK'
  BY <1>1, <1>4, NoCloserShape DEF ConflictTypeOK
<1>7. \A d : (IsResolution(d)' <=> IsResolution(d)) /\ (IsEscalation(d)' <=> IsEscalation(d))
  BY <1>1 DEF IsResolution, IsEscalation, Portfolio
<1>8. (Opposed' <=> Opposed) /\ (Vetoed' <=> Vetoed) /\ (OneOfEach' <=> OneOfEach)
      /\ DetectConflict(results') = DetectConflict(results)
  BY <1>1 DEF Opposed, Vetoed, OneOfEach
<1>9. OneOfEach => Decided'
  <2> SUFFICES ASSUME OneOfEach PROVE Decided'
    OBVIOUS
  <2>1. ASSUME Decided PROVE Decided'
    <3>1. Opposed' => \E i \in DOMAIN decisions' : IsResolution(decisions'[i])
      BY <1>4, <1>8, <2>1 DEF Decided
    <3>2. Vetoed' => \E i \in DOMAIN decisions' : IsEscalation(decisions'[i])
      BY <1>4, <1>8, <2>1 DEF Decided
    <3>3. \A i \in DOMAIN decisions' : (IsResolution(decisions'[i]) => IsResolution(decisions[i])')
                                       /\ (IsEscalation(decisions'[i]) => IsEscalation(decisions[i])')
      BY <1>1 DEF IsResolution, IsEscalation, Portfolio
    <3> QED BY <3>1, <3>2, <3>3 DEF Decided
  <2>2. CASE f = NoConflict /\ closed
    BY <2>1, <2>2
  <2>3. CASE f = DetectConflict(results)
    <3>1. results \in SUBSET AnyRow
      BY DEF ConflictTypeOK
    <3>2. /\ Opposed => f.kind # "none"
          /\ Vetoed => /\ f.kind \in {"risk_vs_proposal", "compliance_vs_proposal"}
                       /\ Proposed(results) \subseteq f.rows /\ Proposed(results) # {}
      BY <2>3, <3>1, Detects DEF Opposed, Vetoed
    <3>3. Opposed' => \E i \in DOMAIN decisions' : IsResolution(decisions'[i])
      BY <1>3, <1>4, <1>8, <3>2
    <3>4. Vetoed' => \E i \in DOMAIN decisions' : IsEscalation(decisions'[i])
      <4> SUFFICES ASSUME Vetoed PROVE \E i \in DOMAIN decisions' : IsEscalation(decisions'[i])
        BY <1>8
      <4>1. PICK i \in DOMAIN new : /\ new[i].type = "escalate_human" /\ new[i].role = "RiskManager"
                                    /\ f.rows \subseteq new[i].inputs
        BY <1>3, <3>2
      <4>2. IsEscalation(new[i])
        BY <3>2, <4>1 DEF IsEscalation
      <4> QED BY <1>4, <4>2
    <3>5. \A i \in DOMAIN decisions' : (IsResolution(decisions'[i]) => IsResolution(decisions[i])')
                                       /\ (IsEscalation(decisions'[i]) => IsEscalation(decisions[i])')
      BY <1>1 DEF IsResolution, IsEscalation, Portfolio
    <3> QED BY <3>3, <3>4, <3>5 DEF Decided
  <2> QED BY <1>1, <2>2, <2>3 DEF FoundIt, f
<1>10. \A b \in Closers : closer'[b].open => tasksEnded' /\ (OneOfEach' => FoundIt(b)')
  <2> SUFFICES ASSUME NEW b \in Closers, closer'[b].open PROVE tasksEnded' /\ (OneOfEach' => FoundIt(b)')
    OBVIOUS
  <2>1. b # c
    BY <1>5, NoCloserShape
  <2> QED BY <1>1, <1>5, <1>8, <2>1 DEF FoundIt
<1> QED BY <1>1, <1>6, <1>8, <1>9, <1>10

(* Where artefacts of a closed run oppose each other a resolution is on record, and a veto of
   risk or compliance has reached a human unless an opposition of market and sentiment
   was found first, although closers race and may die (detect_conflict, _finalize). *)
THEOREM VetoesReachHumans == ConflictSpec => []VetoReachesHuman
<1>1. ConflictInit => ConflictInv
  <2> SUFFICES ASSUME ConflictInit PROVE ConflictInv
    OBVIOUS
  <2>1. closer \in [Closers -> CloserRec] /\ \A c \in Closers : ~closer[c].open
    BY NoCloserShape DEF ConflictInit
  <2>2. decisions \in Seq(DecisionRec) /\ ~AlreadyResolved
    BY DEF ConflictInit, AlreadyResolved
  <2> QED BY <2>1, <2>2 DEF ConflictInit, ConflictInv, ConflictTypeOK
<1>2. ConflictInv /\ [ConflictNext]_conflictVars => ConflictInv'
  <2> SUFFICES ASSUME ConflictInv, [ConflictNext]_conflictVars PROVE ConflictInv'
    OBVIOUS
  <2>1. ASSUME NEW t \in DOMAIN Views, NEW v \in Views[t], PersistArtefact(t, v) PROVE ConflictInv'
    <3>1. [type |-> t, view |-> v] \in AnyRow
      BY DEF AnyRow, AnyView
    <3>2. results' \subseteq AnyRow
      BY <2>1, <3>1 DEF PersistArtefact, ConflictInv, ConflictTypeOK
    <3>3. tasksEnded' \in BOOLEAN
      BY <2>1 DEF PersistArtefact, ConflictInv, ConflictTypeOK
    <3> QED BY <2>1, <3>2, <3>3, BeforeTheEnd DEF PersistArtefact
  <2>2. ASSUME NEW type \in {"reassign", "escalate_human"}, AgentUnavailable(type) PROVE ConflictInv'
    <3> DEFINE d == Decision(type, IF type = "escalate_human" THEN "SystemAdministrator" ELSE "none", {})
    <3>1. d \in DecisionRec /\ d.type # "resolve_conflict"
      BY DEF Decision, DecisionRec
    <3>2. decisions' = Append(decisions, d) /\ ~tasksEnded /\ UNCHANGED <<results, tasksEnded, closer, closed>>
      BY <2>2 DEF AgentUnavailable
    <3> HIDE DEF d
    <3>3. results' \subseteq AnyRow /\ tasksEnded' \in BOOLEAN
      BY <3>2 DEF ConflictInv, ConflictTypeOK
    <3> QED BY <3>1, <3>2, <3>3, BeforeTheEnd
  <2>3. CASE TasksEnd
    <3>1. results' \subseteq AnyRow
      BY <2>3 DEF TasksEnd, ConflictInv, ConflictTypeOK
    <3> QED BY <2>3, <3>1, BeforeTheEnd DEF TasksEnd
  <2>4. ASSUME NEW c \in Closers, FinalizeDetects(c) \/ FinalizeCommits(c) \/ CloserDies(c) PROVE ConflictInv'
    BY <2>4, FinalizeDetectsKeeps, FinalizeCommitsKeeps, CloserDiesKeeps
  <2>5. CASE UNCHANGED conflictVars
    BY <2>5 DEF conflictVars, ConflictInv, ConflictTypeOK, AlreadyResolved, OneOfEach, FoundIt, Decided, Opposed,
                Vetoed, IsResolution, IsEscalation, Portfolio
  <2> QED BY <2>1, <2>2, <2>3, <2>4, <2>5 DEF ConflictNext
<1>3. ConflictInv => VetoReachesHuman
  BY DEF ConflictInv, VetoReachesHuman, OneOfEach, Decided, Opposed, Vetoed, IsResolution, IsEscalation
<1> QED BY <1>1, <1>2, <1>3, PTL DEF ConflictSpec

-----------------------------------------------------------------------------
(* LlmRouter: a budget checked before the money is spent *)

Chains == UNION {[D -> LlmPairs] : D \in SUBSET Nat}
LlmRec == [step : {"idle", "call", "try", "parse", "error"}, chain : Chains, tries : Nat]

HasBudgeted(chain) == \E r \in DOMAIN chain : chain[r][1] = Budgeted

(* Threads whose call may still be served by the budgeted provider. *)
Pending == {t \in LlmThreads : llm[t].step = "try" /\ HasBudgeted(llm[t].chain)}

(* Once the budget is used up, every thread beyond it has had its one call. *)
OvershootShared ==
  tokensUsed >= TokenBudget =>
    tokensUsed <= TokenBudget - 1 + (Cardinality(LlmThreads) - Cardinality(Pending)) * CallTokens

LlmInv ==
  /\ llm \in [LlmThreads -> LlmRec] /\ tokensUsed \in Nat
  /\ \A t \in LlmThreads : llm[t].step = "try" => DOMAIN llm[t].chain # {}
  /\ OvershootShared

-----------------------------------------------------------------------------
LEMMA PendingCounts ==
    /\ IsFiniteSet(Pending) /\ Cardinality(Pending) \in Nat /\ Cardinality(LlmThreads) \in Nat
    /\ Cardinality(Pending) <= Cardinality(LlmThreads)
<1>1. IsFiniteSet(LlmThreads) /\ Pending \in SUBSET LlmThreads
  BY LlmBounds DEF Pending
<1> QED BY <1>1, FS_Subset, FS_CardinalityType

LEMMA EmptyChain == <<>> \in Chains /\ DOMAIN <<>> = {}
<1>1. <<>> \in [{} -> LlmPairs]
  OBVIOUS
<1> QED BY <1>1 DEF Chains

LEMMA ChainShape ==
    ASSUME NEW chain \in Chains, DOMAIN chain # {}
    PROVE  FirstRank(chain) \in DOMAIN chain
<1>1. DOMAIN chain \subseteq Nat
  BY DEF Chains
<1>2. \E r \in DOMAIN chain : \A s \in DOMAIN chain : r <= s
  BY <1>1, LeastNat
<1> QED BY <1>2 DEF FirstRank

LEMMA BuiltChain ==
    /\ BuildFallbackChain \in Chains
    /\ \A r \in DOMAIN BuildFallbackChain : IsConfigured(BuildFallbackChain[r][1])
<1> DEFINE listed == {r \in DOMAIN RoutingTable : /\ IsConfigured(RoutingTable[r][1])
                                                  /\ ChainHead # {} => RoutingTable[r] # customPair}
           D == ChainHead \cup listed
           f == [r \in D |-> IF r = 0 THEN customPair ELSE RoutingTable[r]]
<1>1. BuildFallbackChain = f
  BY DEF BuildFallbackChain
<1>2. /\ ChainHead \subseteq {0}
      /\ 0 \in ChainHead => customPair \in LlmPairs /\ IsConfigured(customPair[1])
  BY DEF ChainHead
<1>3. listed \subseteq Nat \ {0} /\ \A r \in listed : RoutingTable[r] \in LlmPairs /\ IsConfigured(RoutingTable[r][1])
  BY LlmBounds DEF LlmPairs, ToSet
<1> HIDE DEF listed
<1>4. D \subseteq Nat /\ \A r \in D : f[r] \in LlmPairs /\ IsConfigured(f[r][1])
  BY <1>2, <1>3
<1>5. f \in [D -> LlmPairs] /\ DOMAIN f = D
  BY <1>4
<1> HIDE DEF f, D
<1> QED BY <1>1, <1>4, <1>5 DEF Chains

LEMMA SpentBudget ==
    ASSUME tokensUsed \in Nat, tokensUsed >= TokenBudget
    PROVE  ~HasBudgeted(BuildFallbackChain)
<1>1. ~HasBudget
  BY LlmBounds DEF HasBudget
<1>2. ~IsConfigured(Budgeted)
  BY <1>1, LlmBounds DEF IsConfigured
<1> QED BY <1>2, BuiltChain DEF HasBudgeted

(* A step of one thread. *)
LEMMA ThreadKeeps ==
    ASSUME LlmInv, NEW t \in LlmThreads, NEW x \in LlmRec, llm' = [llm EXCEPT ![t] = x],
           x.step = "try" => DOMAIN x.chain # {}, tokensUsed' \in Nat,
           \/ tokensUsed' = tokensUsed /\ (x.step = "try" /\ HasBudgeted(x.chain) => t \in Pending)
           \/ tokensUsed' = tokensUsed /\ tokensUsed < TokenBudget
           \/ tokensUsed' <= tokensUsed + CallTokens /\ t \in Pending /\ x.step # "try"
    PROVE  LlmInv'
<1> USE DEF LlmInv
<1>1. llm'[t] = x /\ (\A u \in LlmThreads \ {t} : llm'[u] = llm[u]) /\ llm' \in [LlmThreads -> LlmRec]
  OBVIOUS
<1>2. \A u \in LlmThreads : llm'[u].step = "try" => DOMAIN llm'[u].chain # {}
  BY <1>1
<1> DEFINE n == Cardinality(LlmThreads)
           p == Cardinality(Pending)
           q == Cardinality(Pending')
<1>3. p \in Nat /\ n \in Nat /\ p <= n /\ IsFiniteSet(Pending)
  BY PendingCounts
<1>4. CallTokens \in Nat /\ CallTokens > 0 /\ TokenBudget \in Nat
  BY LlmBounds
<1>5. CASE tokensUsed' = tokensUsed /\ (x.step = "try" /\ HasBudgeted(x.chain) => t \in Pending)
  <2>1. Pending' \in SUBSET Pending
    BY <1>1, <1>5 DEF Pending
  <2>2. q \in Nat /\ q <= p
    BY <1>3, <2>1, FS_Subset, FS_CardinalityType
  <2>3. (n - p) * CallTokens <= (n - q) * CallTokens
    <3> HIDE DEF n, p, q
    <3> QED BY <1>3, <1>4, <2>2
  <2>4. tokensUsed >= TokenBudget => tokensUsed <= TokenBudget - 1 + (n - p) * CallTokens
    BY DEF OvershootShared
  <2>5. tokensUsed >= TokenBudget => tokensUsed <= TokenBudget - 1 + (n - q) * CallTokens
    <3> DEFINE a == (n - p) * CallTokens
               b == (n - q) * CallTokens
    <3>1. a \in Int /\ b \in Int
      <4> HIDE DEF n, p, q
      <4> QED BY <1>3, <1>4, <2>2
    <3>2. a <= b /\ (tokensUsed >= TokenBudget => tokensUsed <= TokenBudget - 1 + a)
      BY <2>3, <2>4
    <3> HIDE DEF a, b
    <3>3. tokensUsed >= TokenBudget => tokensUsed <= TokenBudget - 1 + b
      BY <1>4, <3>1, <3>2
    <3> QED BY <3>3 DEF b
  <2>6. OvershootShared'
    BY <1>5, <2>5 DEF OvershootShared
  <2> QED BY <1>1, <1>2, <1>5, <2>6
<1>6. CASE tokensUsed' = tokensUsed /\ tokensUsed < TokenBudget
  <2>1. OvershootShared'
    BY <1>4, <1>6 DEF OvershootShared
  <2> QED BY <1>1, <1>2, <2>1
<1>7. CASE tokensUsed' <= tokensUsed + CallTokens /\ t \in Pending /\ x.step # "try"
  <2>1. Pending' = Pending \ {t}
    BY <1>1, <1>7 DEF Pending
  <2>2. q = p - 1
    BY <1>3, <1>7, <2>1, FS_RemoveElement
  <2>3. tokensUsed >= TokenBudget => tokensUsed <= TokenBudget - 1 + (n - p) * CallTokens
    BY DEF OvershootShared
  <2>4. tokensUsed' <= TokenBudget - 1 + (n - q) * CallTokens
    <3> DEFINE a == (n - p) * CallTokens
               b == (n - q) * CallTokens
    <3>1. a \in Int /\ b = a + CallTokens /\ a >= 0
      <4>1. n - p \in Nat /\ n - q = (n - p) + 1
        <5> HIDE DEF n, p, q
        <5> QED BY <1>3, <2>2
      <4>2. \A k \in Nat : k * CallTokens \in Nat /\ (k + 1) * CallTokens = k * CallTokens + CallTokens
        BY <1>4
      <4> HIDE DEF n, p, q
      <4> QED BY <4>1, <4>2
    <3>2. tokensUsed >= TokenBudget => tokensUsed <= TokenBudget - 1 + a
      BY <2>3
    <3> HIDE DEF a, b
    <3>3. tokensUsed' <= TokenBudget - 1 + b
      BY <1>4, <1>7, <3>1, <3>2
    <3> QED BY <3>3 DEF b
  <2>5. OvershootShared'
    BY <2>4 DEF OvershootShared
  <2> QED BY <1>1, <1>2, <2>5
<1> QED BY <1>5, <1>6, <1>7

LEMMA NoTaskShape == NoTask \in LlmRec /\ NoTask.step = "idle"
BY EmptyChain DEF NoTask, LlmRec

LEMMA LlmStepKeeps ==
    ASSUME LlmInv, NEW t \in LlmThreads,
           \/ StartLlmTask(t) \/ CompleteBegins(t) \/ ProviderSucceeds(t) \/ ProviderErrs(t) \/ AnswerUnusable(t)
           \/ RecordLlmProvenance(t) \/ HandlerGivesUp(t) \/ HandlerRetries(t)
    PROVE  LlmInv'
<1>1. llm[t] \in LlmRec /\ tokensUsed \in Nat /\ llm \in [LlmThreads -> LlmRec]
  BY DEF LlmInv
<1>2. ASSUME NEW x \in LlmRec, x.step # "try", llm' = [llm EXCEPT ![t] = x], tokensUsed' = tokensUsed
      PROVE  LlmInv'
  BY <1>1, <1>2, ThreadKeeps
<1>3. llm[t].chain \in Chains /\ llm[t].tries \in Nat /\ llm[t].tries + 1 \in Nat
  BY <1>1 DEF LlmRec
<1>4. CASE StartLlmTask(t)
  <2> DEFINE x == [llm[t] EXCEPT !.step = "call"]
  <2>1. llm' = [llm EXCEPT ![t] = x] /\ tokensUsed' = tokensUsed
    BY <1>1, <1>4 DEF StartLlmTask
  <2>2. x \in LlmRec /\ x.step # "try"
    BY <1>1 DEF LlmRec
  <2> HIDE DEF x
  <2> QED BY <1>2, <2>1, <2>2
<1>5. CASE AnswerUnusable(t)
  <2> DEFINE x == [llm[t] EXCEPT !.step = "error"]
  <2>1. llm' = [llm EXCEPT ![t] = x] /\ tokensUsed' = tokensUsed
    BY <1>1, <1>5 DEF AnswerUnusable
  <2>2. x \in LlmRec /\ x.step # "try"
    BY <1>1 DEF LlmRec
  <2> HIDE DEF x
  <2> QED BY <1>2, <2>1, <2>2
<1>6. CASE RecordLlmProvenance(t) \/ HandlerGivesUp(t)
  <2>1. llm' = [llm EXCEPT ![t] = NoTask] /\ tokensUsed' = tokensUsed
    BY <1>6 DEF RecordLlmProvenance, HandlerGivesUp
  <2> QED BY <1>1, <2>1, NoTaskShape, ThreadKeeps
<1>7. CASE HandlerRetries(t)
  <2> DEFINE x == [llm[t] EXCEPT !.step = "call", !.tries = @ + 1]
  <2>1. llm' = [llm EXCEPT ![t] = x] /\ tokensUsed' = tokensUsed
    BY <1>1, <1>7 DEF HandlerRetries
  <2>2. x \in LlmRec /\ x.step # "try"
    BY <1>1, <1>3 DEF LlmRec
  <2> HIDE DEF x
  <2> QED BY <1>2, <2>1, <2>2
<1>8. CASE CompleteBegins(t)
  <2> DEFINE c == BuildFallbackChain
             s == IF DOMAIN c = {} THEN "error" ELSE "try"
             x == [llm[t] EXCEPT !.step = s, !.chain = c]
  <2>1. llm' = [llm EXCEPT ![t] = x] /\ tokensUsed' = tokensUsed
    BY <1>8 DEF CompleteBegins
  <2>2. c \in Chains
    BY BuiltChain
  <2>3. tokensUsed >= TokenBudget => ~HasBudgeted(c)
    BY <1>1, SpentBudget
  <2> HIDE DEF c
  <2>4. s \in {"error", "try"} /\ (s = "try" => DOMAIN c # {})
    OBVIOUS
  <2> HIDE DEF s
  <2>5. x \in LlmRec /\ x.step = s /\ x.chain = c
    BY <1>1, <2>2, <2>4 DEF LlmRec
  <2> HIDE DEF x
  <2>6. tokensUsed < TokenBudget \/ ~HasBudgeted(x.chain)
    BY <1>1, <2>3, <2>5, LlmBounds
  <2> QED BY <1>1, <2>1, <2>4, <2>5, <2>6, ThreadKeeps
<1>9. CASE ProviderErrs(t)
  <2> DEFINE k == llm[t].chain
             c == [r \in DOMAIN k \ {FirstRank(k)} |-> k[r]]
             s == IF DOMAIN c = {} THEN "error" ELSE "try"
             x == [llm[t] EXCEPT !.chain = c, !.step = s]
  <2>1. llm' = [llm EXCEPT ![t] = x] /\ tokensUsed' = tokensUsed
    BY <1>9 DEF ProviderErrs
  <2>2. k \in Chains
    BY <1>3
  <2>3. c \in Chains /\ (HasBudgeted(c) => HasBudgeted(k))
    <3> HIDE DEF k
    <3>1. PICK D \in SUBSET Nat : k \in [D -> LlmPairs]
      BY <2>2 DEF Chains
    <3>2. c \in [D \ {FirstRank(k)} -> LlmPairs] /\ D \ {FirstRank(k)} \in SUBSET Nat
      BY <3>1
    <3>3. c \in Chains
      BY <3>2 DEF Chains
    <3> QED BY <3>3 DEF HasBudgeted
  <2>4. llm[t].step = "try"
    BY <1>9 DEF ProviderErrs
  <2>5. HasBudgeted(c) => t \in Pending
    BY <2>3, <2>4 DEF Pending
  <2> HIDE DEF c
  <2>6. s \in {"error", "try"} /\ (s = "try" => DOMAIN c # {})
    OBVIOUS
  <2> HIDE DEF s
  <2>7. x \in LlmRec /\ x.step = s /\ x.chain = c
    BY <1>1, <2>3, <2>6 DEF LlmRec
  <2> HIDE DEF x
  <2> QED BY <1>1, <2>1, <2>5, <2>6, <2>7, ThreadKeeps
<1>10. CASE ProviderSucceeds(t)
  <2> DEFINE k == llm[t].chain
             x == [llm[t] EXCEPT !.step = "parse", !.chain = <<>>]
  <2>1. llm' = [llm EXCEPT ![t] = x]
    BY <1>10 DEF ProviderSucceeds
  <2>2. x \in LlmRec /\ x.step = "parse"
    BY <1>1, EmptyChain DEF LlmRec
  <2> HIDE DEF x
  <2>3. llm[t].step = "try" /\ DOMAIN k # {} /\ k \in Chains
    BY <1>3, <1>10 DEF ProviderSucceeds, LlmInv
  <2>4. FirstRank(k) \in DOMAIN k
    BY <2>3, ChainShape
  <2>5. PICK tokens \in 1 .. CallTokens :
          tokensUsed' = IF k[FirstRank(k)][1] = Budgeted THEN tokensUsed + tokens ELSE tokensUsed
    BY <1>10 DEF ProviderSucceeds
  <2>6. tokens \in Nat /\ tokens <= CallTokens /\ CallTokens \in Nat
    BY LlmBounds
  <2>7. CASE k[FirstRank(k)][1] = Budgeted
    <3>1. t \in Pending
      BY <2>3, <2>4, <2>7 DEF Pending, HasBudgeted
    <3>2. tokensUsed' \in Nat /\ tokensUsed' <= tokensUsed + CallTokens
      BY <1>1, <2>5, <2>6, <2>7
    <3> QED BY <2>1, <2>2, <3>1, <3>2, ThreadKeeps
  <2>8. CASE k[FirstRank(k)][1] # Budgeted
    <3>1. tokensUsed' = tokensUsed
      BY <2>5, <2>8
    <3> QED BY <1>1, <2>1, <2>2, <3>1, ThreadKeeps
  <2> QED BY <2>7, <2>8
<1> QED BY <1>4, <1>5, <1>6, <1>7, <1>8, <1>9, <1>10

(* The calls that have passed the budget check share what may still be overspent: with any
   number of threads and any fallback chains, the tokens used in a day exceed the budget by
   less than one call of each thread (complete, build_fallback_chain, has_budget). *)
THEOREM BudgetHolds == LlmSpec => []BudgetOvershootBounded
<1>1. LlmInit => LlmInv
  <2> SUFFICES ASSUME LlmInit PROVE LlmInv
    OBVIOUS
  <2>1. llm \in [LlmThreads -> LlmRec] /\ \A t \in LlmThreads : llm[t].step = "idle"
    BY NoTaskShape DEF LlmInit
  <2>2. OvershootShared
    BY LlmBounds DEF LlmInit, OvershootShared
  <2> QED BY <2>1, <2>2 DEF LlmInit, LlmInv
<1>2. LlmInv /\ [LlmNext]_llmVars => LlmInv'
  <2> SUFFICES ASSUME LlmInv, [LlmNext]_llmVars PROVE LlmInv'
    OBVIOUS
  <2>1. ASSUME UNCHANGED <<llm, tokensUsed>> PROVE LlmInv'
    BY <2>1 DEF LlmInv, OvershootShared, Pending
  <2>2. CASE TokenDayEnds
    <3>1. tokensUsed' = 0 /\ llm' = llm
      BY <2>2 DEF TokenDayEnds
    <3>2. OvershootShared'
      BY <3>1, LlmBounds DEF OvershootShared
    <3> QED BY <3>1, <3>2 DEF LlmInv
  <2> QED BY <2>1, <2>2, LlmStepKeeps DEF LlmNext, SetProviderKey, SetProviderModel, llmVars
<1>3. LlmInv => BudgetOvershootBounded
  <2> SUFFICES ASSUME LlmInv PROVE BudgetOvershootBounded
    OBVIOUS
  <2> DEFINE n == Cardinality(LlmThreads)
             p == Cardinality(Pending)
  <2>1. p \in Nat /\ n \in Nat /\ p <= n /\ CallTokens \in Nat /\ TokenBudget \in Nat /\ tokensUsed \in Nat
    BY PendingCounts, LlmBounds DEF LlmInv
  <2>2. tokensUsed >= TokenBudget => tokensUsed <= TokenBudget - 1 + (n - p) * CallTokens
    BY DEF LlmInv, OvershootShared
  <2>3. tokensUsed <= TokenBudget - 1 + n * CallTokens
    <3> HIDE DEF n, p
    <3>1. (n - p) * CallTokens <= n * CallTokens /\ n * CallTokens \in Nat /\ (n - p) * CallTokens \in Nat
      BY <2>1
    <3> DEFINE a == (n - p) * CallTokens
               b == n * CallTokens
    <3>2. a \in Nat /\ b \in Nat /\ a <= b
      BY <3>1
    <3>3. tokensUsed >= TokenBudget => tokensUsed <= TokenBudget - 1 + a
      BY <2>2
    <3> HIDE DEF a, b
    <3>4. tokensUsed <= TokenBudget - 1 + b
      BY <2>1, <3>2, <3>3
    <3> QED BY <3>4 DEF b
  <2> QED BY <2>3 DEF BudgetOvershootBounded
<1> QED BY <1>1, <1>2, <1>3, PTL DEF LlmSpec
=============================================================================
