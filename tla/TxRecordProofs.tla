--------------------------- MODULE TxRecordProofs ---------------------------
(***************************************************************************)
(* The monitor implements TxRecord, for any values of the constants.  Each *)
(* step of TxMonitor is a step of TxRecord or leaves what it speaks of     *)
(* alone; that a write is one of its writes needs the invariant IInv, which*)
(* knows what a handler that waits is going to write.                      *)
(***************************************************************************)
EXTENDS TxMonitorProofs

\* The variables of TxRecord, as TxMonitor!Record maps them.
Status(R)     == [t \in Tx |-> R[t].status]
RetryCount(R) == [t \in Tx |-> R[t].retryCount]
MaxRetries(R) == [t \in Tx |-> R[t].maxRetries]

LEMMA InitMaps == Init => Record!Init
BY DEF Init, Record!Init, Absent

LEMMA StutterMaps ==
  ASSUME UNCHANGED <<ledger, row>>
  PROVE  UNCHANGED Record!rvars
BY DEF Record!rvars

(* A row written over with a verdict is a Write of the record.             *)
LEMMA WriteMaps ==
  ASSUME IInv, NEW t, Exists(t, row), NEW r, Writable(r, t),
         r.status # "pending", row' = [row EXCEPT ![t] = r], ledger' = ledger
  PROVE  Record!Next
<1>1. t \in Tx /\ row \in [Tx -> Row] /\ row[t].status # "absent"
  BY DEF Exists, IInv, TypeOK
<1>2. /\ r \in Row /\ r.status \in {"confirmed", "failed", "retrying", "timeout"}
      /\ r.retryCount \in 0..row[t].maxRetries
      /\ r.maxRetries = row[t].maxRetries
      /\ r.status = "confirmed" => ledger[t] = "success"
      /\ r.status \in {"failed", "retrying"} => ledger[t] = "failed"
  BY <1>1 DEF Writable, RowGood, Row, TransactionStatus
<1>3. /\ row'[t] = r
      /\ \A u \in Tx : u = t \/ row'[u] = row[u]
  BY <1>1
<1>4. Status(row') = [Status(row) EXCEPT ![t] = r.status]
  BY <1>1, <1>3 DEF Status
<1>5. RetryCount(row') = [RetryCount(row) EXCEPT ![t] = r.retryCount]
  BY <1>1, <1>3 DEF RetryCount
<1>6. MaxRetries(row') = MaxRetries(row)
  BY <1>1, <1>2, <1>3 DEF MaxRetries
<1>7. MaxRetries(row)[t] = row[t].maxRetries
      /\ Status(row)[t] = row[t].status
  BY <1>1 DEF MaxRetries, Status
<1>8. r.status \in Record!Truthful(t)
  BY <1>1, <1>2 DEF Record!Truthful, IInv, TypeOK, Verdict
<1>9. Record!Write(t)
  BY <1>1, <1>2, <1>4, <1>5, <1>6, <1>7, <1>8
  DEF Record!Write, Status, RetryCount, MaxRetries
<1> QED
  BY <1>1, <1>9 DEF Record!Next

LEMMA CreateMaps ==
  ASSUME IInv, NEW s \in Server, NEW t \in Tx, CreateTransaction(s, t)
  PROVE  Record!Next
<1>1. PICK limit \in RetryLimit : row' = [row EXCEPT ![t] = NewRow(limit)]
  BY DEF CreateTransaction
<1>2. /\ row[t] = Absent /\ row \in [Tx -> Row] /\ ledger' = ledger
  BY DEF CreateTransaction, IInv, TypeOK, Rows, RowGood
<1>3. /\ NewRow(limit).status = "pending" /\ NewRow(limit).retryCount = 0
      /\ NewRow(limit).maxRetries = limit /\ Absent.retryCount = 0
      /\ Absent.status = "absent"
  BY DEF NewRow, Absent
<1>4. /\ row'[t] = NewRow(limit)
      /\ \A u \in Tx : u = t \/ row'[u] = row[u]
  BY <1>1, <1>2
<1>5. Status(row') = [Status(row) EXCEPT ![t] = "pending"]
  BY <1>3, <1>4 DEF Status
<1>6. RetryCount(row') = RetryCount(row)
  BY <1>2, <1>3, <1>4 DEF RetryCount
<1>7. MaxRetries(row') = [MaxRetries(row) EXCEPT ![t] = limit]
  BY <1>3, <1>4 DEF MaxRetries
<1>8. Record!Submit(t)
  BY <1>2, <1>3, <1>5, <1>6, <1>7
  DEF Record!Submit, Status, RetryCount, MaxRetries
<1> QED
  BY <1>8 DEF Record!Next

LEMMA DecideMaps ==
  ASSUME NEW t \in Tx, LedgerDecides(t)
  PROVE  Record!Next
<1>1. Record!Decide(t)
  BY DEF LedgerDecides, Record!Decide, Verdict
<1> QED
  BY <1>1 DEF Record!Next

(* The steps of a call.  RecordLedger leaves the status alone.             *)
LEMMA CallMaps ==
  ASSUME IInv, NEW c \in Call, Update(c)
  PROVE  Record!Next \/ UNCHANGED Record!rvars
<1>1. CASE FindThenSave(c) \/ FindThenRetry(c) \/ FindThenGiveUp(c)
  BY <1>1, StutterMaps DEF FindThenSave, FindThenRetry, FindThenGiveUp
<1>2. CASE MarkRetrying(c)
  <2>1. /\ Exists(call[c].tx, row) /\ ledger[call[c].tx] = "failed"
        /\ EntityOf(call[c].ent, call[c].tx, row)
        /\ call[c].ent.retryCount < call[c].ent.maxRetries
    BY <1>2, CallFacts DEF MarkRetrying, CallGood, Justified
  <2>2. /\ Writable(Marked(call[c].tx, call[c].ent), call[c].tx)
        /\ Marked(call[c].tx, call[c].ent).status = "retrying"
    BY <2>1, MarkedRow
  <2> QED
    BY <1>2, <2>1, <2>2, WriteMaps DEF MarkRetrying
<1>3. CASE Save(c)
  <2>1. call[c].pc = "save" /\ Exists(call[c].tx, row)
    BY <1>3, CallFacts DEF Save, CallGood
  <2>2. Writable(Held(c), call[c].tx) /\ Held(c).status # "pending"
    BY <2>1, HeldRow
  <2> QED
    BY <1>3, <2>1, <2>2, WriteMaps DEF Save
<1>4. CASE RecordLedger(c)
  <2>1. /\ \A t \in Tx : /\ row'[t].status = row[t].status
                         /\ row'[t].retryCount = row[t].retryCount
                         /\ row'[t].maxRetries = row[t].maxRetries
        /\ ledger' = ledger
    BY <1>4 DEF RecordLedger, IInv, TypeOK, Row
  <2> QED
    BY <2>1 DEF Record!rvars
<1> QED
  BY <1>1, <1>2, <1>3, <1>4 DEF Update

LEMMA RetryMaps ==
  ASSUME IInv, NEW k \in Timer, TimerFires(k) \/ ExecuteRetry(k)
  PROVE  Record!Next \/ UNCHANGED Record!rvars
<1> DEFINE t == timer[k].tx
           e == timer[k].ent
<1>1. CASE TimerFires(k) \/ RetryFails(k)
  BY <1>1, StutterMaps DEF TimerFires, RetryFails
<1>2. CASE RetrySaves(k) \/ RetrySavesAndReschedules(k)
  <2>1. /\ Exists(t, row) /\ RetryEntityOf(e, t, row, ledger)
        /\ row' = [row EXCEPT ![t] = e] /\ ledger' = ledger
    BY <1>2, TimerFacts DEF RetrySaves, RetrySavesAndReschedules
  <2>2. Writable(e, t) /\ e.status # "pending"
    BY <2>1, EntityRow DEF RetryEntityOf
  <2> QED
    BY <2>1, <2>2, WriteMaps
<1>3. CASE RetryMarks(k)
  <2>1. /\ Exists(t, row) /\ ledger[t] = "failed" /\ EntityOf(e, t, row)
        /\ e.retryCount < e.maxRetries
    BY <1>3, TimerFacts DEF RetryMarks, TimerGood, RetryEntityOf
  <2>2. Writable(Marked(t, e), t) /\ Marked(t, e).status = "retrying"
    BY <2>1, MarkedRow
  <2> QED
    BY <1>3, <2>1, <2>2, WriteMaps DEF RetryMarks
<1> QED
  BY <1>1, <1>2, <1>3, NoRetrySucceeds DEF ExecuteRetry

LEMMA StepMaps == IInv /\ [Next]_vars => [Record!Next]_(Record!rvars)
<1> SUFFICES ASSUME IInv, [Next]_vars
             PROVE  Record!Next \/ UNCHANGED Record!rvars
  OBVIOUS
<1>1. CASE Environment \/ Api
  BY <1>1, DecideMaps, CreateMaps, StutterMaps
  DEF Environment, Api, FiveMinutesPass
<1>2. CASE Intervals \/ \E s \in Server, c \in Call : Sweep(s, c)
  BY <1>2, StutterMaps DEF Intervals, PollStops, PollAsks, Sweep, Sweeps
<1>3. CASE \E c \in Call : Answers(c) \/ Update(c)
  BY <1>3, CallMaps, StutterMaps
  DEF Answers, PollAnswered, PollNotFound, PollFails
<1>4. CASE \E k \in Timer : TimerFires(k) \/ ExecuteRetry(k)
  BY <1>4, RetryMaps
<1>5. CASE DbError \/ Replica \/ UNCHANGED vars
  BY <1>5, StutterMaps
  DEF DbError, PollDbError, CallDbError, ConfirmDbError, RetryDbError,
      Replica, Stop, LoadPendingTransactions, vars
<1> QED
  BY <1>1, <1>2, <1>3, <1>4, <1>5 DEF Next

(* Whatever the replicas do, a client sees a row of transaction_status     *)
(* start PENDING, leave PENDING for good, and say only TIMEOUT or what the *)
(* network decided.                                                        *)
THEOREM RecordImplemented == Spec => ImplementsRecord
BY InitMaps, Inductive, StepMaps, PTL DEF Spec, ImplementsRecord, Record!Spec
=============================================================================
