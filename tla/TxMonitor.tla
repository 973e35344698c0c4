----------------------------- MODULE TxMonitor -----------------------------
(***************************************************************************)
(* The transaction monitor of src/src/monitoring: what the replicas of     *)
(* the backend do by themselves to the rows of transaction_status.         *)
(*                                                                         *)
(* TransactionMonitorService polls Horizon for every PENDING row, times    *)
(* old rows out once a minute, and hands a failed transaction to           *)
(* RetryService, which looks it up again after a back-off.  An action is   *)
(* the code between two awaits: it ends with one database round trip or    *)
(* one Horizon call, and whatever a handler read before an await it keeps  *)
(* in its frame (call, timer) and uses after it.                           *)
(*                                                                         *)
(* The rows are shared by every replica; the Maps and Sets of the services *)
(* (monitoredTransactions, activeRetries, retryQueue) are per replica and  *)
(* are lost when it stops.                                                 *)
(***************************************************************************)
EXTENDS Naturals, FiniteSets

CONSTANTS Server,       \* replicas of the backend
          Tx,           \* transaction hashes
          Call,         \* slots for polls and sweeps in progress (a bound)
          Timer,        \* slots for retry timers and their execution (a bound)
          RetryLimit,   \* values of maxRetries a client may ask for
          MaxStops,     \* how many times replicas stop (a bound)
          MaxDbErrors,  \* how many database calls fail (a bound)
          None

ASSUME LimitAssumption == RetryLimit \subseteq Nat \ {0}
ASSUME NoneAssumption  == None \notin Server \cup Tx \cup Timer
ASSUME FaultAssumption == MaxStops \in Nat /\ MaxDbErrors \in Nat

VARIABLES
  ledger,                 \* what Horizon knows of each transaction
  row,                    \* the table transaction_status
  aged,                   \* transactions created more than 5 minutes ago
  up,                     \* replicas that are running
  monitoredTransactions,  \* per replica: transactions with a poll interval
  activeRetries,          \* per replica: the Set of RetryService
  retryQueue,             \* per replica: the Map of timeout handles
  call,                   \* polls and sweeps in progress
  timer,                  \* retry timers, asleep or executing
  alerted,                \* transactions a critical alert was sent for
  faults                  \* replicas stopped and database errors so far

vars == <<ledger, row, aged, up, monitoredTransactions, activeRetries,
          retryQueue, call, timer, alerted, faults>>

memory == <<monitoredTransactions, activeRetries, retryQueue>>

-----------------------------------------------------------------------------
(* Data.                                                                   *)

Verdict == {"unknown", "success", "failed"}

TransactionStatus == {"pending", "confirmed", "failed", "retrying", "timeout"}

\* errorMessage is kept as one bit, whether shouldRetry finds one of its
\* nonRetryableErrors in it; ledgerSequence as whether it is recorded.
Row == [status : TransactionStatus \cup {"absent"}, retryCount : Nat,
        maxRetries : Nat, fatal : BOOLEAN, ledgerSequence : BOOLEAN]

Absent == [status |-> "absent", retryCount |-> 0, maxRetries |-> 0,
           fatal |-> FALSE, ledgerSequence |-> FALSE]

NewRow(limit) == [Absent EXCEPT !.status = "pending", !.maxRetries = limit]

\* A poll or a sweep: where it waits, the status it is about to set, the
\* entity it read, the timer it shares that entity object with, and the
\* transactions the sweep has still to time out.
CallFrame == [pc : {"free", "horizon", "find", "mark", "save", "ledger"},
              srv : Server \cup {None}, tx : Tx \cup {None},
              to : TransactionStatus \cup {"none"}, ent : Row,
              obj : Timer \cup {None}, todo : SUBSET Tx]

NewCall(pc, s, t, to, todo) == [pc |-> pc, srv |-> s, tx |-> t, to |-> to,
                                ent |-> Absent, obj |-> None, todo |-> todo]

NoCall == NewCall("free", None, None, "none", {})

\* A retry timer and the executeRetry it starts, with its entity object.
TimerFrame == [pc : {"free", "asleep", "horizon", "confirm", "save", "mark"},
               srv : Server \cup {None}, tx : Tx \cup {None}, ent : Row]

NoTimer == [pc |-> "free", srv |-> None, tx |-> None, ent |-> Absent]

Pending(t) == row[t].status = "pending"

\* Mutant: off by one.
ShouldRetryOnceMore(e) == e.retryCount <= e.maxRetries /\ ~e.fatal

ShouldRetry(e) == e.retryCount < e.maxRetries /\ ~e.fatal

\* A slot a new timer may take: idle, and its entity no longer in use.
FreeTimer(k) == timer[k].pc = "free" /\ \A c \in Call : call[c].obj # k

-----------------------------------------------------------------------------
Init ==
  /\ ledger = [t \in Tx |-> "unknown"]
  /\ row = [t \in Tx |-> Absent]
  /\ aged = {}
  /\ up = Server
  /\ monitoredTransactions = [s \in Server |-> {}]
  /\ activeRetries = [s \in Server |-> {}]
  /\ retryQueue = [s \in Server |-> [t \in Tx |-> None]]
  /\ call = [c \in Call |-> NoCall]
  /\ timer = [k \in Timer |-> NoTimer]
  /\ alerted = {}
  /\ faults = [stops |-> 0, db |-> 0]

(* The environment: the Stellar network decides, time passes.              *)

LedgerDecides(t) ==
  /\ ledger[t] = "unknown"
  /\ \E v \in Verdict \ {"unknown"} : ledger' = [ledger EXCEPT ![t] = v]
  /\ UNCHANGED <<row, aged, up, memory, call, timer, alerted, faults>>

FiveMinutesPass(t) ==
  /\ row[t].status # "absent" /\ t \notin aged
  /\ aged' = aged \cup {t}
  /\ UNCHANGED <<ledger, row, up, memory, call, timer, alerted, faults>>

(* POST /monitoring/transactions.  The hash is unique: a second create is  *)
(* refused by the database and changes nothing.                            *)

CreateTransaction(s, t) ==
  /\ s \in up /\ row[t].status = "absent"
  /\ \E limit \in RetryLimit : row' = [row EXCEPT ![t] = NewRow(limit)]
  /\ monitoredTransactions' = [monitoredTransactions EXCEPT ![s] = @ \cup {t}]
  /\ UNCHANGED <<ledger, aged, up, activeRetries, retryQueue, call, timer,
                 alerted, faults>>

-----------------------------------------------------------------------------
(* checkTransactionStatus, the callback of the 5 s interval.  The interval *)
(* does not wait for it: a slow poll overlaps the next one.                *)

\* Mutant: stops only for a row that is gone.
PollStopsIfAbsent(s, t) ==
  /\ s \in up /\ t \in monitoredTransactions[s] /\ row[t].status = "absent"
  /\ monitoredTransactions' = [monitoredTransactions EXCEPT ![s] = @ \ {t}]
  /\ UNCHANGED <<ledger, row, aged, up, activeRetries, retryQueue, call,
                 timer, alerted, faults>>

PollStops(s, t) ==
  /\ s \in up /\ t \in monitoredTransactions[s] /\ ~Pending(t)
  /\ monitoredTransactions' = [monitoredTransactions EXCEPT ![s] = @ \ {t}]
  /\ UNCHANGED <<ledger, row, aged, up, activeRetries, retryQueue, call,
                 timer, alerted, faults>>

PollAsks(s, t, c) ==
  /\ s \in up /\ t \in monitoredTransactions[s] /\ Pending(t)
  /\ call[c].pc = "free"
  /\ call' = [call EXCEPT ![c] = NewCall("horizon", s, t, "none", {})]
  /\ UNCHANGED <<ledger, row, aged, up, memory, timer, alerted, faults>>

\* Mutant: any answer of Horizon counts as a success.
PollAnsweredUnread(c) ==
  /\ call[c].pc = "horizon" /\ ledger[call[c].tx] # "unknown"
  /\ call' = [call EXCEPT ![c].pc = "find", ![c].to = "confirmed"]
  /\ UNCHANGED <<ledger, row, aged, up, memory, timer, alerted, faults>>

PollAnswered(c) ==
  /\ call[c].pc = "horizon" /\ ledger[call[c].tx] # "unknown"
  /\ call' = [call EXCEPT
       ![c].pc = "find",
       ![c].to = IF ledger[call[c].tx] = "success" THEN "confirmed"
                                                   ELSE "failed"]
  /\ UNCHANGED <<ledger, row, aged, up, memory, timer, alerted, faults>>

PollNotFound(c) ==
  /\ call[c].pc = "horizon" /\ ledger[call[c].tx] = "unknown"
  /\ call' = [call EXCEPT ![c] = NoCall]
  /\ UNCHANGED <<ledger, row, aged, up, memory, timer, alerted, faults>>

\* Any other error: the row is read again, but only for its createdAt.
PollFails(c) ==
  /\ call[c].pc = "horizon"
  /\ call' = [call EXCEPT ![c] =
       IF call[c].tx \in aged
         THEN NewCall("find", call[c].srv, call[c].tx, "timeout", {})
         ELSE NoCall]
  /\ UNCHANGED <<ledger, row, aged, up, memory, timer, alerted, faults>>

(* handleTimeoutTransactions, every minute on every replica.  An empty     *)
(* result changes nothing.                                                 *)

Sweeps(s, c, old) ==
  /\ s \in up /\ call[c].pc = "free"
  /\ \E t \in old :
       call' = [call EXCEPT
                  ![c] = NewCall("find", s, t, "timeout", old \ {t})]
  /\ UNCHANGED <<ledger, row, aged, up, memory, timer, alerted, faults>>

\* Mutant: the query names the wrong status.
SweepRetrying(s, c) == Sweeps(s, c, {t \in aged : row[t].status = "retrying"})

Sweep(s, c) == Sweeps(s, c, {t \in aged : Pending(t)})

-----------------------------------------------------------------------------
(* updateTransactionStatus: read the row, set the status whatever it was,  *)
(* perhaps schedule a retry or alert, then save the entity that was read.  *)

StopMonitoring(s, t) ==
  monitoredTransactions' = [monitoredTransactions EXCEPT ![s] = @ \ {t}]

\* scheduleRetry up to its await: timer k is set with entity e.
StartTimer(s, t, k, e) ==
  /\ FreeTimer(k)
  /\ activeRetries' = [activeRetries EXCEPT ![s] = @ \cup {t}]
  /\ retryQueue' = [retryQueue EXCEPT ![s][t] = k]
  /\ timer' = [timer EXCEPT ![k] = [pc |-> "asleep", srv |-> s, tx |-> t,
                                    ent |-> e]]

\* Mutant: the status is not set.
FoundAsIs(c) == row[call[c].tx]

Found(c) == [row[call[c].tx] EXCEPT !.status = call[c].to]

FindThenSave(c) ==
  /\ call[c].pc = "find" /\ call[c].to \in {"confirmed", "timeout"}
  /\ call' = [call EXCEPT ![c].pc = "save", ![c].ent = Found(c)]
  /\ IF call[c].to = "confirmed" THEN StopMonitoring(call[c].srv, call[c].tx)
                                 ELSE UNCHANGED monitoredTransactions
  /\ UNCHANGED <<ledger, row, aged, up, activeRetries, retryQueue, timer,
                 alerted, faults>>

\* errorMessage becomes Horizon's result_xdr, which names no error code.
FoundFailed(c) == [Found(c) EXCEPT !.fatal = FALSE]

FindThenRetry(c) ==
  LET s == call[c].srv  t == call[c].tx  e == FoundFailed(c) IN
  /\ call[c].pc = "find" /\ call[c].to = "failed"
  /\ t \notin activeRetries[s] /\ ShouldRetry(e)
  /\ StopMonitoring(s, t)
  /\ \E k \in Timer :
       /\ StartTimer(s, t, k, e)
       /\ call' = [call EXCEPT ![c].pc = "mark", ![c].ent = e, ![c].obj = k]
  /\ UNCHANGED <<ledger, row, aged, up, alerted, faults>>

\* No retry: one is active already, or none is left and the alert goes out.
FindThenGiveUp(c) ==
  LET s == call[c].srv  t == call[c].tx  e == FoundFailed(c) IN
  /\ call[c].pc = "find" /\ call[c].to = "failed"
  /\ t \in activeRetries[s] \/ ~ShouldRetry(e)
  /\ StopMonitoring(s, t)
  /\ alerted' = IF e.retryCount < e.maxRetries THEN alerted
                                               ELSE alerted \cup {t}
  /\ call' = [call EXCEPT ![c].pc = "save", ![c].ent = e]
  /\ UNCHANGED <<ledger, row, aged, up, activeRetries, retryQueue, timer,
                 faults>>

\* updateTransactionForRetry: an UPDATE of status and retryCount.
Marked(t, e) == [row[t] EXCEPT !.status = "retrying",
                               !.retryCount = e.retryCount + 1]

MarkRetrying(c) ==
  /\ call[c].pc = "mark"
  /\ row' = [row EXCEPT ![call[c].tx] = Marked(call[c].tx, call[c].ent)]
  /\ call' = [call EXCEPT ![c].pc = "save"]
  /\ UNCHANGED <<ledger, aged, up, memory, timer, alerted, faults>>

\* The entity save() writes: the object read, which a retry timer set
\* meanwhile shares and may have changed.
Held(c) == IF call[c].obj = None THEN call[c].ent ELSE timer[call[c].obj].ent

\* Where a call goes after save(): record the ledger, next row, or return.
AfterSave(f) ==
  IF f.to = "confirmed" THEN {[f EXCEPT !.pc = "ledger"]}
  ELSE IF f.todo = {}   THEN {NoCall}
  ELSE {[f EXCEPT !.pc = "find", !.tx = t, !.ent = Absent,
                  !.todo = f.todo \ {t}] : t \in f.todo}

Save(c) ==
  /\ call[c].pc = "save"
  /\ row' = [row EXCEPT ![call[c].tx] = Held(c)]
  /\ \E f \in AfterSave(call[c]) : call' = [call EXCEPT ![c] = f]
  /\ UNCHANGED <<ledger, aged, up, memory, timer, alerted, faults>>

RecordLedger(c) ==
  /\ call[c].pc = "ledger"
  /\ row' = [row EXCEPT ![call[c].tx].ledgerSequence = TRUE]
  /\ call' = [call EXCEPT ![c] = NoCall]
  /\ UNCHANGED <<ledger, aged, up, memory, timer, alerted, faults>>

-----------------------------------------------------------------------------
(* RetryService: the timer callback and executeRetry.                      *)

TimerFires(k) ==
  /\ timer[k].pc = "asleep"
  /\ timer' = [timer EXCEPT ![k].pc = "horizon"]
  /\ UNCHANGED <<ledger, row, aged, up, memory, call, alerted, faults>>

\* Mutant: an answer is taken for a success.
RetryFindsAnything(k) ==
  /\ timer[k].pc = "horizon"
  /\ timer' = [timer EXCEPT ![k].pc = "confirm"]
  /\ UNCHANGED <<ledger, row, aged, up, memory, call, alerted, faults>>

RetryFindsSuccess(k) ==
  /\ timer[k].pc = "horizon" /\ ledger[timer[k].tx] = "success"
  /\ timer' = [timer EXCEPT ![k].pc = "confirm"]
  /\ UNCHANGED <<ledger, row, aged, up, memory, call, alerted, faults>>

\* Rejected, not found, or an error whose text may name a fatal code.
\* Mutant: counts the attempts left.
FailedCountingDown(e, fatal) ==
  [e EXCEPT !.retryCount = @ - 1, !.fatal = fatal,
            !.status = IF e.retryCount > 0 /\ ~fatal THEN "retrying"
                                                     ELSE "failed"]

Failed(e, fatal) ==
  LET n == e.retryCount + 1 IN
  [e EXCEPT !.retryCount = n, !.fatal = fatal,
            !.status = IF n < e.maxRetries /\ ~fatal THEN "retrying"
                                                     ELSE "failed"]

RetryFails(k) ==
  /\ timer[k].pc = "horizon"
  /\ \E fatal \in BOOLEAN :
       timer' = [timer EXCEPT ![k].pc = "save",
                              ![k].ent = Failed(timer[k].ent, fatal)]
  /\ UNCHANGED <<ledger, row, aged, up, memory, call, alerted, faults>>

\* The finally block of the timer callback, whatever handle is queued now.
\* Mutant: the handle is deleted, the hash stays active.
ForgetHandle(s, t) ==
  /\ retryQueue' = [retryQueue EXCEPT ![s][t] = None]
  /\ UNCHANGED activeRetries

ForgetRetry(s, t) ==
  /\ activeRetries' = [activeRetries EXCEPT ![s] = @ \ {t}]
  /\ retryQueue' = [retryQueue EXCEPT ![s][t] = None]

RetryConfirms(k) ==
  /\ timer[k].pc = "confirm"
  /\ row' = [row EXCEPT ![timer[k].tx].status = "confirmed",
                        ![timer[k].tx].ledgerSequence = TRUE]
  /\ timer' = [timer EXCEPT ![k].pc = "free"]
  /\ ForgetRetry(timer[k].srv, timer[k].tx)
  /\ UNCHANGED <<ledger, aged, up, monitoredTransactions, call, alerted,
                 faults>>

\* Its scheduleRetry returns at once: the hash is still in activeRetries.
RetrySaves(k) ==
  LET s == timer[k].srv  t == timer[k].tx  e == timer[k].ent IN
  /\ timer[k].pc = "save"
  /\ e.status = "failed" \/ t \in activeRetries[s]
  /\ row' = [row EXCEPT ![t] = e]
  /\ timer' = [timer EXCEPT ![k].pc = "free"]
  /\ ForgetRetry(s, t)
  /\ UNCHANGED <<ledger, aged, up, monitoredTransactions, call, alerted,
                 faults>>

\* Only after a cancelRetry during the execution is the hash gone from
\* activeRetries, and scheduleRetry sets another timer for it.
RetrySavesAndReschedules(k) ==
  LET s == timer[k].srv  t == timer[k].tx  e == timer[k].ent IN
  /\ timer[k].pc = "save" /\ e.status = "retrying"
  /\ t \notin activeRetries[s]
  /\ row' = [row EXCEPT ![t] = e]
  /\ \E n \in Timer :
       /\ FreeTimer(n)
       /\ activeRetries' = [activeRetries EXCEPT ![s] = @ \cup {t}]
       /\ retryQueue' = [retryQueue EXCEPT ![s][t] = n]
       /\ timer' = [timer EXCEPT ![k].pc = "mark",
                                 ![n] = [timer[k] EXCEPT !.pc = "asleep"]]
  /\ UNCHANGED <<ledger, aged, up, monitoredTransactions, call, alerted,
                 faults>>

RetryMarks(k) ==
  /\ timer[k].pc = "mark"
  /\ row' = [row EXCEPT ![timer[k].tx] = Marked(timer[k].tx, timer[k].ent)]
  /\ timer' = [timer EXCEPT ![k].pc = "free"]
  /\ ForgetRetry(timer[k].srv, timer[k].tx)
  /\ UNCHANGED <<ledger, aged, up, monitoredTransactions, call, alerted,
                 faults>>

-----------------------------------------------------------------------------
(* A database call fails.  checkTransactionStatus catches it like an error *)
(* of Horizon, so that an old transaction is timed out; in the catch block *)
(* itself, and in a sweep, the error ends the call.                        *)

CountDbError ==
  /\ faults.db < MaxDbErrors
  /\ faults' = [faults EXCEPT !.db = @ + 1]

\* The first query of a poll: the row is not known to be PENDING when the
\* catch block reads it again for its createdAt.
PollDbError(s, t, c) ==
  /\ s \in up /\ t \in monitoredTransactions[s] \cap aged
  /\ call[c].pc = "free"
  /\ CountDbError
  /\ call' = [call EXCEPT ![c] = NewCall("find", s, t, "timeout", {})]
  /\ UNCHANGED <<ledger, row, aged, up, memory, timer, alerted>>

CallDbError(c) ==
  /\ call[c].pc \in {"find", "mark", "save", "ledger"}
  /\ CountDbError
  /\ call' = [call EXCEPT ![c] =
       IF call[c].to # "timeout" /\ call[c].tx \in aged
         THEN NewCall("find", call[c].srv, call[c].tx, "timeout", {})
         ELSE NoCall]
  /\ UNCHANGED <<ledger, row, aged, up, memory, timer, alerted>>

\* In executeRetry a failed CONFIRMED update counts as a failed attempt.
ConfirmDbError(k) ==
  /\ timer[k].pc = "confirm"
  /\ CountDbError
  /\ timer' = [timer EXCEPT ![k].pc = "save",
                            ![k].ent = Failed(timer[k].ent, FALSE)]
  /\ UNCHANGED <<ledger, row, aged, up, memory, call, alerted>>

RetryDbError(k) ==
  /\ timer[k].pc \in {"save", "mark"}
  /\ CountDbError
  /\ timer' = [timer EXCEPT ![k].pc = "free"]
  /\ ForgetRetry(timer[k].srv, timer[k].tx)
  /\ UNCHANGED <<ledger, row, aged, up, monitoredTransactions, call, alerted>>

-----------------------------------------------------------------------------
(* A replica stops at any await; when it starts it reloads PENDING rows.   *)

Stop(s) ==
  /\ s \in up /\ faults.stops < MaxStops
  /\ up' = up \ {s}
  /\ faults' = [faults EXCEPT !.stops = @ + 1]
  /\ monitoredTransactions' = [monitoredTransactions EXCEPT ![s] = {}]
  /\ activeRetries' = [activeRetries EXCEPT ![s] = {}]
  /\ retryQueue' = [retryQueue EXCEPT ![s] = [t \in Tx |-> None]]
  /\ call' = [c \in Call |-> IF call[c].srv = s THEN NoCall ELSE call[c]]
  /\ timer' = [k \in Timer |-> IF timer[k].srv = s THEN NoTimer ELSE timer[k]]
  /\ UNCHANGED <<ledger, row, aged, alerted>>

\* Mutant: the rows are loaded and no interval is started.
LoadNothing(s) ==
  /\ s \notin up
  /\ up' = up \cup {s}
  /\ UNCHANGED <<ledger, row, aged, memory, call, timer, alerted, faults>>

LoadPendingTransactions(s) ==
  /\ s \notin up
  /\ up' = up \cup {s}
  /\ monitoredTransactions' = [monitoredTransactions EXCEPT
                                 ![s] = {t \in Tx : Pending(t)}]
  /\ UNCHANGED <<ledger, row, aged, activeRetries, retryQueue, call, timer,
                 alerted, faults>>

-----------------------------------------------------------------------------
Environment == \E t \in Tx : LedgerDecides(t) \/ FiveMinutesPass(t)

Api == \E s \in Server, t \in Tx : CreateTransaction(s, t)

Intervals == \E s \in Server, t \in Tx :
               \/ PollStops(s, t)
               \/ \E c \in Call : PollAsks(s, t, c)

Answers(c) == PollAnswered(c) \/ PollNotFound(c) \/ PollFails(c)

Update(c) == \/ FindThenSave(c) \/ FindThenRetry(c) \/ FindThenGiveUp(c)
             \/ MarkRetrying(c) \/ Save(c) \/ RecordLedger(c)

ExecuteRetry(k) == \/ RetryFindsSuccess(k) \/ RetryFails(k)
                   \/ RetryConfirms(k) \/ RetrySaves(k)
                   \/ RetrySavesAndReschedules(k) \/ RetryMarks(k)

DbError == \/ \E c \in Call : \/ CallDbError(c)
                               \/ \E s \in Server, t \in Tx :
                                    PollDbError(s, t, c)
           \/ \E k \in Timer : ConfirmDbError(k) \/ RetryDbError(k)

Replica == \E s \in Server : Stop(s) \/ LoadPendingTransactions(s)

Next ==
  \/ Environment \/ Api \/ Intervals \/ Replica \/ DbError
  \/ \E c \in Call : Answers(c) \/ Update(c)
  \/ \E s \in Server, c \in Call : Sweep(s, c)
  \/ \E k \in Timer : TimerFires(k) \/ ExecuteRetry(k)

Spec == Init /\ [][Next]_vars
-----------------------------------------------------------------------------
(* Properties.                                                             *)

(* Every variable has its type.                                            *)
TypeOK ==
  /\ ledger \in [Tx -> Verdict]
  /\ row \in [Tx -> Row]
  /\ aged \subseteq Tx /\ alerted \subseteq Tx
  /\ up \subseteq Server
  /\ monitoredTransactions \in [Server -> SUBSET Tx]
  /\ activeRetries \in [Server -> SUBSET Tx]
  /\ retryQueue \in [Server -> [Tx -> Timer \cup {None}]]
  /\ call \in [Call -> CallFrame]
  /\ timer \in [Timer -> TimerFrame]
  /\ faults \in [stops : 0..MaxStops, db : 0..MaxDbErrors]

(* RetryService never counts more attempts for a transaction than the      *)
(* limit its client asked for (retryCount, maxRetries): not in the row,    *)
(* although four different handlers write it from entities read before.    *)
RetryBudget == \A t \in Tx : row[t].retryCount <= row[t].maxRetries

(* No replica, however late its poll, its retry or its save, records a     *)
(* verdict the network did not give: CONFIRMED only of a transaction that  *)
(* succeeded, FAILED and RETRYING only of one the network rejected.        *)
VerdictRespected ==
  \A t \in Tx :
    /\ row[t].status = "confirmed" => ledger[t] = "success"
    /\ row[t].status \in {"failed", "retrying"} => ledger[t] = "failed"

(* The activeRetries of a replica is exact: a hash is in it while, and     *)
(* only while, one timer of that replica is asleep or executing for it,    *)
(* so that scheduleRetry's first test keeps retries of one hash apart.     *)
TimersOf(s, t) == {k \in Timer : timer[k].pc # "free" /\ timer[k].srv = s
                                                      /\ timer[k].tx = t}

OneRetryPerReplica ==
  \A s \in Server, t \in Tx :
    /\ \A j, k \in TimersOf(s, t) : j = k
    /\ t \in activeRetries[s] <=> TimersOf(s, t) # {}
    /\ \A k \in TimersOf(s, t) : retryQueue[s][t] = k

(* No PENDING row is orphaned by replicas that stop and start: while every *)
(* replica runs and the database has answered, one of them polls the row,  *)
(* or a call has decided its status and is about to save it.  (After an    *)
(* error of the database only the timeout sweep comes back to the row.)    *)
Deciding(c, t) == call[c].tx = t /\ call[c].pc \in {"mark", "save"}

PendingIsWatched ==
  \A t \in Tx : Pending(t) /\ up = Server /\ faults.db = 0 =>
    \/ \E s \in up : t \in monitoredTransactions[s]
    \/ \E c \in Call : Deciding(c, t)

(* The rows implement the abstract record: see module TxRecord.            *)
Record == INSTANCE TxRecord WITH
            status     <- [t \in Tx |-> row[t].status],
            retryCount <- [t \in Tx |-> row[t].retryCount],
            maxRetries <- [t \in Tx |-> row[t].maxRetries]

ImplementsRecord == Record!Spec

-----------------------------------------------------------------------------
(* Fairness.  Time passes; a call to the database or to Horizon returns; a *)
(* timer fires; a stopped replica is restarted (Deployment, liveness       *)
(* probe); intervals and the cron keep firing.  Sweep needs strong         *)
(* fairness only because its slot is shared with the polls: in the code    *)
(* every tick of the cron runs.                                            *)
FairSpec ==
  /\ Spec
  /\ \A t \in Tx : WF_vars(FiveMinutesPass(t))
  /\ \A c \in Call : WF_vars(Answers(c) \/ Update(c))
  /\ \A k \in Timer : WF_vars(TimerFires(k) \/ ExecuteRetry(k))
  /\ \A s \in Server : /\ WF_vars(LoadPendingTransactions(s))
                       /\ SF_vars(\E c \in Call : Sweep(s, c))
                       /\ \A t \in Tx : WF_vars(PollStops(s, t))

(* A transaction does not stay PENDING: confirmed, failed or, five minutes *)
(* after its creation, timed out, though replicas stop and Horizon errs.   *)
EventuallySettled == \A t \in Tx : []<>~Pending(t)

(* "Success/Timeout -> Monitor cleanup" (monitoring/README.md:135): no     *)
(* replica polls a transaction for ever, although the timeout sweep and    *)
(* the other replicas that settle it never tell it to stop.                *)
MonitorCleanup ==
  \A s \in Server, t \in Tx : []<>(t \notin monitoredTransactions[s])

(* A retry ends: the hash leaves activeRetries whether executeRetry finds  *)
(* the retry failed, its limit reached or an error of the database.  (It   *)
(* finds no success unless an operator resets a retry: NoRetrySucceeds.)   *)
RetryEnds ==
  \A s \in Server, t \in Tx : []<>(t \notin activeRetries[s])

-----------------------------------------------------------------------------
(* What the documentation says and the code does not do.                   *)

(* monitoring/README.md:9 "Tracks transactions from submission to final    *)
(* confirmation": once CONFIRMED a row stays CONFIRMED.                    *)
ConfirmedIsFinal ==
  [][\A t \in Tx : row[t].status = "confirmed"
                    => row'[t].status = "confirmed"]_vars

(* monitoring/README.md:16 "RETRYING - Transaction is being retried": a    *)
(* row that reads RETRYING is retried, and the outcome is written to it.   *)
RetryingIsRetried ==
  \A t \in Tx : row[t].status = "retrying" ~> row[t].status # "retrying"

(* monitoring/README.md:134 "Retry exhaustion -> Alert generation": a row  *)
(* that FAILED with its retries used up, and that no call and no retry is  *)
(* working on, has had its critical alert.                                 *)
ExhaustionAlerted ==
  \A t \in Tx :
    /\ row[t].status = "failed" /\ row[t].retryCount = row[t].maxRetries
    /\ \A c \in Call : call[c].tx # t
    /\ \A s \in Server : TimersOf(s, t) = {}
    => t \in alerted
=============================================================================
