---------------------------- MODULE RetryOperator ----------------------------
(***************************************************************************)
(* The public methods of RetryService that act on a retry from outside the *)
(* monitor: manualRetry, cancelRetry, cancelAllRetries, prioritizeRetries. *)
(* The module exports the service and no controller calls them yet, so     *)
(* this module states what they do to the system of TxMonitor when a       *)
(* client does.                                                            *)
(***************************************************************************)
EXTENDS TxMonitor

\* An operator call in progress holds a slot of Call: where it waits, the
\* transaction at hand, the entities its first query returned, and the
\* transactions still to handle.
OpFrame == [pc : {"cancel", "cancelThenRetry", "schedule"},
            srv : Server, tx : Tx, obj : {None},
            ents : [Tx -> Row], todo : SUBSET Tx]

NewOp(pc, s, t, ents, todo) == [pc |-> pc, srv |-> s, tx |-> t, obj |-> None,
                                ents |-> ents, todo |-> todo]

\* The entities of ents a call still needs.
Keep(ents, ts) == [t \in Tx |-> IF t \in ts THEN ents[t] ELSE Absent]

Begin(c, s) == call[c].pc = "free" /\ s \in up

Queued(s) == {t \in Tx : retryQueue[s][t] # None}

\* What may be left of a list after the turn of t, the first of it that is
\* in able by then.
After(todo, able, t) == {todo \ (before \cup {t}) : before \in SUBSET (todo \ able)}

\* Mutant: the handle stays in retryQueue.
ClearActive(s, t) ==
  LET k == retryQueue[s][t] IN
  /\ k # None
  /\ timer' = IF timer[k].pc = "asleep"
                THEN [timer EXCEPT ![k].pc = "free"] ELSE timer
  /\ activeRetries' = [activeRetries EXCEPT ![s] = @ \ {t}]
  /\ UNCHANGED retryQueue

\* cancelRetry up to its await: clearTimeout stops a timer that has not
\* fired; one that executes goes on, without its hash in activeRetries.
ClearRetry(s, t) ==
  LET k == retryQueue[s][t] IN
  /\ k # None
  /\ timer' = IF timer[k].pc = "asleep"
                THEN [timer EXCEPT ![k].pc = "free"] ELSE timer
  /\ ForgetRetry(s, t)

Schedulable(s, t, e) == t \notin activeRetries[s] /\ ShouldRetry(e)

\* scheduleRetry up to its await.
OpSchedules(c, s, t, ents, todo) ==
  /\ \E k \in Timer : StartTimer(s, t, k, ents[t])
  /\ call' = [call EXCEPT ![c] = NewOp("schedule", s, t,
                                       Keep(ents, todo \cup {t}), todo)]

\* The call returns, having touched no retry.
OpReturns(c) ==
  /\ call' = [call EXCEPT ![c] = NoCall]
  /\ UNCHANGED <<timer, activeRetries, retryQueue>>

OpReads == UNCHANGED <<ledger, row, aged, up, monitoredTransactions, alerted,
                       faults>>

OpWrites(t, r) ==
  /\ row' = [row EXCEPT ![t] = r]
  /\ UNCHANGED <<ledger, aged, up, monitoredTransactions, alerted, faults>>

-----------------------------------------------------------------------------
CancelRetry(c, s, t) ==
  /\ Begin(c, s)
  /\ ClearRetry(s, t)
  /\ call' = [call EXCEPT ![c] = NewOp("cancel", s, t, Keep(row, {}), {})]
  /\ OpReads

CancelAllRetries(c, s) ==
  /\ Begin(c, s)
  /\ \E t \in Queued(s) :
       /\ ClearRetry(s, t)
       /\ call' = [call EXCEPT
                     ![c] = NewOp("cancel", s, t, Keep(row, {}),
                                  Queued(s) \ {t})]
  /\ OpReads

\* The UPDATE of cancelRetry.
Cancelled(t) == [row[t] EXCEPT !.status = "failed"]

\* cancelAllRetries goes on to the next hash it collected that has a handle
\* when its turn comes; it leaves those before it alone.
CancelWrites(c) ==
  LET s == call[c].srv  todo == call[c].todo  able == todo \cap Queued(s) IN
  /\ call[c].pc = "cancel"
  /\ OpWrites(call[c].tx, Cancelled(call[c].tx))
  /\ \/ able = {} /\ OpReturns(c)
     \/ \E t \in able : \E rest \in After(todo, able, t) :
          /\ ClearRetry(s, t)
          /\ call' = [call EXCEPT ![c].tx = t, ![c].todo = rest]

-----------------------------------------------------------------------------
\* What manualRetry keeps of the row it read: a client may raise the limit.
Asked(t, limit) == Keep([row EXCEPT ![t].maxRetries = limit], {t})

Retries(c, s, t) ==
  /\ \E limit \in RetryLimit \cup {row[t].maxRetries} :
       LET ents == Asked(t, limit) IN
       \/ /\ ClearRetry(s, t)
          /\ call' = [call EXCEPT
                        ![c] = NewOp("cancelThenRetry", s, t, ents, {})]
       \/ /\ retryQueue[s][t] = None
          /\ Schedulable(s, t, ents[t])
          /\ OpSchedules(c, s, t, ents, {})
  /\ OpReads

\* Mutant: the status of the row is not checked.
ManualRetryUnchecked(c, s, t) ==
  /\ Begin(c, s)
  /\ Retries(c, s, t)

ManualRetry(c, s, t) ==
  /\ Begin(c, s)
  /\ row[t].status \in {"failed", "timeout"}
  /\ Retries(c, s, t)

ManualGoesOn(c) ==
  LET s == call[c].srv  t == call[c].tx  ents == call[c].ents IN
  /\ call[c].pc = "cancelThenRetry"
  /\ OpWrites(t, Cancelled(t))
  /\ \/ Schedulable(s, t, ents[t]) /\ OpSchedules(c, s, t, ents, {})
     \/ ~Schedulable(s, t, ents[t]) /\ OpReturns(c)

-----------------------------------------------------------------------------
\* Mutant: shouldRetry is not asked.
EligibleUnchecked(s, todo, ents) == todo \ activeRetries[s]

\* The rows prioritizeRetries schedules when their turn comes: those of its
\* query that have no active retry by then and that shouldRetry accepts, as
\* they were when read.
Eligible(s, todo, ents) == {t \in todo : Schedulable(s, t, ents[t])}

PrioritizeRetries(c, s) ==
  LET found == {t \in Tx : row[t].status = "retrying"} IN
  /\ Begin(c, s)
  /\ \E t \in Eligible(s, found, row) :
       \E rest \in After(found, Eligible(s, found, row), t) :
         OpSchedules(c, s, t, row, rest)
  /\ OpReads

\* The UPDATE of scheduleRetry; prioritizeRetries goes on with its list.
OpMarks(c) ==
  LET s == call[c].srv  t == call[c].tx  ents == call[c].ents
      todo == call[c].todo  able == Eligible(s, todo, ents) IN
  /\ call[c].pc = "schedule"
  /\ OpWrites(t, Marked(t, ents[t]))
  /\ \/ able = {} /\ OpReturns(c)
     \/ \E u \in able : \E rest \in After(todo, able, u) :
          OpSchedules(c, s, u, ents, rest)

\* An UPDATE fails: the error ends the call, what is cleared or scheduled
\* stays so.
OpDbError(c) ==
  /\ call[c].pc \in {"cancel", "cancelThenRetry", "schedule"}
  /\ CountDbError
  /\ call' = [call EXCEPT ![c] = NoCall]
  /\ UNCHANGED <<ledger, row, aged, up, memory, timer, alerted>>

-----------------------------------------------------------------------------
OperatorStep(c) ==
  \/ CancelWrites(c) \/ ManualGoesOn(c) \/ OpMarks(c) \/ OpDbError(c)
  \/ \E s \in Server : CancelAllRetries(c, s) \/ PrioritizeRetries(c, s)
  \/ \E s \in Server, t \in Tx : CancelRetry(c, s, t) \/ ManualRetry(c, s, t)

OpNext == Next \/ \E c \in Call : OperatorStep(c)

OpSpec == Init /\ [][OpNext]_vars

-----------------------------------------------------------------------------
(* A call in progress, of the monitor or of an operator, belongs to a      *)
(* replica that runs and is about a transaction that exists.               *)
OpTypeOK ==
  /\ call \in [Call -> CallFrame \cup OpFrame]
  /\ \A c \in Call : call[c].pc # "free" =>
       call[c].srv \in up /\ row[call[c].tx].status # "absent"

(* A manual retry looks a transaction up whose failure or timeout is       *)
(* recorded; whatever it races with, CONFIRMED is only written of a        *)
(* transaction that the network accepted.                                  *)
ConfirmedIsTrue ==
  \A t \in Tx : row[t].status = "confirmed" => ledger[t] = "success"

(* A manual retry may raise or lower the limit of an entity whose row      *)
(* keeps the old one until the attempt is saved: retryCount may pass the   *)
(* row's own maxRetries, but never the highest limit that clients ask for. *)
OpBudget ==
  \A t \in Tx : row[t].status # "absent" =>
    \E n \in RetryLimit : row[t].retryCount <= n

(* A handle in retryQueue is that of a timer of this hash that is asleep   *)
(* or executing: cancelRetry never clears a timeout of another retry, and  *)
(* never reports the cancellation of one that ended.                       *)
HandleIsLive ==
  \A s \in Server, t \in Tx :
    retryQueue[s][t] # None => retryQueue[s][t] \in TimersOf(s, t)
=============================================================================
