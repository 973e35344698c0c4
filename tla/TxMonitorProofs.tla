--------------------------- MODULE TxMonitorProofs ---------------------------
(***************************************************************************)
(* Theorems about TxMonitor, for any sets of replicas, transactions, slots *)
(* and limits.  They follow from one inductive invariant, IInv: every      *)
(* frame (a call, a timer) still agrees with the row and with the network  *)
(* about what it is going to write.  OneRetryPerReplica and                *)
(* PendingIsWatched are inductive beside it.                               *)
(*                                                                         *)
(* The predicates take the table (R), the verdicts (L), the timers (T) and *)
(* the running replicas (U) as parameters, so that a lemma may speak of    *)
(* one state and of the next.                                              *)
(***************************************************************************)
EXTENDS TxMonitor, TLAPS

\* An entity read from the row of t, whatever it has become since.
EntityOf(e, t, R) == /\ e \in Row
                     /\ e.status # "absent"
                     /\ e.maxRetries = R[t].maxRetries
                     /\ e.retryCount <= e.maxRetries

\* An entity that a retry of t works on.
RetryEntityOf(e, t, R, L) == /\ EntityOf(e, t, R)
                             /\ e.status \in {"failed", "retrying"}
                             /\ L[t] = "failed"

Exists(t, R) == t \in Tx /\ R[t].status # "absent"

\* What a call may be about to set.
Justified(f, L) == /\ f.to \in {"confirmed", "failed", "timeout"}
                   /\ f.to = "confirmed" => L[f.tx] = "success"
                   /\ f.to = "failed" => L[f.tx] = "failed"

\* The object a call shares with the timer it has set.
SharedGood(f, R, L, T) ==
  f.obj # None => /\ f.pc \in {"mark", "save"}
                  /\ f.to = "failed"
                  /\ T[f.obj].srv = f.srv /\ T[f.obj].tx = f.tx
                  /\ RetryEntityOf(T[f.obj].ent, f.tx, R, L)

CallGood(f, R, L, U) ==
  /\ f.pc # "free" => f.srv \in U /\ Exists(f.tx, R)
  /\ f.pc = "horizon" => f.to = "none"
  /\ f.pc \in {"find", "mark", "save", "ledger"} => Justified(f, L)
  /\ f.pc \in {"mark", "save"} => EntityOf(f.ent, f.tx, R) /\ f.ent.status = f.to
  /\ f.pc = "mark" => f.to = "failed" /\ f.ent.retryCount < f.ent.maxRetries
  /\ f.pc = "ledger" => f.to = "confirmed"
  /\ \A t \in f.todo : Exists(t, R)
  /\ f.todo # {} => f.to = "timeout"

\* A timer only ever runs for a transaction the network rejected, so that
\* it never reaches the CONFIRMED update.
TimerGood(g, R, L, U) ==
  g.pc # "free" =>
    /\ g.srv \in U /\ Exists(g.tx, R)
    /\ RetryEntityOf(g.ent, g.tx, R, L)
    /\ g.pc # "confirm"
    /\ g.pc # "save" => g.ent.retryCount < g.ent.maxRetries
    /\ g.ent.status = "retrying" => g.ent.retryCount < g.ent.maxRetries

RowGood(r, v) ==
  /\ r.status = "absent" => r = Absent
  /\ r.retryCount <= r.maxRetries
  /\ r.status = "confirmed" => v = "success"
  /\ r.status \in {"failed", "retrying"} => v = "failed"

Rows   == \A t \in Tx : RowGood(row[t], ledger[t])
Old    == \A t \in aged : row[t].status # "absent"
Calls  == \A c \in Call : /\ CallGood(call[c], row, ledger, up)
                          /\ SharedGood(call[c], row, ledger, timer)
Timers == \A k \in Timer : TimerGood(timer[k], row, ledger, up)

IInv == TypeOK /\ Rows /\ Old /\ Calls /\ Timers

-----------------------------------------------------------------------------
(* No step undoes a verdict, deletes a row or changes its maxRetries.      *)
Evolves(R, L, RR, LL) ==
  \A t \in Tx :
    /\ L[t] # "unknown" => LL[t] = L[t]
    /\ R[t].status # "absent" =>
         RR[t].status # "absent" /\ RR[t].maxRetries = R[t].maxRetries

(* A retry entity stays one while the rows evolve.                         *)
LEMMA RetryEntityKept ==
  ASSUME NEW R, NEW L, NEW RR, NEW LL, Evolves(R, L, RR, LL),
         NEW t, Exists(t, R), NEW e, RetryEntityOf(e, t, R, L)
  PROVE  RetryEntityOf(e, t, RR, LL)
BY DEF Evolves, Exists, RetryEntityOf, EntityOf

(* So does a call that a step leaves alone, and the object it shares.      *)
LEMMA CallKept ==
  ASSUME NEW R, NEW L, NEW U, NEW RR, NEW LL, NEW UU, Evolves(R, L, RR, LL),
         NEW f, CallGood(f, R, L, U), f.pc # "free" => f.srv \in UU
  PROVE  CallGood(f, RR, LL, UU)
BY DEF Evolves, CallGood, Exists, Justified, EntityOf

LEMMA SharedKept ==
  ASSUME NEW R, NEW L, NEW T, NEW U, NEW RR, NEW LL, NEW TT,
         Evolves(R, L, RR, LL),
         NEW f, CallGood(f, R, L, U), SharedGood(f, R, L, T),
         f.obj # None => TT[f.obj] = T[f.obj]
  PROVE  SharedGood(f, RR, LL, TT)
BY RetryEntityKept DEF SharedGood, CallGood

(* So does a timer.                                                        *)
LEMMA TimerKept ==
  ASSUME NEW R, NEW L, NEW U, NEW RR, NEW LL, NEW UU, Evolves(R, L, RR, LL),
         NEW g, TimerGood(g, R, L, U), g.pc # "free" => g.srv \in UU
  PROVE  TimerGood(g, RR, LL, UU)
BY RetryEntityKept DEF TimerGood, Evolves, Exists

(* A step keeps IInv if what it changes of the frames is good again, and   *)
(* it changes a timer that a call shares only as a retry does.             *)
RetriedOn(k) ==
  /\ timer'[k].srv = timer[k].srv /\ timer'[k].tx = timer[k].tx
  /\ RetryEntityOf(timer'[k].ent, timer[k].tx, row', ledger')

LEMMA StepKeeps ==
  ASSUME IInv, TypeOK', Rows', Old', Evolves(row, ledger, row', ledger'),
         up \subseteq up',
         \A c \in Call : \/ call'[c] = call[c]
                        \/ /\ CallGood(call'[c], row', ledger', up')
                           /\ SharedGood(call'[c], row', ledger', timer'),
         \A k \in Timer : \/ timer'[k] = timer[k]
                         \/ TimerGood(timer'[k], row', ledger', up'),
         \A k \in Timer : \/ timer'[k] = timer[k]
                         \/ \A c \in Call : call[c].obj # k
                         \/ RetriedOn(k)
  PROVE  IInv'
<1>1. ASSUME NEW c \in Call, call'[c] = call[c]
      PROVE  CallGood(call'[c], row', ledger', up')
  <2>1. CallGood(call[c], row, ledger, up)
    BY DEF IInv, Calls
  <2>2. call[c].pc # "free" => call[c].srv \in up'
    BY <2>1 DEF CallGood
  <2> QED
    BY <1>1, <2>1, <2>2, CallKept
<1>2. ASSUME NEW c \in Call, call'[c] = call[c]
      PROVE  SharedGood(call'[c], row', ledger', timer')
  <2>1. CallGood(call[c], row, ledger, up)
        /\ SharedGood(call[c], row, ledger, timer)
    BY DEF IInv, Calls
  <2>2. call[c].obj \in Timer \cup {None}
    BY DEF IInv, TypeOK, CallFrame
  <2>3. CASE call[c].obj # None /\ RetriedOn(call[c].obj)
    BY <1>2, <2>1, <2>3 DEF SharedGood, RetriedOn
  <2>4. CASE call[c].obj # None => timer'[call[c].obj] = timer[call[c].obj]
    BY <1>2, <2>1, <2>4, SharedKept
  <2> QED
    BY <2>2, <2>3, <2>4
<1>3. ASSUME NEW k \in Timer, timer'[k] = timer[k]
      PROVE  TimerGood(timer'[k], row', ledger', up')
  <2>1. TimerGood(timer[k], row, ledger, up)
    BY DEF IInv, Timers
  <2>2. timer[k].pc # "free" => timer[k].srv \in up'
    BY <2>1 DEF TimerGood
  <2> QED
    BY <1>3, <2>1, <2>2, TimerKept
<1> QED
  BY <1>1, <1>2, <1>3 DEF IInv, Calls, Timers

LEMMA InitIInv == Init => IInv
BY NoneAssumption, FaultAssumption
DEF Init, IInv, TypeOK, Rows, Old, Calls, Timers, RowGood, CallGood, TimerGood,
    SharedGood, NoCall, NewCall, NoTimer, Absent, CallFrame, TimerFrame, Row, Verdict,
    TransactionStatus

-----------------------------------------------------------------------------
(* Facts about single frames and entities.                                 *)

LEMMA FailedEntity ==
  ASSUME NEW R, NEW L, NEW t, NEW e, RetryEntityOf(e, t, R, L),
         e.retryCount < e.maxRetries, NEW fatal \in BOOLEAN
  PROVE  /\ RetryEntityOf(Failed(e, fatal), t, R, L)
         /\ Failed(e, fatal).status = "retrying" =>
              Failed(e, fatal).retryCount < Failed(e, fatal).maxRetries
<1> DEFINE n == e.retryCount + 1
           next == IF n < e.maxRetries /\ ~fatal THEN "retrying" ELSE "failed"
<1>1. e \in Row /\ e.retryCount \in Nat /\ e.maxRetries \in Nat
  BY DEF RetryEntityOf, EntityOf, Row
<1>2. n \in Nat /\ next \in {"retrying", "failed"}
      /\ (next = "retrying" => n < e.maxRetries)
  BY <1>1
<1>3. Failed(e, fatal) = [e EXCEPT !.retryCount = n, !.fatal = fatal,
                                   !.status = next]
  BY DEF Failed
<1> HIDE DEF n, next
<1>4. Failed(e, fatal) \in Row
  BY <1>1, <1>2, <1>3 DEF Row, TransactionStatus
<1>5. /\ Failed(e, fatal).retryCount = n
      /\ Failed(e, fatal).status = next
      /\ Failed(e, fatal).maxRetries = e.maxRetries
  BY <1>1, <1>3 DEF Row
<1>6. n <= e.maxRetries
  BY <1>1 DEF n
<1> QED
  BY <1>1, <1>2, <1>4, <1>5, <1>6 DEF RetryEntityOf, EntityOf

LEMMA NoCallGood ==
  ASSUME NEW R, NEW L, NEW T, NEW U
  PROVE  /\ NoCall \in CallFrame
         /\ CallGood(NoCall, R, L, U) /\ SharedGood(NoCall, R, L, T)
BY DEF NoCall, NewCall, CallFrame, CallGood, SharedGood, Absent, Row,
       TransactionStatus

(* A poll starts with nothing to set, or to set TIMEOUT; so does a sweep.  *)
LEMMA NewCallGood ==
  ASSUME NEW R, NEW L, NEW T, NEW U, NEW s \in Server, s \in U,
         NEW t, Exists(t, R), NEW todo \in SUBSET Tx,
         \A u \in todo : Exists(u, R),
         NEW g, \/ g = NewCall("find", s, t, "timeout", todo)
                \/ g = NewCall("horizon", s, t, "none", {})
  PROVE  g \in CallFrame /\ CallGood(g, R, L, U) /\ SharedGood(g, R, L, T)
<1>1. CASE g = NewCall("find", s, t, "timeout", todo)
  BY <1>1 DEF NewCall, Exists, CallFrame, CallGood, SharedGood, Justified,
              Absent, Row, TransactionStatus
<1>2. CASE g = NewCall("horizon", s, t, "none", {})
  BY <1>2 DEF NewCall, Exists, CallFrame, CallGood, SharedGood, Justified,
              Absent, Row, TransactionStatus
<1> QED
  BY <1>1, <1>2

(* Where a call goes after its save.                                       *)
LEMMA AfterSaveGood ==
  ASSUME NEW R, NEW L, NEW T, NEW U, NEW f \in CallFrame, f.pc = "save",
         CallGood(f, R, L, U), SharedGood(f, R, L, T),
         NEW g \in AfterSave(f)
  PROVE  g \in CallFrame /\ CallGood(g, R, L, U) /\ SharedGood(g, R, L, T)
<1>1. CASE f.to = "confirmed"
  <2>1. g = [f EXCEPT !.pc = "ledger"] /\ f.obj = None
    BY <1>1 DEF AfterSave, SharedGood
  <2>2. g \in CallFrame
    BY <2>1 DEF CallFrame
  <2> QED
    BY <1>1, <2>1, <2>2 DEF CallFrame, CallGood, SharedGood, Justified
<1>2. CASE f.to # "confirmed" /\ f.todo = {}
  BY <1>2, NoCallGood DEF AfterSave
<1>3. CASE f.to # "confirmed" /\ f.todo # {}
  <2>1. PICK t \in f.todo : g = [f EXCEPT !.pc = "find", !.tx = t,
                                !.ent = Absent, !.todo = f.todo \ {t}]
    BY <1>3 DEF AfterSave
  <2>2. f.to = "timeout" /\ f.obj = None /\ Exists(t, R) /\ t \in Tx
    BY <1>3 DEF CallGood, SharedGood, CallFrame
  <2>3. g \in CallFrame
    BY <2>1, <2>2 DEF CallFrame, Absent, Row, TransactionStatus
  <2> QED
    BY <2>1, <2>2, <2>3 DEF CallFrame, CallGood, SharedGood, Justified
<1> QED
  BY <1>1, <1>2, <1>3

(* A step that changes one call and neither the rows nor the timers.       *)
LEMMA CallStepKeeps ==
  ASSUME IInv, NEW c \in Call,
         UNCHANGED <<ledger, row, aged, up, activeRetries, retryQueue, timer>>,
         monitoredTransactions' \in [Server -> SUBSET Tx],
         alerted' \subseteq Tx,
         faults' \in [stops : 0..MaxStops, db : 0..MaxDbErrors],
         call' = [call EXCEPT ![c] = call'[c]],
         call'[c] \in CallFrame,
         CallGood(call'[c], row, ledger, up),
         SharedGood(call'[c], row, ledger, timer)
  PROVE  IInv'
<1>1. TypeOK'
  BY DEF IInv, TypeOK
<1>2. Rows' /\ Old' /\ Evolves(row, ledger, row', ledger')
  BY DEF IInv, Rows, Old, Evolves
<1>3. \A d \in Call : d = c \/ call'[d] = call[d]
  BY DEF IInv, TypeOK
<1> QED
  BY <1>1, <1>2, <1>3, StepKeeps

-----------------------------------------------------------------------------
(* The steps.                                                              *)

LEMMA EnvironmentKeeps ==
  ASSUME IInv, NEW t \in Tx, LedgerDecides(t) \/ FiveMinutesPass(t)
  PROVE  IInv'
<1>1. CASE LedgerDecides(t)
  <2>1. PICK v \in Verdict : ledger' = [ledger EXCEPT ![t] = v]
    BY <1>1 DEF LedgerDecides
  <2>2. TypeOK' /\ Evolves(row, ledger, row', ledger')
    BY <1>1, <2>1 DEF IInv, TypeOK, LedgerDecides, memory, Evolves
  <2>3. Rows' /\ Old'
    BY <1>1, <2>1 DEF IInv, TypeOK, LedgerDecides, Rows, RowGood, Old
  <2> QED
    BY <1>1, <2>2, <2>3, StepKeeps DEF LedgerDecides
<1>2. CASE FiveMinutesPass(t)
  <2>1. TypeOK' /\ Evolves(row, ledger, row', ledger')
    BY <1>2 DEF IInv, TypeOK, FiveMinutesPass, memory, Evolves
  <2>2. Rows' /\ Old'
    BY <1>2 DEF IInv, FiveMinutesPass, Rows, Old
  <2> QED
    BY <1>2, <2>1, <2>2, StepKeeps DEF FiveMinutesPass
<1> QED
  BY <1>1, <1>2

LEMMA CreateKeeps ==
  ASSUME IInv, NEW s \in Server, NEW t \in Tx, CreateTransaction(s, t)
  PROVE  IInv'
<1>1. PICK limit \in RetryLimit : row' = [row EXCEPT ![t] = NewRow(limit)]
  BY DEF CreateTransaction
<1>2. /\ NewRow(limit) \in Row /\ NewRow(limit).status = "pending"
      /\ RowGood(NewRow(limit), ledger[t])
  <2>1. limit \in Nat
    BY LimitAssumption
  <2>2. Absent \in Row /\ Absent.retryCount = 0
    BY DEF Absent, Row, TransactionStatus
  <2>3. /\ NewRow(limit) \in Row /\ NewRow(limit).status = "pending"
        /\ NewRow(limit).retryCount = 0 /\ NewRow(limit).maxRetries = limit
    BY <2>1, <2>2 DEF NewRow, Row, TransactionStatus
  <2> QED
    BY <2>1, <2>3 DEF RowGood
<1>3. TypeOK' /\ Evolves(row, ledger, row', ledger')
  BY <1>1, <1>2 DEF IInv, TypeOK, CreateTransaction, Evolves
<1>4. Rows' /\ Old'
  BY <1>1, <1>2 DEF IInv, TypeOK, CreateTransaction, Rows, Old
<1> QED
  BY <1>3, <1>4, StepKeeps DEF CreateTransaction

LEMMA MonitorsKeep ==
  ASSUME IInv, NEW s \in Server,
         LoadPendingTransactions(s) \/ \E t \in Tx : PollStops(s, t)
  PROVE  IInv'
<1>1. /\ UNCHANGED <<ledger, row, aged, activeRetries, retryQueue, call, timer,
                     alerted, faults>>
      /\ up \subseteq up' /\ up' \subseteq Server
      /\ monitoredTransactions' \in [Server -> SUBSET Tx]
  BY DEF IInv, TypeOK, LoadPendingTransactions, PollStops
<1>2. TypeOK' /\ Evolves(row, ledger, row', ledger')
  BY <1>1 DEF IInv, TypeOK, Evolves
<1>3. Rows' /\ Old'
  BY <1>1 DEF IInv, Rows, Old
<1> QED
  BY <1>1, <1>2, <1>3, StepKeeps

(* The facts about the call at hand that every step of it starts from.     *)
LEMMA CallFacts ==
  ASSUME IInv, NEW c \in Call
  PROVE  /\ call[c] \in CallFrame
         /\ CallGood(call[c], row, ledger, up)
         /\ SharedGood(call[c], row, ledger, timer)
BY DEF IInv, TypeOK, Calls

LEMMA BeginKeeps ==
  ASSUME IInv, NEW s \in Server, NEW c \in Call,
         \/ Sweep(s, c)
         \/ \E t \in Tx : PollAsks(s, t, c) \/ PollDbError(s, t, c)
  PROVE  IInv'
<1>1. CASE Sweep(s, c)
  <2>1. PICK t \in aged :
          /\ Pending(t)
          /\ call' = [call EXCEPT ![c] = NewCall("find", s, t, "timeout",
                                       {u \in aged : Pending(u)} \ {t})]
    BY <1>1 DEF Sweep, Sweeps
  <2>2. /\ Exists(t, row) /\ s \in up
        /\ {u \in aged : Pending(u)} \ {t} \in SUBSET Tx
        /\ \A u \in {u \in aged : Pending(u)} \ {t} : Exists(u, row)
    BY <1>1, <2>1 DEF Sweep, Sweeps, IInv, TypeOK, Exists, Pending
  <2>3. /\ call'[c] \in CallFrame
        /\ CallGood(call'[c], row, ledger, up)
        /\ SharedGood(call'[c], row, ledger, timer)
    BY <2>1, <2>2, NewCallGood DEF IInv, TypeOK
  <2> QED
    BY <1>1, <2>1, <2>3, CallStepKeeps DEF Sweep, Sweeps, memory, IInv, TypeOK
<1>2. ASSUME NEW t \in Tx, PollAsks(s, t, c) PROVE IInv'
  <2>1. Exists(t, row) /\ s \in up
    BY <1>2 DEF PollAsks, Exists, Pending
  <2>2. /\ call'[c] \in CallFrame
        /\ CallGood(call'[c], row, ledger, up)
        /\ SharedGood(call'[c], row, ledger, timer)
    <3>1. call'[c] = NewCall("horizon", s, t, "none", {})
      BY <1>2 DEF PollAsks, IInv, TypeOK
    <3>2. {} \in SUBSET Tx /\ \A u \in {} : Exists(u, row)
      OBVIOUS
    <3> QED
      BY <2>1, <3>1, <3>2, NewCallGood
  <2> QED
    BY <1>2, <2>2, CallStepKeeps DEF PollAsks, memory, IInv, TypeOK
<1>3. ASSUME NEW t \in Tx, PollDbError(s, t, c) PROVE IInv'
  <2>1. Exists(t, row) /\ s \in up
    BY <1>3 DEF PollDbError, Exists, IInv, Old
  <2>2. /\ call'[c] \in CallFrame
        /\ CallGood(call'[c], row, ledger, up)
        /\ SharedGood(call'[c], row, ledger, timer)
    <3>1. call'[c] = NewCall("find", s, t, "timeout", {})
      BY <1>3 DEF PollDbError, IInv, TypeOK
    <3>2. {} \in SUBSET Tx /\ \A u \in {} : Exists(u, row)
      OBVIOUS
    <3> QED
      BY <2>1, <3>1, <3>2, NewCallGood
  <2>3. faults' \in [stops : 0..MaxStops, db : 0..MaxDbErrors]
    BY <1>3, FaultAssumption DEF PollDbError, CountDbError, IInv, TypeOK
  <2> QED
    BY <1>3, <2>2, <2>3, CallStepKeeps DEF PollDbError, memory, IInv, TypeOK
<1> QED
  BY <1>1, <1>2, <1>3

LEMMA AnswerKeeps ==
  ASSUME IInv, NEW c \in Call, Answers(c) \/ CallDbError(c)
  PROVE  IInv'
<1>1. call[c].pc # "free" /\ call' = [call EXCEPT ![c] = call'[c]]
  BY DEF Answers, PollAnswered, PollNotFound, PollFails, CallDbError, IInv, TypeOK
<1>2. Exists(call[c].tx, row) /\ call[c].srv \in up /\ call[c].srv \in Server
  BY <1>1, CallFacts DEF CallGood, IInv, TypeOK
<1>3. CASE PollAnswered(c)
  <2>1. PICK to \in {"confirmed", "failed"} :
          /\ call' = [call EXCEPT ![c].pc = "find", ![c].to = to]
          /\ to = "confirmed" => ledger[call[c].tx] = "success"
          /\ to = "failed" => ledger[call[c].tx] = "failed"
    BY <1>2, <1>3 DEF PollAnswered, IInv, TypeOK, Verdict, Exists
  <2>2. call'[c] = [call[c] EXCEPT !.pc = "find", !.to = to]
    BY <2>1 DEF IInv, TypeOK
  <2>3. call[c].obj = None /\ call[c].todo = {}
    BY <1>3, CallFacts DEF PollAnswered, SharedGood, CallGood
  <2>4. call'[c] \in CallFrame
    BY <2>2, CallFacts DEF CallFrame, TransactionStatus
  <2>5. /\ call'[c].pc = "find" /\ call'[c].to = to
        /\ call'[c].srv = call[c].srv /\ call'[c].tx = call[c].tx
        /\ call'[c].obj = None /\ call'[c].todo = {}
    BY <2>2, <2>3, CallFacts DEF CallFrame
  <2>6. CallGood(call'[c], row, ledger, up)
        /\ SharedGood(call'[c], row, ledger, timer)
    BY <1>2, <2>1, <2>5 DEF CallGood, SharedGood, Justified
  <2> QED
    BY <1>1, <1>3, <2>4, <2>6, CallStepKeeps DEF PollAnswered, memory, IInv, TypeOK
<1>4. CASE PollNotFound(c)
  <2>1. call'[c] = NoCall
    BY <1>4 DEF PollNotFound, IInv, TypeOK
  <2> QED
    BY <1>1, <1>4, <2>1, NoCallGood, CallStepKeeps
    DEF PollNotFound, memory, IInv, TypeOK
<1>5. CASE PollFails(c) \/ CallDbError(c)
  <2>1. call'[c] \in {NoCall, NewCall("find", call[c].srv, call[c].tx, "timeout", {})}
    BY <1>5 DEF PollFails, CallDbError, IInv, TypeOK
  <2>2. /\ call'[c] \in CallFrame
        /\ CallGood(call'[c], row, ledger, up)
        /\ SharedGood(call'[c], row, ledger, timer)
    BY <1>2, <2>1, NoCallGood, NewCallGood
  <2>3. faults' \in [stops : 0..MaxStops, db : 0..MaxDbErrors]
    BY <1>5, FaultAssumption DEF PollFails, CallDbError, CountDbError, IInv, TypeOK
  <2> QED
    BY <1>1, <1>5, <2>2, <2>3, CallStepKeeps
    DEF PollFails, CallDbError, memory, IInv, TypeOK
<1> QED
  BY <1>3, <1>4, <1>5 DEF Answers

(* The entity that findOne returned, with the status of the call.          *)
LEMMA FoundEntity ==
  ASSUME IInv, NEW c \in Call, call[c].pc = "find",
         NEW e \in {Found(c), FoundFailed(c)}
  PROVE  /\ EntityOf(e, call[c].tx, row)
         /\ e.status = call[c].to
         /\ e.retryCount = row[call[c].tx].retryCount
<1> DEFINE t == call[c].tx
<1>1. /\ t \in Tx /\ row[t] \in Row
      /\ row[t].retryCount <= row[t].maxRetries
      /\ call[c].to \in {"confirmed", "failed", "timeout"}
  BY CallFacts DEF CallGood, Exists, Justified, IInv, TypeOK, Rows, RowGood
<1>2. Found(c) = [row[t] EXCEPT !.status = call[c].to]
  BY DEF Found
<1>3. FoundFailed(c) = [Found(c) EXCEPT !.fatal = FALSE]
  BY DEF FoundFailed
<1> HIDE DEF t
<1>4. /\ Found(c) \in Row
      /\ Found(c).status = call[c].to
      /\ Found(c).maxRetries = row[t].maxRetries
      /\ Found(c).retryCount = row[t].retryCount
  BY <1>1, <1>2 DEF Row, TransactionStatus
<1>5. /\ FoundFailed(c) \in Row
      /\ FoundFailed(c).status = call[c].to
      /\ FoundFailed(c).maxRetries = row[t].maxRetries
      /\ FoundFailed(c).retryCount = row[t].retryCount
  BY <1>3, <1>4 DEF Row
<1> QED
  BY <1>1, <1>4, <1>5 DEF EntityOf, t

(* A call that goes on from its read to its save.                          *)
LEMMA FindSaves ==
  ASSUME IInv, NEW c \in Call, call[c].pc = "find",
         NEW e, EntityOf(e, call[c].tx, row), e.status = call[c].to,
         call'[c] = [call[c] EXCEPT !.pc = "save", !.ent = e]
  PROVE  /\ call'[c] \in CallFrame
         /\ CallGood(call'[c], row, ledger, up)
         /\ SharedGood(call'[c], row, ledger, timer)
<1> DEFINE f == call[c]
           g == call'[c]
<1>1. e \in Row /\ f.obj = None /\ f \in CallFrame
  BY CallFacts DEF EntityOf, SharedGood
<1>2. /\ g \in CallFrame /\ g.pc = "save" /\ g.ent = e /\ g.to = f.to
      /\ g.srv = f.srv /\ g.tx = f.tx /\ g.obj = None /\ g.todo = f.todo
  BY <1>1 DEF CallFrame
<1>3. CallGood(f, row, ledger, up)
  BY CallFacts
<1> QED
  BY <1>2, <1>3 DEF CallGood, SharedGood, Justified

(* One that sets timer k and goes on to updateTransactionForRetry.         *)
Marking(c, e, k) ==
  /\ call[c].pc = "find" /\ call[c].to = "failed"
  /\ EntityOf(e, call[c].tx, row) /\ e.status = call[c].to
  /\ e.retryCount < e.maxRetries
  /\ timer'[k].srv = call[c].srv /\ timer'[k].tx = call[c].tx
  /\ RetryEntityOf(timer'[k].ent, call[c].tx, row, ledger)
  /\ call'[c] = [call[c] EXCEPT !.pc = "mark", !.ent = e, !.obj = k]

LEMMA FindMarks ==
  ASSUME IInv, NEW c \in Call, NEW e, NEW k \in Timer, Marking(c, e, k)
  PROVE  /\ call'[c] \in CallFrame
         /\ CallGood(call'[c], row, ledger, up)
         /\ SharedGood(call'[c], row, ledger, timer')
<1> DEFINE f == call[c]
           g == call'[c]
<1>1. e \in Row /\ f \in CallFrame
  BY CallFacts DEF EntityOf, Marking
<1>2. /\ g \in CallFrame /\ g.pc = "mark" /\ g.ent = e /\ g.to = f.to
      /\ g.srv = f.srv /\ g.tx = f.tx /\ g.obj = k /\ g.todo = f.todo
  BY <1>1 DEF CallFrame, Marking
<1>3. CallGood(f, row, ledger, up)
  BY CallFacts
<1> QED
  BY <1>2, <1>3 DEF CallGood, SharedGood, Justified, Marking

LEMMA FindKeeps ==
  ASSUME IInv, NEW c \in Call, FindThenSave(c) \/ FindThenGiveUp(c)
  PROVE  IInv'
<1>1. call[c].pc = "find" /\ call[c].srv \in Server /\ call[c].tx \in Tx
  BY CallFacts DEF FindThenSave, FindThenGiveUp, CallGood, Exists, IInv, TypeOK
<1>2. PICK e \in {Found(c), FoundFailed(c)} :
        call' = [call EXCEPT ![c].pc = "save", ![c].ent = e]
  BY DEF FindThenSave, FindThenGiveUp
<1>3. call'[c] = [call[c] EXCEPT !.pc = "save", !.ent = e]
  BY <1>2 DEF IInv, TypeOK
<1>4. /\ call'[c] \in CallFrame
      /\ CallGood(call'[c], row, ledger, up)
      /\ SharedGood(call'[c], row, ledger, timer)
  <2>1. EntityOf(e, call[c].tx, row) /\ e.status = call[c].to
    BY <1>1, FoundEntity
  <2> QED
    BY <1>1, <1>3, <2>1, FindSaves
<1>5. call' = [call EXCEPT ![c] = call'[c]]
  BY <1>2 DEF IInv, TypeOK
<1>6. /\ UNCHANGED <<ledger, row, aged, up, activeRetries, retryQueue, timer,
                     faults>>
      /\ monitoredTransactions' \in [Server -> SUBSET Tx]
      /\ alerted' \subseteq Tx
  BY <1>1 DEF FindThenSave, FindThenGiveUp, StopMonitoring, IInv, TypeOK
<1> QED
  BY <1>4, <1>5, <1>6, CallStepKeeps DEF IInv, TypeOK

LEMMA FindThenRetryKeeps ==
  ASSUME IInv, NEW c \in Call, FindThenRetry(c)
  PROVE  IInv'
<1> DEFINE s == call[c].srv
           t == call[c].tx
<1>0. PICK e : e = FoundFailed(c)
  OBVIOUS
<1>1. PICK k \in Timer :
        /\ StartTimer(s, t, k, e)
        /\ call' = [call EXCEPT ![c].pc = "mark", ![c].ent = e, ![c].obj = k]
  BY <1>0 DEF FindThenRetry
<1>2. /\ call[c].pc = "find" /\ call[c].to = "failed" /\ ShouldRetry(e)
      /\ s \in Server /\ s \in up /\ Exists(t, row) /\ ledger[t] = "failed"
  BY <1>0, CallFacts DEF FindThenRetry, CallGood, Justified, IInv, TypeOK
<1>3. EntityOf(e, t, row) /\ e.status = "failed"
      /\ RetryEntityOf(e, t, row, ledger) /\ e \in Row
      /\ e.retryCount < e.maxRetries
  BY <1>0, <1>2, FoundEntity DEF RetryEntityOf, ShouldRetry, EntityOf
<1> DEFINE g == [pc |-> "asleep", srv |-> s, tx |-> t, ent |-> e]
<1>4. timer' = [timer EXCEPT ![k] = g] /\ FreeTimer(k)
  BY <1>1 DEF StartTimer
<1>5. g \in TimerFrame /\ TimerGood(g, row, ledger, up)
  BY <1>2, <1>3 DEF TimerFrame, TimerGood, Exists
<1>6. timer'[k] = g /\ \A j \in Timer : j = k \/ timer'[j] = timer[j]
  BY <1>4 DEF IInv, TypeOK
<1>7. call'[c] = [call[c] EXCEPT !.pc = "mark", !.ent = e, !.obj = k]
      /\ \A d \in Call : d = c \/ call'[d] = call[d]
  BY <1>1 DEF IInv, TypeOK
<1>8. g.srv = s /\ g.tx = t /\ g.ent = e
  OBVIOUS
<1> HIDE DEF s, t, g
<1>9. /\ call'[c] \in CallFrame
       /\ CallGood(call'[c], row, ledger, up)
       /\ SharedGood(call'[c], row, ledger, timer')
  <2>1. /\ EntityOf(e, call[c].tx, row) /\ e.status = call[c].to
        /\ timer'[k].srv = call[c].srv /\ timer'[k].tx = call[c].tx
        /\ RetryEntityOf(timer'[k].ent, call[c].tx, row, ledger)
    BY <1>2, <1>3, <1>6, <1>8 DEF s, t
  <2>2. /\ call[c].pc = "find" /\ call[c].to = "failed"
        /\ e.retryCount < e.maxRetries
        /\ call'[c] = [call[c] EXCEPT !.pc = "mark", !.ent = e, !.obj = k]
    BY <1>2, <1>3, <1>7
  <2>3. Marking(c, e, k)
    BY <2>1, <2>2 DEF Marking
  <2> QED
    BY <2>3, FindMarks
<1>10. UNCHANGED <<ledger, row, aged, up, alerted, faults>>
  BY DEF FindThenRetry
<1>11. /\ call' \in [Call -> CallFrame] /\ timer' \in [Timer -> TimerFrame]
  BY <1>1, <1>4, <1>5, <1>9 DEF IInv, TypeOK
<1>12. /\ monitoredTransactions' \in [Server -> SUBSET Tx]
       /\ activeRetries' \in [Server -> SUBSET Tx]
       /\ retryQueue' \in [Server -> [Tx -> Timer \cup {None}]]
  BY <1>1, <1>2 DEF FindThenRetry, StartTimer, StopMonitoring, Exists, IInv,
                    TypeOK, s, t
<1>13. TypeOK'
  BY <1>10, <1>11, <1>12 DEF IInv, TypeOK
<1>14. Rows' /\ Old' /\ Evolves(row, ledger, row', ledger')
  BY <1>10 DEF IInv, Rows, Old, Evolves
<1> QED
  BY <1>4, <1>5, <1>6, <1>7, <1>9, <1>10, <1>13, <1>14, StepKeeps
  DEF FreeTimer

(* What may be written over the row of t.                                  *)
Writable(r, t) == /\ r \in Row /\ r.status # "absent"
                  /\ r.maxRetries = row[t].maxRetries
                  /\ RowGood(r, ledger[t])

LEMMA RowStep ==
  ASSUME IInv, NEW t, Exists(t, row), NEW r, Writable(r, t),
         row' = [row EXCEPT ![t] = r], UNCHANGED <<ledger, aged>>
  PROVE  /\ row' \in [Tx -> Row] /\ Rows' /\ Old'
         /\ Evolves(row, ledger, row', ledger')
<1>1. t \in Tx /\ row \in [Tx -> Row] /\ aged \subseteq Tx /\ Rows /\ Old
  BY DEF Exists, IInv, TypeOK
<1>2. /\ row'[t] = r
      /\ \A u \in Tx : u = t \/ row'[u] = row[u]
  BY <1>1
<1> QED
  BY <1>1, <1>2 DEF Writable, Rows, Old, Evolves

LEMMA MarkedRow ==
  ASSUME IInv, NEW t, Exists(t, row), ledger[t] = "failed",
         NEW e, EntityOf(e, t, row), e.retryCount < e.maxRetries
  PROVE  Writable(Marked(t, e), t) /\ Marked(t, e).status = "retrying"
<1>1. row[t] \in Row /\ e.retryCount + 1 \in Nat
      /\ e.retryCount + 1 <= row[t].maxRetries
  BY DEF EntityOf, Exists, IInv, TypeOK, Row
<1>2. /\ Marked(t, e) \in Row
      /\ Marked(t, e).status = "retrying"
      /\ Marked(t, e).retryCount = e.retryCount + 1
      /\ Marked(t, e).maxRetries = row[t].maxRetries
  BY <1>1 DEF Marked, Row, TransactionStatus
<1> QED
  BY <1>1, <1>2 DEF Writable, RowGood

LEMMA EntityRow ==
  ASSUME NEW t, NEW e, EntityOf(e, t, row),
         e.status = "confirmed" => ledger[t] = "success",
         e.status \in {"failed", "retrying"} => ledger[t] = "failed"
  PROVE  Writable(e, t)
BY DEF EntityOf, Writable, RowGood

(* What the save of a call writes, be it the object that the call read or  *)
(* what a retry has made of it since.                                      *)
LEMMA HeldRow ==
  ASSUME IInv, NEW c \in Call, call[c].pc = "save"
  PROVE  Writable(Held(c), call[c].tx) /\ Held(c).status # "pending"
<1>1. CASE call[c].obj = None
  BY <1>1, CallFacts, EntityRow DEF Held, CallGood, Justified
<1>2. CASE call[c].obj # None
  BY <1>2, CallFacts, EntityRow DEF Held, SharedGood, RetryEntityOf
<1> QED
  BY <1>1, <1>2

(* A step of a call that writes the row and then goes on or returns.       *)
LEMMA CallWriteKeeps ==
  ASSUME IInv, NEW c \in Call, NEW r, Writable(r, call[c].tx),
         Exists(call[c].tx, row),
         row' = [row EXCEPT ![call[c].tx] = r],
         UNCHANGED <<ledger, aged, up, memory, timer, alerted, faults>>,
         call' = [call EXCEPT ![c] = call'[c]],
         call'[c] \in CallFrame,
         CallGood(call'[c], row, ledger, up),
         SharedGood(call'[c], row, ledger, timer)
  PROVE  IInv'
<1>1. /\ row' \in [Tx -> Row] /\ Rows' /\ Old'
      /\ Evolves(row, ledger, row', ledger')
  BY RowStep
<1>2. TypeOK'
  BY <1>1 DEF IInv, TypeOK, memory
<1>3. CallGood(call'[c], row', ledger', up')
  <2>1. call'[c].pc # "free" => call'[c].srv \in up'
    BY DEF CallGood
  <2> QED
    BY <1>1, <2>1, CallKept
<1>4. SharedGood(call'[c], row', ledger', timer')
  BY <1>1, SharedKept
<1>5. \A d \in Call : d = c \/ call'[d] = call[d]
  BY DEF IInv, TypeOK
<1> QED
  BY <1>1, <1>2, <1>3, <1>4, <1>5, StepKeeps

LEMMA WriteKeeps ==
  ASSUME IInv, NEW c \in Call, MarkRetrying(c) \/ Save(c) \/ RecordLedger(c)
  PROVE  IInv'
<1> DEFINE t == call[c].tx
<1>1. call[c].pc \in {"mark", "save", "ledger"} /\ Exists(t, row) /\ t \in Tx
  BY CallFacts DEF MarkRetrying, Save, RecordLedger, CallGood, Exists
<1>2. call' = [call EXCEPT ![c] = call'[c]]
  BY DEF MarkRetrying, Save, RecordLedger, IInv, TypeOK
<1>3. CASE MarkRetrying(c)
  <2>1. /\ call[c].pc = "mark" /\ call[c].to = "failed" /\ ledger[t] = "failed"
        /\ EntityOf(call[c].ent, t, row)
        /\ call[c].ent.retryCount < call[c].ent.maxRetries
    BY <1>3, CallFacts DEF MarkRetrying, CallGood, Justified
  <2>2. Writable(Marked(t, call[c].ent), t)
    BY <1>1, <2>1, MarkedRow
  <2>3. call'[c] = [call[c] EXCEPT !.pc = "save"]
    BY <1>3 DEF MarkRetrying, IInv, TypeOK
  <2>4. /\ call'[c] \in CallFrame /\ call'[c].pc = "save"
        /\ call'[c].ent = call[c].ent /\ call'[c].to = call[c].to
        /\ call'[c].srv = call[c].srv /\ call'[c].tx = call[c].tx
        /\ call'[c].obj = call[c].obj /\ call'[c].todo = call[c].todo
    BY <2>3, CallFacts DEF CallFrame
  <2>5. /\ CallGood(call'[c], row, ledger, up)
        /\ SharedGood(call'[c], row, ledger, timer)
    BY <2>1, <2>4, CallFacts DEF CallGood, SharedGood, Justified
  <2> QED
    BY <1>1, <1>2, <1>3, <2>2, <2>4, <2>5, CallWriteKeeps DEF MarkRetrying
<1>4. CASE Save(c)
  <2>1. call[c].pc = "save" /\ call'[c] \in AfterSave(call[c])
    BY <1>4 DEF Save, IInv, TypeOK
  <2>2. Writable(Held(c), t)
    BY <2>1, HeldRow
  <2>3. /\ call'[c] \in CallFrame
        /\ CallGood(call'[c], row, ledger, up)
        /\ SharedGood(call'[c], row, ledger, timer)
    BY <2>1, CallFacts, AfterSaveGood
  <2> QED
    BY <1>1, <1>2, <1>4, <2>2, <2>3, CallWriteKeeps DEF Save
<1>5. CASE RecordLedger(c)
  <2>1. PICK r : r = [row[t] EXCEPT !.ledgerSequence = TRUE]
    OBVIOUS
  <2>2. row' = [row EXCEPT ![t] = r]
    BY <1>5, <2>1 DEF RecordLedger
  <2>3. Writable(r, t)
    <3>1. row[t] \in Row /\ row[t].status # "absent" /\ RowGood(row[t], ledger[t])
      BY <1>1 DEF Exists, IInv, TypeOK, Rows
    <3>2. /\ r \in Row /\ r.status = row[t].status
          /\ r.retryCount = row[t].retryCount
          /\ r.maxRetries = row[t].maxRetries
      BY <2>1, <3>1 DEF Row
    <3> QED
      BY <3>1, <3>2 DEF Writable, RowGood
  <2>4. /\ call'[c] \in CallFrame
        /\ CallGood(call'[c], row, ledger, up)
        /\ SharedGood(call'[c], row, ledger, timer)
    BY <1>5, NoCallGood DEF RecordLedger, IInv, TypeOK
  <2> QED
    BY <1>1, <1>2, <1>5, <2>2, <2>3, <2>4, CallWriteKeeps DEF RecordLedger
<1> QED
  BY <1>3, <1>4, <1>5

LEMMA TimerFacts ==
  ASSUME IInv, NEW k \in Timer, timer[k].pc # "free"
  PROVE  /\ timer[k] \in TimerFrame /\ TimerGood(timer[k], row, ledger, up)
         /\ timer[k].srv \in Server /\ timer[k].srv \in up
         /\ timer[k].tx \in Tx /\ Exists(timer[k].tx, row)
         /\ RetryEntityOf(timer[k].ent, timer[k].tx, row, ledger)
         /\ ledger[timer[k].tx] = "failed" /\ timer[k].pc # "confirm"
BY DEF IInv, TypeOK, Timers, TimerGood, Exists, RetryEntityOf

(* A step of one timer, which keeps its transaction and a retry entity.    *)
LEMMA TimerStepKeeps ==
  ASSUME IInv, NEW k \in Timer, timer[k].pc # "free",
         NEW pc \in {"free", "horizon", "save", "mark"}, NEW e,
         RetryEntityOf(e, timer[k].tx, row, ledger),
         pc \notin {"free", "save"} => e.retryCount < e.maxRetries,
         e.status = "retrying" => e.retryCount < e.maxRetries,
         timer' = [timer EXCEPT ![k].pc = pc, ![k].ent = e],
         UNCHANGED <<ledger, aged, up, monitoredTransactions, call, alerted>>,
         row' \in [Tx -> Row], Rows', Old',
         Evolves(row, ledger, row', ledger'),
         activeRetries' \in [Server -> SUBSET Tx],
         retryQueue' \in [Server -> [Tx -> Timer \cup {None}]],
         faults' \in [stops : 0..MaxStops, db : 0..MaxDbErrors]
  PROVE  IInv'
<1>1. /\ timer'[k] = [timer[k] EXCEPT !.pc = pc, !.ent = e]
      /\ \A j \in Timer : j = k \/ timer'[j] = timer[j]
  BY DEF IInv, TypeOK
<1>2. e \in Row
  BY DEF RetryEntityOf, EntityOf
<1>3. /\ timer'[k] \in TimerFrame
      /\ timer'[k].pc = pc /\ timer'[k].ent = e
      /\ timer'[k].srv = timer[k].srv /\ timer'[k].tx = timer[k].tx
  <2>1. timer[k] \in TimerFrame
    BY TimerFacts
  <2>2. pc \in {"free", "asleep", "horizon", "confirm", "save", "mark"}
    OBVIOUS
  <2>3. PICK g : g = [timer[k] EXCEPT !.pc = pc, !.ent = e]
    OBVIOUS
  <2>4. /\ g \in TimerFrame /\ g.pc = pc /\ g.ent = e
        /\ g.srv = timer[k].srv /\ g.tx = timer[k].tx
    BY <1>2, <2>1, <2>2, <2>3 DEF TimerFrame
  <2> QED
    BY <1>1, <2>3, <2>4
<1>4. RetryEntityOf(e, timer[k].tx, row', ledger')
  BY TimerFacts, RetryEntityKept
<1>5. Exists(timer[k].tx, row')
  BY TimerFacts DEF Exists, Evolves
<1>6. TimerGood(timer'[k], row', ledger', up') /\ RetriedOn(k)
  BY <1>3, <1>4, <1>5, TimerFacts DEF TimerGood, RetriedOn
<1>7. timer' \in [Timer -> TimerFrame]
  BY <1>1, <1>3 DEF IInv, TypeOK
<1>8. TypeOK'
  BY <1>7 DEF IInv, TypeOK
<1> QED
  BY <1>1, <1>6, <1>8, StepKeeps

(* The same of a timer that only moves on, its entity unchanged.           *)
LEMMA SameEntity ==
  ASSUME IInv, NEW k \in Timer, NEW pc, timer' = [timer EXCEPT ![k].pc = pc]
  PROVE  timer' = [timer EXCEPT ![k].pc = pc, ![k].ent = timer[k].ent]
<1>1. timer \in [Timer -> TimerFrame] /\ timer[k] \in TimerFrame
  BY DEF IInv, TypeOK
<1>2. [timer[k] EXCEPT !.pc = pc] = [timer[k] EXCEPT !.pc = pc, !.ent = timer[k].ent]
  BY <1>1 DEF TimerFrame
<1> QED
  BY <1>1, <1>2

(* ForgetRetry keeps the types of the Set and of the Map.                  *)
LEMMA ForgetTyped ==
  ASSUME IInv, NEW s \in Server, NEW t \in Tx, ForgetRetry(s, t)
  PROVE  /\ activeRetries' \in [Server -> SUBSET Tx]
         /\ retryQueue' \in [Server -> [Tx -> Timer \cup {None}]]
BY DEF IInv, TypeOK, ForgetRetry

LEMMA TimerMovesKeeps ==
  ASSUME IInv, NEW k \in Timer, TimerFires(k) \/ RetryFails(k)
  PROVE  IInv'
<1>1. timer[k].pc \in {"asleep", "horizon"}
  BY DEF TimerFires, RetryFails
<1>2. timer[k].ent.retryCount < timer[k].ent.maxRetries
  BY <1>1, TimerFacts DEF TimerGood
<1>3. PICK pc \in {"horizon", "save"},
             e \in {timer[k].ent} \cup {Failed(timer[k].ent, b) : b \in BOOLEAN} :
        /\ timer' = [timer EXCEPT ![k].pc = pc, ![k].ent = e]
        /\ \/ pc = "horizon" /\ e = timer[k].ent
           \/ pc = "save" /\ \E fatal \in BOOLEAN : e = Failed(timer[k].ent, fatal)
  <2>1. CASE TimerFires(k)
    BY <2>1, SameEntity DEF TimerFires
  <2>2. CASE RetryFails(k)
    BY <2>2 DEF RetryFails
  <2> QED
    BY <2>1, <2>2
<1>4. /\ RetryEntityOf(e, timer[k].tx, row, ledger)
      /\ pc = "horizon" => e.retryCount < e.maxRetries
      /\ e.status = "retrying" => e.retryCount < e.maxRetries
  BY <1>1, <1>2, <1>3, TimerFacts, FailedEntity
<1>5. UNCHANGED <<ledger, row, aged, up, memory, call, alerted, faults>>
  BY DEF TimerFires, RetryFails
<1>6. /\ row' \in [Tx -> Row] /\ Rows' /\ Old'
      /\ Evolves(row, ledger, row', ledger')
  BY <1>5 DEF IInv, TypeOK, Rows, Old, Evolves
<1> QED
  BY <1>1, <1>3, <1>4, <1>5, <1>6, TimerStepKeeps DEF IInv, TypeOK, memory

(* A retry that ends: it has written the row, or the write has failed.     *)
LEMMA TimerEndsKeeps ==
  ASSUME IInv, NEW k \in Timer, RetrySaves(k) \/ RetryMarks(k) \/ RetryDbError(k)
  PROVE  IInv'
<1> DEFINE t == timer[k].tx
           e == timer[k].ent
<1>1. timer[k].pc \in {"save", "mark"}
  BY DEF RetrySaves, RetryMarks, RetryDbError
<1>2. /\ t \in Tx /\ Exists(t, row) /\ ledger[t] = "failed"
      /\ timer[k].srv \in Server
      /\ EntityOf(e, t, row) /\ RetryEntityOf(e, t, row, ledger)
      /\ e.status = "retrying" => e.retryCount < e.maxRetries
      /\ timer[k].pc = "mark" => e.retryCount < e.maxRetries
  BY <1>1, TimerFacts DEF TimerGood, RetryEntityOf
<1>3. /\ timer' = [timer EXCEPT ![k].pc = "free"]
      /\ ForgetRetry(timer[k].srv, t)
      /\ UNCHANGED <<ledger, aged, up, monitoredTransactions, call, alerted>>
  BY DEF RetrySaves, RetryMarks, RetryDbError
<1>4. timer' = [timer EXCEPT ![k].pc = "free", ![k].ent = e]
  BY <1>3, SameEntity
<1>5. faults' \in [stops : 0..MaxStops, db : 0..MaxDbErrors]
  BY FaultAssumption
  DEF RetrySaves, RetryMarks, RetryDbError, CountDbError, IInv, TypeOK
<1>6. /\ row' \in [Tx -> Row] /\ Rows' /\ Old'
      /\ Evolves(row, ledger, row', ledger')
  <2>1. CASE row' = row
    BY <1>3, <2>1 DEF IInv, TypeOK, Rows, Old, Evolves
  <2>2. CASE RetrySaves(k)
    <3>1. Writable(e, t)
      BY <1>2, EntityRow DEF RetryEntityOf
    <3> QED
      BY <1>2, <1>3, <2>2, <3>1, RowStep DEF RetrySaves
  <2>3. CASE RetryMarks(k)
    <3>1. Writable(Marked(t, e), t)
      BY <1>2, <2>3, MarkedRow DEF RetryMarks
    <3> QED
      BY <1>2, <1>3, <2>3, <3>1, RowStep DEF RetryMarks
  <2> QED
    BY <2>1, <2>2, <2>3 DEF RetryDbError
<1>7. /\ activeRetries' \in [Server -> SUBSET Tx]
      /\ retryQueue' \in [Server -> [Tx -> Timer \cup {None}]]
  BY <1>2, <1>3, ForgetTyped
<1> QED
  BY <1>1, <1>2, <1>3, <1>4, <1>5, <1>6, <1>7, TimerStepKeeps

LEMMA RescheduleKeeps ==
  ASSUME IInv, NEW k \in Timer, RetrySavesAndReschedules(k)
  PROVE  IInv'
<1> DEFINE s == timer[k].srv
           t == timer[k].tx
           e == timer[k].ent
<1>1. /\ timer[k].pc = "save" /\ e.status = "retrying"
      /\ row' = [row EXCEPT ![t] = e]
      /\ UNCHANGED <<ledger, aged, up, monitoredTransactions, call, alerted,
                     faults>>
  BY DEF RetrySavesAndReschedules
<1>2. PICK n \in Timer :
        /\ FreeTimer(n)
        /\ activeRetries' = [activeRetries EXCEPT ![s] = @ \cup {t}]
        /\ retryQueue' = [retryQueue EXCEPT ![s][t] = n]
        /\ timer' = [timer EXCEPT ![k].pc = "mark",
                                  ![n] = [timer[k] EXCEPT !.pc = "asleep"]]
  BY DEF RetrySavesAndReschedules
<1>3. /\ timer[k] \in TimerFrame /\ t \in Tx /\ Exists(t, row) /\ s \in Server
      /\ s \in up /\ ledger[t] = "failed"
      /\ EntityOf(e, t, row) /\ RetryEntityOf(e, t, row, ledger)
      /\ e.retryCount < e.maxRetries
  BY <1>1, TimerFacts DEF TimerGood, RetryEntityOf
<1>4. n # k
  BY <1>1, <1>2 DEF FreeTimer
<1>5. /\ timer'[k] = [timer[k] EXCEPT !.pc = "mark"]
      /\ timer'[n] = [timer[k] EXCEPT !.pc = "asleep"]
      /\ \A j \in Timer : j = k \/ j = n \/ timer'[j] = timer[j]
  BY <1>2, <1>4 DEF IInv, TypeOK
<1>6. ASSUME NEW pc \in {"mark", "asleep"}, NEW g,
             g = [timer[k] EXCEPT !.pc = pc]
      PROVE  /\ g \in TimerFrame /\ g.pc = pc /\ g.srv = s /\ g.tx = t
             /\ g.ent = e
  BY <1>3, <1>6 DEF TimerFrame
<1>7. Writable(e, t)
  BY <1>3, EntityRow DEF RetryEntityOf
<1>8. /\ row' \in [Tx -> Row] /\ Rows' /\ Old'
      /\ Evolves(row, ledger, row', ledger')
  BY <1>1, <1>3, <1>7, RowStep
<1>9. /\ timer'[k] \in TimerFrame /\ timer'[k].pc = "mark"
      /\ timer'[k].srv = s /\ timer'[k].tx = t /\ timer'[k].ent = e
      /\ timer'[n] \in TimerFrame /\ timer'[n].pc = "asleep"
      /\ timer'[n].srv = s /\ timer'[n].tx = t /\ timer'[n].ent = e
  BY <1>5, <1>6
<1> HIDE DEF s, t, e
<1>10. RetryEntityOf(e, t, row', ledger') /\ Exists(t, row')
  BY <1>3, <1>8, RetryEntityKept DEF Exists, Evolves
<1>11. /\ TimerGood(timer'[k], row', ledger', up')
       /\ TimerGood(timer'[n], row', ledger', up')
  BY <1>1, <1>3, <1>9, <1>10 DEF TimerGood
<1>12. RetriedOn(k)
  BY <1>9, <1>10 DEF RetriedOn, s, t
<1>13. timer' \in [Timer -> TimerFrame]
  BY <1>2, <1>5, <1>9 DEF IInv, TypeOK
<1>14. /\ activeRetries' \in [Server -> SUBSET Tx]
       /\ retryQueue' \in [Server -> [Tx -> Timer \cup {None}]]
  BY <1>2, <1>3 DEF IInv, TypeOK
<1>15. TypeOK'
  BY <1>1, <1>8, <1>13, <1>14 DEF IInv, TypeOK
<1> QED
  BY <1>1, <1>2, <1>5, <1>8, <1>11, <1>12, <1>15, StepKeeps DEF FreeTimer

(* No retry finds a success: what the network rejected stays rejected.     *)
LEMMA NoRetrySucceeds ==
  ASSUME IInv, NEW k \in Timer
  PROVE  ~RetryFindsSuccess(k) /\ ~RetryConfirms(k) /\ ~ConfirmDbError(k)
BY TimerFacts DEF RetryFindsSuccess, RetryConfirms, ConfirmDbError

LEMMA StopKeeps ==
  ASSUME IInv, NEW s \in Server, Stop(s)
  PROVE  IInv'
<1>1. /\ UNCHANGED <<ledger, row, aged, alerted>> /\ up' = up \ {s}
      /\ call' = [c \in Call |-> IF call[c].srv = s THEN NoCall ELSE call[c]]
      /\ timer' = [k \in Timer |-> IF timer[k].srv = s THEN NoTimer
                                                       ELSE timer[k]]
  BY DEF Stop
<1>2. NoTimer \in TimerFrame /\ NoTimer.pc = "free"
  BY DEF NoTimer, TimerFrame, Absent, Row, TransactionStatus
<1>3. /\ call' \in [Call -> CallFrame] /\ timer' \in [Timer -> TimerFrame]
  BY <1>1, <1>2, NoCallGood DEF IInv, TypeOK
<1>4. /\ monitoredTransactions' \in [Server -> SUBSET Tx]
      /\ activeRetries' \in [Server -> SUBSET Tx]
      /\ retryQueue' \in [Server -> [Tx -> Timer \cup {None}]]
      /\ faults' \in [stops : 0..MaxStops, db : 0..MaxDbErrors]
  <2>1. /\ monitoredTransactions' \in [Server -> SUBSET Tx]
        /\ activeRetries' \in [Server -> SUBSET Tx]
    BY DEF Stop, IInv, TypeOK
  <2>2. retryQueue' \in [Server -> [Tx -> Timer \cup {None}]]
    <3>1. [t \in Tx |-> None] \in [Tx -> Timer \cup {None}]
      OBVIOUS
    <3> QED
      BY <3>1 DEF Stop, IInv, TypeOK
  <2>3. faults' \in [stops : 0..MaxStops, db : 0..MaxDbErrors]
    BY SMTT(30), FaultAssumption DEF Stop, IInv, TypeOK
  <2> QED
    BY <2>1, <2>2, <2>3
<1>5. TypeOK'
  BY <1>1, <1>3, <1>4 DEF IInv, TypeOK
<1>6. Rows' /\ Old' /\ Evolves(row, ledger, row', ledger')
  BY <1>1 DEF IInv, Rows, Old, Evolves
<1>7. ASSUME NEW c \in Call
      PROVE  /\ CallGood(call'[c], row', ledger', up')
             /\ SharedGood(call'[c], row', ledger', timer')
  <2>1. CASE call[c].srv = s
    BY <1>1, <2>1, NoCallGood
  <2>2. CASE call[c].srv # s
    <3>1. call'[c] = call[c]
      BY <1>1, <2>2
    <3>2. call[c].pc # "free" => call[c].srv \in up'
      BY <1>1, <2>2, CallFacts DEF CallGood
    <3>3. CallGood(call'[c], row', ledger', up')
      BY <1>6, <3>1, <3>2, CallFacts, CallKept
    <3>4. call[c].obj # None => timer'[call[c].obj] = timer[call[c].obj]
      <4>1. call[c].obj \in Timer \cup {None}
        BY CallFacts DEF CallFrame
      <4>2. call[c].obj # None => timer[call[c].obj].srv = call[c].srv
        BY CallFacts DEF SharedGood
      <4> QED
        BY <1>1, <2>2, <4>1, <4>2
    <3>5. SharedGood(call'[c], row', ledger', timer')
      BY <1>6, <3>1, <3>4, CallFacts, SharedKept
    <3> QED
      BY <3>3, <3>5
  <2> QED
    BY <2>1, <2>2
<1>8. ASSUME NEW k \in Timer
      PROVE  TimerGood(timer'[k], row', ledger', up')
  <2>1. CASE timer[k].srv = s
    BY <1>1, <1>2, <2>1 DEF TimerGood
  <2>2. CASE timer[k].srv # s
    <3>1. timer'[k] = timer[k] /\ TimerGood(timer[k], row, ledger, up)
      BY <1>1, <2>2 DEF IInv, Timers
    <3>2. timer[k].pc # "free" => timer[k].srv \in up'
      BY <1>1, <2>2, <3>1 DEF TimerGood
    <3> QED
      BY <1>6, <3>1, <3>2, TimerKept
  <2> QED
    BY <2>1, <2>2
<1> QED
  BY <1>5, <1>6, <1>7, <1>8 DEF IInv, Calls, Timers

-----------------------------------------------------------------------------
LEMMA NextKeeps == IInv /\ [Next]_vars => IInv'
<1> SUFFICES ASSUME IInv, [Next]_vars
             PROVE  IInv'
  OBVIOUS
<1>1. CASE Environment \/ Api
  BY <1>1, EnvironmentKeeps, CreateKeeps DEF Environment, Api
<1>2. CASE Intervals \/ \E s \in Server, c \in Call : Sweep(s, c)
  BY <1>2, MonitorsKeep, BeginKeeps DEF Intervals
<1>3. CASE \E c \in Call : Answers(c) \/ Update(c)
  BY <1>3, AnswerKeeps, FindKeeps, FindThenRetryKeeps, WriteKeeps DEF Update
<1>4. CASE \E k \in Timer : TimerFires(k) \/ ExecuteRetry(k)
  BY <1>4, TimerMovesKeeps, TimerEndsKeeps, RescheduleKeeps, NoRetrySucceeds
  DEF ExecuteRetry
<1>5. CASE DbError
  BY <1>5, BeginKeeps, AnswerKeeps, TimerEndsKeeps, NoRetrySucceeds DEF DbError
<1>6. CASE Replica
  BY <1>6, StopKeeps, MonitorsKeep DEF Replica
<1>7. CASE UNCHANGED vars
  <2>1. TypeOK'
    BY <1>7 DEF IInv, TypeOK, vars, memory
  <2>2. Rows' /\ Old' /\ Evolves(row, ledger, row', ledger')
    BY <1>7 DEF IInv, Rows, Old, Evolves, vars
  <2> QED
    BY <1>7, <2>1, <2>2, StepKeeps DEF vars
<1> QED
  BY <1>1, <1>2, <1>3, <1>4, <1>5, <1>6, <1>7 DEF Next

LEMMA Inductive == Spec => []IInv
BY InitIInv, NextKeeps, PTL DEF Spec

(* The variables keep their types, for any number of replicas,             *)
(* transactions, calls in progress and retry timers.                       *)
THEOREM TypeCorrect == Spec => []TypeOK
<1>1. IInv => TypeOK
  BY DEF IInv
<1> QED
  BY <1>1, Inductive, PTL

(* The four writers of retryCount, which work on entities read before      *)
(* other replicas wrote, never take it beyond maxRetries.                  *)
THEOREM BudgetKept == Spec => []RetryBudget
<1>1. IInv => RetryBudget
  BY DEF IInv, Rows, RowGood, RetryBudget
<1> QED
  BY <1>1, Inductive, PTL

(* No late save records a verdict that the network did not give.           *)
THEOREM VerdictsTrue == Spec => []VerdictRespected
<1>1. IInv => VerdictRespected
  BY DEF IInv, Rows, RowGood, VerdictRespected
<1> QED
  BY <1>1, Inductive, PTL

-----------------------------------------------------------------------------
(* activeRetries is exact: OneRetryPerReplica is inductive beside IInv.    *)

(* Steps that neither start nor end a retry.                               *)
LEMMA RetriesStay ==
  ASSUME OneRetryPerReplica, UNCHANGED <<activeRetries, retryQueue>>,
         \A k \in Timer : /\ timer'[k].pc = "free" <=> timer[k].pc = "free"
                          /\ timer'[k].srv = timer[k].srv
                          /\ timer'[k].tx = timer[k].tx
  PROVE  OneRetryPerReplica'
<1>1. \A s \in Server, t \in Tx : TimersOf(s, t)' = TimersOf(s, t)
  BY DEF TimersOf
<1> QED
  BY <1>1 DEF OneRetryPerReplica

(* A retry that starts finds its hash in no other timer of the replica.    *)
LEMMA RetryStarts ==
  ASSUME IInv, OneRetryPerReplica, NEW s \in Server, NEW t \in Tx,
         NEW k \in Timer, NEW e, StartTimer(s, t, k, e),
         t \notin activeRetries[s]
  PROVE  OneRetryPerReplica'
<1>1. /\ timer[k].pc = "free" /\ timer \in [Timer -> TimerFrame]
      /\ activeRetries' = [activeRetries EXCEPT ![s] = @ \cup {t}]
      /\ retryQueue' = [retryQueue EXCEPT ![s][t] = k]
      /\ timer' = [timer EXCEPT ![k] = [pc |-> "asleep", srv |-> s, tx |-> t,
                                        ent |-> e]]
      /\ activeRetries \in [Server -> SUBSET Tx]
      /\ retryQueue \in [Server -> [Tx -> Timer \cup {None}]]
  BY DEF StartTimer, FreeTimer, IInv, TypeOK
<1>2. TimersOf(s, t) = {}
  BY DEF OneRetryPerReplica
<1>3. TimersOf(s, t)' = {k}
  BY <1>1, <1>2 DEF TimersOf
<1>4. ASSUME NEW r \in Server, NEW u \in Tx, r # s \/ u # t
      PROVE  /\ TimersOf(r, u)' = TimersOf(r, u)
             /\ u \in activeRetries'[r] <=> u \in activeRetries[r]
             /\ retryQueue'[r][u] = retryQueue[r][u]
  <2>1. TimersOf(r, u)' = TimersOf(r, u)
    BY <1>1, <1>4 DEF TimersOf
  <2> QED
    BY <1>1, <1>4, <2>1
<1>5. t \in activeRetries'[s] /\ retryQueue'[s][t] = k
  BY <1>1
<1> QED
  BY <1>3, <1>4, <1>5 DEF OneRetryPerReplica

(* A retry that ends was the only one of its hash.                         *)
LEMMA RetryEndsAlone ==
  ASSUME IInv, OneRetryPerReplica, NEW k \in Timer, timer[k].pc # "free",
         timer' = [timer EXCEPT ![k].pc = "free"],
         ForgetRetry(timer[k].srv, timer[k].tx)
  PROVE  OneRetryPerReplica'
<1> DEFINE s == timer[k].srv
           t == timer[k].tx
<1>1. /\ s \in Server /\ t \in Tx /\ timer \in [Timer -> TimerFrame]
      /\ activeRetries \in [Server -> SUBSET Tx]
      /\ retryQueue \in [Server -> [Tx -> Timer \cup {None}]]
  BY TimerFacts DEF IInv, TypeOK
<1>2. TimersOf(s, t) = {k}
  BY <1>1 DEF OneRetryPerReplica, TimersOf
<1>3. /\ \A j \in Timer : j = k \/ timer'[j] = timer[j]
      /\ timer'[k].pc = "free"
  BY <1>1 DEF TimerFrame
<1>4. TimersOf(s, t)' = {}
  BY <1>2, <1>3 DEF TimersOf
<1>5. ASSUME NEW r \in Server, NEW u \in Tx, r # s \/ u # t
      PROVE  /\ TimersOf(r, u)' = TimersOf(r, u)
             /\ u \in activeRetries'[r] <=> u \in activeRetries[r]
             /\ retryQueue'[r][u] = retryQueue[r][u]
  <2>1. TimersOf(r, u)' = TimersOf(r, u)
    BY <1>3, <1>5 DEF TimersOf
  <2> QED
    BY <1>1, <1>5, <2>1 DEF ForgetRetry
<1>6. t \notin activeRetries'[s]
  BY <1>1 DEF ForgetRetry
<1> QED
  BY <1>4, <1>5, <1>6 DEF OneRetryPerReplica

(* A replica that stops loses its retries and keeps those of the others.   *)
LEMMA RetriesStop ==
  ASSUME IInv, OneRetryPerReplica, NEW s \in Server, Stop(s)
  PROVE  OneRetryPerReplica'
<1>1. /\ activeRetries' = [activeRetries EXCEPT ![s] = {}]
      /\ retryQueue' = [retryQueue EXCEPT ![s] = [t \in Tx |-> None]]
      /\ timer' = [k \in Timer |-> IF timer[k].srv = s THEN NoTimer
                                                       ELSE timer[k]]
      /\ activeRetries \in [Server -> SUBSET Tx]
      /\ retryQueue \in [Server -> [Tx -> Timer \cup {None}]]
  BY DEF Stop, IInv, TypeOK
<1>2. \A t \in Tx : TimersOf(s, t)' = {} /\ t \notin activeRetries'[s]
  <2>1. NoTimer.pc = "free"
    BY DEF NoTimer
  <2> QED
    BY <1>1, <2>1 DEF TimersOf
<1>3. ASSUME NEW r \in Server, r # s, NEW t \in Tx
      PROVE  /\ TimersOf(r, t)' = TimersOf(r, t)
             /\ activeRetries'[r] = activeRetries[r]
             /\ retryQueue'[r][t] = retryQueue[r][t]
  <2>1. NoTimer.pc = "free"
    BY DEF NoTimer
  <2>2. TimersOf(r, t)' = TimersOf(r, t)
    BY <1>1, <1>3, <2>1 DEF TimersOf
  <2> QED
    BY <1>1, <1>3, <2>2
<1> QED
  BY <1>2, <1>3 DEF OneRetryPerReplica

(* No retry finds its hash gone from activeRetries, which only a           *)
(* cancelRetry (module RetryOperator) takes out before the retry ends.     *)
LEMMA NoReschedule ==
  ASSUME IInv, OneRetryPerReplica, NEW k \in Timer
  PROVE  ~RetrySavesAndReschedules(k)
<1> SUFFICES ASSUME RetrySavesAndReschedules(k)
             PROVE  FALSE
  OBVIOUS
<1>1. timer[k].pc = "save" /\ timer[k].tx \notin activeRetries[timer[k].srv]
  BY DEF RetrySavesAndReschedules
<1>2. k \in TimersOf(timer[k].srv, timer[k].tx)
  BY <1>1 DEF TimersOf
<1> QED
  BY <1>1, <1>2, TimerFacts DEF OneRetryPerReplica

LEMMA TimersMove ==
  ASSUME IInv, NEW k \in Timer, timer[k].pc # "free",
         NEW pc, pc # "free", NEW e,
         timer' = [timer EXCEPT ![k].pc = pc, ![k].ent = e]
  PROVE  \A j \in Timer : /\ timer'[j].pc = "free" <=> timer[j].pc = "free"
                          /\ timer'[j].srv = timer[j].srv
                          /\ timer'[j].tx = timer[j].tx
BY DEF IInv, TypeOK, TimerFrame

LEMMA OneRetryInductive ==
  IInv /\ OneRetryPerReplica /\ [Next]_vars => OneRetryPerReplica'
<1> SUFFICES ASSUME IInv, OneRetryPerReplica, [Next]_vars
             PROVE  OneRetryPerReplica'
  OBVIOUS
<1>1. CASE UNCHANGED <<activeRetries, retryQueue, timer>>
  BY <1>1, RetriesStay
<1>2. ASSUME NEW c \in Call, FindThenRetry(c)
      PROVE  OneRetryPerReplica'
  <2>1. /\ call[c].srv \in Server /\ call[c].tx \in Tx
        /\ call[c].tx \notin activeRetries[call[c].srv]
    BY <1>2, CallFacts DEF FindThenRetry, CallGood, Exists, IInv, TypeOK
  <2>2. PICK k \in Timer :
          StartTimer(call[c].srv, call[c].tx, k, FoundFailed(c))
    BY <1>2 DEF FindThenRetry
  <2> QED
    BY <2>1, <2>2, RetryStarts
<1>3. ASSUME NEW k \in Timer, TimerFires(k)
      PROVE  OneRetryPerReplica'
  <2>1. /\ timer[k].pc # "free" /\ UNCHANGED <<activeRetries, retryQueue>>
        /\ timer' = [timer EXCEPT ![k].pc = "horizon"]
    BY <1>3 DEF TimerFires, memory
  <2> QED
    BY <2>1, SameEntity, TimersMove, RetriesStay
<1>4. ASSUME NEW k \in Timer, RetryFails(k)
      PROVE  OneRetryPerReplica'
  <2>1. /\ timer[k].pc # "free" /\ UNCHANGED <<activeRetries, retryQueue>>
        /\ \E fatal \in BOOLEAN :
             timer' = [timer EXCEPT ![k].pc = "save",
                                    ![k].ent = Failed(timer[k].ent, fatal)]
    BY <1>4 DEF RetryFails, memory
  <2> QED
    BY <2>1, TimersMove, RetriesStay
<1>5. ASSUME NEW k \in Timer, RetrySaves(k) \/ RetryMarks(k) \/ RetryDbError(k)
      PROVE  OneRetryPerReplica'
  <2>1. /\ timer[k].pc # "free" /\ timer' = [timer EXCEPT ![k].pc = "free"]
        /\ ForgetRetry(timer[k].srv, timer[k].tx)
    BY <1>5 DEF RetrySaves, RetryMarks, RetryDbError
  <2> QED
    BY <2>1, RetryEndsAlone
<1>6. CASE \E k \in Timer : TimerFires(k) \/ ExecuteRetry(k)
  BY <1>3, <1>4, <1>5, <1>6, NoRetrySucceeds, NoReschedule DEF ExecuteRetry
<1>7. CASE \E c \in Call : Answers(c) \/ Update(c)
  BY <1>1, <1>2, <1>7
  DEF Answers, PollAnswered, PollNotFound, PollFails, Update, FindThenSave,
      FindThenGiveUp, MarkRetrying, Save, RecordLedger, memory
<1>8. CASE DbError
  BY <1>1, <1>5, <1>8, NoRetrySucceeds
  DEF DbError, CallDbError, PollDbError, memory
<1>9. CASE Replica
  BY <1>1, <1>9, RetriesStop DEF Replica, LoadPendingTransactions
<1>10. CASE \/ Environment \/ Api \/ Intervals
            \/ \E s \in Server, c \in Call : Sweep(s, c)
  BY <1>1, <1>10
  DEF Environment, LedgerDecides, FiveMinutesPass, Api, CreateTransaction,
      Intervals, PollStops, PollAsks, Sweep, Sweeps, memory
<1> QED
  BY <1>1, <1>6, <1>7, <1>8, <1>9, <1>10 DEF Next, vars

(* A replica runs one retry of a hash at a time, and activeRetries says    *)
(* exactly which, although polls, retries, failing writes and stops        *)
(* interleave: no way out of executeRetry forgets the hash or frees it     *)
(* while a timer still works on it.                                        *)
THEOREM OneRetryAtATime == Spec => []OneRetryPerReplica
<1>1. Init => OneRetryPerReplica
  BY DEF Init, OneRetryPerReplica, TimersOf, NoTimer
<1> QED
  BY <1>1, OneRetryInductive, Inductive, PTL DEF Spec

-----------------------------------------------------------------------------
(* A PENDING row is watched: PendingIsWatched is inductive beside IInv.    *)

Watched(t) == \/ \E s \in up : t \in monitoredTransactions[s]
              \/ \E c \in Call : Deciding(c, t)

(* What a step has to leave in place.  A row that becomes PENDING needs a  *)
(* poll; of the others the interval or the deciding call must survive.     *)
LEMMA WatchKept ==
  ASSUME PendingIsWatched, up' = up, faults.db <= faults'.db,
         faults.db \in Nat, faults'.db \in Nat,
         \A t \in Tx : Pending(t)' =>
           \/ Pending(t) /\ (Watched(t) => Watched(t)')
           \/ \E s \in up' : t \in monitoredTransactions'[s]
  PROVE  PendingIsWatched'
<1> SUFFICES ASSUME NEW t \in Tx, Pending(t)', up' = Server, faults'.db = 0
             PROVE  Watched(t)'
  BY DEF PendingIsWatched, Watched
<1>1. faults.db = 0
  OBVIOUS
<1>2. Pending(t) => Watched(t)
  BY <1>1 DEF PendingIsWatched, Watched
<1> QED
  BY <1>2 DEF Watched

(* A call c that takes a step: the frames of the others stay, and c is     *)
(* still deciding, or has written a status that is not PENDING.            *)
LEMMA CallWatches ==
  ASSUME IInv, PendingIsWatched, NEW c \in Call,
         UNCHANGED <<up, monitoredTransactions>>,
         faults' = faults \/ CountDbError,
         \A d \in Call \ {c} : call'[d] = call[d],
         \A t \in Tx : Pending(t)' => Pending(t),
         \A t \in Tx : Pending(t)' /\ Deciding(c, t) => Deciding(c, t)'
  PROVE  PendingIsWatched'
<1>1. faults.db \in Nat /\ faults'.db \in Nat /\ faults.db <= faults'.db
  BY DEF IInv, TypeOK, CountDbError
<1>2. ASSUME NEW t \in Tx, Pending(t)', Watched(t)
      PROVE  Watched(t)'
  BY <1>2 DEF Watched, Deciding
<1> QED
  BY <1>1, <1>2, WatchKept

(* A step that ends without an answer of the database: nothing is          *)
(* promised any more.                                                      *)
LEMMA ErrorExcuses ==
  ASSUME IInv, CountDbError
  PROVE  PendingIsWatched'
<1>1. faults'.db = faults.db + 1 /\ faults.db \in Nat
  BY DEF IInv, TypeOK, CountDbError
<1> QED
  BY <1>1 DEF PendingIsWatched

(* Steps that change neither who polls, nor a deciding call, and that      *)
(* write a row only to take it out of PENDING.                             *)
LEMMA WatchStays ==
  ASSUME IInv, PendingIsWatched, UNCHANGED <<up, monitoredTransactions, call>>,
         faults' = faults,
         \A t \in Tx : Pending(t)' => Pending(t)
  PROVE  PendingIsWatched'
<1>1. faults.db \in Nat /\ faults'.db \in Nat /\ faults.db <= faults'.db
  BY DEF IInv, TypeOK
<1>2. \A t \in Tx : Watched(t) => Watched(t)'
  BY DEF Watched, Deciding
<1> QED
  BY <1>1, <1>2, WatchKept

(* The status a retry writes is never PENDING.                             *)
LEMMA RetryWritesNoPending ==
  ASSUME IInv, NEW k \in Timer,
         RetrySaves(k) \/ RetrySavesAndReschedules(k) \/ RetryMarks(k)
  PROVE  \A t \in Tx : Pending(t)' => Pending(t)
<1>1. /\ timer[k].tx \in Tx /\ timer[k].ent.status # "pending"
      /\ row \in [Tx -> Row]
  BY TimerFacts
  DEF RetrySaves, RetrySavesAndReschedules, RetryMarks, RetryEntityOf, IInv, TypeOK
<1>2. CASE row' = [row EXCEPT ![timer[k].tx] = timer[k].ent]
  BY <1>1, <1>2 DEF Pending
<1>3. CASE RetryMarks(k)
  <2>1. Marked(timer[k].tx, timer[k].ent).status = "retrying"
    BY <1>1 DEF Marked, Row
  <2> QED
    BY <1>1, <1>3, <2>1 DEF RetryMarks, Pending
<1> QED
  BY <1>2, <1>3 DEF RetrySaves, RetrySavesAndReschedules

LEMMA FindWatches ==
  ASSUME IInv, PendingIsWatched, NEW c \in Call,
         FindThenSave(c) \/ FindThenRetry(c) \/ FindThenGiveUp(c)
  PROVE  PendingIsWatched'
<1> DEFINE s == call[c].srv
           t == call[c].tx
<1>1. /\ call[c].pc = "find" /\ t \in Tx /\ call[c] \in CallFrame
      /\ s \in Server /\ monitoredTransactions \in [Server -> SUBSET Tx]
      /\ call \in [Call -> CallFrame]
      /\ faults.db \in Nat
  BY SMTT(30), CallFacts
  DEF FindThenSave, FindThenRetry, FindThenGiveUp, CallGood, Exists, IInv, TypeOK
<1>2. /\ UNCHANGED <<row, up, faults>>
      /\ \/ UNCHANGED monitoredTransactions
         \/ StopMonitoring(s, t)
  BY DEF FindThenSave, FindThenRetry, FindThenGiveUp
<1>3. /\ call'[c].pc \in {"mark", "save"} /\ call'[c].tx = t
      /\ \A d \in Call : d = c \/ call'[d] = call[d]
  BY <1>1 DEF FindThenSave, FindThenRetry, FindThenGiveUp, CallFrame
<1>4. \A r \in Server, u \in Tx : u # t /\ u \in monitoredTransactions[r]
                                     => u \in monitoredTransactions'[r]
  BY <1>1, <1>2 DEF StopMonitoring
<1>5. up \subseteq Server
  BY DEF IInv, TypeOK
<1>6. ASSUME NEW u \in Tx, Watched(u)
      PROVE  Watched(u)'
  <2>1. CASE u = t
    BY <1>3, <2>1 DEF Watched, Deciding
  <2>2. CASE \E r \in up : u # t /\ u \in monitoredTransactions[r]
    BY <1>2, <1>4, <1>5, <2>2 DEF Watched
  <2>3. CASE \E d \in Call : Deciding(d, u) /\ u # t
    BY <1>3, <2>3 DEF Watched, Deciding
  <2> QED
    BY <1>6, <2>1, <2>2, <2>3 DEF Watched
<1>7. \A u \in Tx : Pending(u)' => Pending(u)
  BY <1>2 DEF Pending
<1> QED
  BY <1>1, <1>2, <1>6, <1>7, WatchKept

LEMMA WriteWatches ==
  ASSUME IInv, PendingIsWatched, NEW c \in Call,
         MarkRetrying(c) \/ Save(c) \/ RecordLedger(c)
  PROVE  PendingIsWatched'
<1> DEFINE t == call[c].tx
<1>1. /\ t \in Tx /\ call[c] \in CallFrame /\ row \in [Tx -> Row]
      /\ call \in [Call -> CallFrame]
      /\ UNCHANGED <<up, monitoredTransactions, faults>>
  BY CallFacts
  DEF MarkRetrying, Save, RecordLedger, CallGood, Exists, IInv, TypeOK, memory
<1>2. \A d \in Call \ {c} : call'[d] = call[d]
  BY <1>1 DEF MarkRetrying, Save, RecordLedger
<1>3. CASE MarkRetrying(c)
  <2>1. Marked(t, call[c].ent).status = "retrying"
    BY <1>1 DEF Marked, Row
  <2>2. \A u \in Tx : Pending(u)' => Pending(u)
    BY <1>1, <1>3, <2>1 DEF MarkRetrying, Pending
  <2>3. \A u \in Tx : Deciding(c, u) => Deciding(c, u)'
    BY <1>1, <1>3 DEF MarkRetrying, Deciding, CallFrame
  <2> QED
    BY <1>1, <1>2, <2>2, <2>3, CallWatches
<1>4. CASE Save(c)
  <2>1. row' = [row EXCEPT ![t] = Held(c)] /\ Held(c).status # "pending"
    BY <1>4, HeldRow DEF Save
  <2>2. \A u \in Tx : Pending(u)' => Pending(u) /\ u # t
    BY <1>1, <2>1 DEF Pending
  <2>3. \A u \in Tx : Deciding(c, u) => u = t
    BY DEF Deciding
  <2> QED
    BY <1>1, <1>2, <2>2, <2>3, CallWatches
<1>5. CASE RecordLedger(c)
  <2>1. \A u \in Tx : Pending(u)' => Pending(u)
    BY <1>1, <1>5 DEF RecordLedger, Pending, Row
  <2>2. \A u \in Tx : ~Deciding(c, u)
    BY <1>5 DEF RecordLedger, Deciding
  <2> QED
    BY <1>1, <1>2, <2>1, <2>2, CallWatches
<1> QED
  BY <1>3, <1>4, <1>5

(* Polls, answers and sweeps work on frames that decide nothing yet.       *)
LEMMA AskWatches ==
  ASSUME IInv, PendingIsWatched, NEW c \in Call,
         \/ Answers(c)
         \/ \E s \in Server : Sweep(s, c)
         \/ \E s \in Server, t \in Tx : PollAsks(s, t, c)
  PROVE  PendingIsWatched'
<1>1. /\ call[c].pc \notin {"mark", "save"}
      /\ UNCHANGED <<row, up, monitoredTransactions, faults>>
      /\ \A d \in Call \ {c} : call'[d] = call[d]
  BY DEF Answers, PollAnswered, PollNotFound, PollFails, Sweep, Sweeps, PollAsks,
         memory, IInv, TypeOK
<1>2. /\ \A t \in Tx : Pending(t)' => Pending(t)
      /\ \A t \in Tx : ~Deciding(c, t)
  BY <1>1 DEF Pending, Deciding
<1> QED
  BY <1>1, <1>2, CallWatches

LEMMA MonitorsWatch ==
  ASSUME IInv, PendingIsWatched, NEW s \in Server,
         \/ LoadPendingTransactions(s) \/ Stop(s)
         \/ \E t \in Tx : PollStops(s, t) \/ CreateTransaction(s, t)
  PROVE  PendingIsWatched'
<1>1. /\ monitoredTransactions \in [Server -> SUBSET Tx] /\ up \subseteq Server
      /\ row \in [Tx -> Row] /\ faults.db \in Nat
  BY DEF IInv, TypeOK
<1>2. CASE LoadPendingTransactions(s)
  <2>1. s \in up' /\ \A t \in Tx : Pending(t)' => t \in monitoredTransactions'[s]
    BY <1>1, <1>2 DEF LoadPendingTransactions, Pending
  <2> QED
    BY <2>1 DEF PendingIsWatched
<1>3. CASE Stop(s)
  BY <1>3 DEF Stop, PendingIsWatched
<1>4. ASSUME NEW t \in Tx, PollStops(s, t)
      PROVE  PendingIsWatched'
  <2>1. \A u \in Tx, r \in Server : Pending(u) /\ u \in monitoredTransactions[r]
                                     => u \in monitoredTransactions'[r]
    BY <1>1, <1>4 DEF PollStops
  <2>2. \A u \in Tx : Pending(u) /\ Watched(u) => Watched(u)'
    BY <1>1, <1>4, <2>1 DEF PollStops, Watched, Deciding
  <2>3. UNCHANGED <<row, up, faults>>
    BY <1>4 DEF PollStops
  <2> QED
    BY <1>1, <2>2, <2>3, WatchKept DEF Pending
<1>5. ASSUME NEW t \in Tx, CreateTransaction(s, t)
      PROVE  PendingIsWatched'
  <2>1. /\ UNCHANGED <<up, call, faults>> /\ s \in up
        /\ t \in monitoredTransactions'[s]
        /\ \A u \in Tx : u = t \/ row'[u] = row[u]
        /\ \A r \in Server : monitoredTransactions[r] \subseteq monitoredTransactions'[r]
    BY <1>1, <1>5 DEF CreateTransaction
  <2>2. \A u \in Tx : Watched(u) => Watched(u)'
    BY <1>1, <2>1 DEF Watched, Deciding
  <2>3. \A u \in Tx : Pending(u)' => Pending(u) \/ u = t
    BY <2>1 DEF Pending
  <2> QED
    BY <1>1, <2>1, <2>2, <2>3, WatchKept
<1> QED
  BY <1>2, <1>3, <1>4, <1>5

LEMMA WatchedInductive ==
  IInv /\ PendingIsWatched /\ [Next]_vars => PendingIsWatched'
<1> SUFFICES ASSUME IInv, PendingIsWatched, [Next]_vars
             PROVE  PendingIsWatched'
  OBVIOUS
<1>1. CASE \E t \in Tx : LedgerDecides(t) \/ FiveMinutesPass(t)
  BY <1>1, WatchStays DEF LedgerDecides, FiveMinutesPass, memory, Pending
<1>2. CASE Api \/ Intervals \/ Replica
  BY <1>2, MonitorsWatch, AskWatches DEF Api, Intervals, Replica
<1>3. CASE \/ \E c \in Call : Answers(c) \/ Update(c)
           \/ \E s \in Server, c \in Call : Sweep(s, c)
  BY <1>3, AskWatches, FindWatches, WriteWatches DEF Update
<1>4. ASSUME NEW k \in Timer, TimerFires(k) \/ RetryFails(k)
      PROVE  PendingIsWatched'
  BY <1>4, WatchStays DEF TimerFires, RetryFails, memory, Pending
<1>5. ASSUME NEW k \in Timer,
             RetrySaves(k) \/ RetrySavesAndReschedules(k) \/ RetryMarks(k)
      PROVE  PendingIsWatched'
  BY <1>5, RetryWritesNoPending, WatchStays
  DEF RetrySaves, RetrySavesAndReschedules, RetryMarks
<1>6. CASE \E k \in Timer : TimerFires(k) \/ ExecuteRetry(k)
  BY <1>4, <1>5, <1>6, NoRetrySucceeds DEF ExecuteRetry
<1>7. CASE DbError
  BY <1>7, ErrorExcuses
  DEF DbError, CallDbError, PollDbError, ConfirmDbError, RetryDbError
<1>8. CASE UNCHANGED vars
  BY <1>8, WatchStays DEF vars, Pending
<1> QED
  BY <1>1, <1>2, <1>3, <1>6, <1>7, <1>8 DEF Next, Environment

(* No PENDING row is orphaned: while every replica runs and the database   *)
(* has answered, one of them polls it or a call is about to save its       *)
(* status, whatever replicas stopped, started and read in between.         *)
THEOREM PendingNeverOrphaned == Spec => []PendingIsWatched
<1>1. Init => PendingIsWatched
  BY DEF Init, PendingIsWatched, Pending, Absent
<1> QED
  BY <1>1, WatchedInductive, Inductive, PTL DEF Spec
=============================================================================
