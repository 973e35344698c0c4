------------------------ MODULE RetryOperatorProofs ------------------------
(***************************************************************************)
(* Theorems about RetryOperator, for any sets of replicas, transactions,   *)
(* slots and limits.  The invariant IInv of TxMonitorProofs does not hold  *)
(* here: an operator retries a transaction that the network accepted, and  *)
(* an entity no longer has the limit of its row.  OpInv replaces it; it    *)
(* compares an entity with the limits that clients may ask for, which no   *)
(* step changes, and follows the handles of retryQueue to their timers.    *)
(***************************************************************************)
EXTENDS RetryOperator, TLAPS

\* An entity that was read from a row, whatever it has become since: its limit
\* and the attempts it counts are within what clients ask for.
Counted(e) == /\ e \in Row /\ e.status # "absent"
              /\ e.maxRetries \in RetryLimit
              /\ \E n \in RetryLimit : e.retryCount <= n

\* One that a retry works on, and one that has an attempt left.
Retriable(e) == Counted(e) /\ e.status \in {"failed", "retrying", "timeout"}

Attemptable(e) == Retriable(e) /\ e.retryCount < e.maxRetries

Present(t, R) == t \in Tx /\ R[t].status # "absent"

\* A poll or a sweep, and the object it shares with the timer it has set.
MonitorCall(f, R, L) ==
  /\ f.pc \in {"find", "mark", "save", "ledger"} =>
       /\ f.to \in {"confirmed", "failed", "timeout"}
       /\ f.to = "confirmed" => L[f.tx] = "success"
  /\ f.pc \in {"mark", "save"} => Counted(f.ent) /\ f.ent.status = f.to
  /\ f.pc = "mark" => f.ent.retryCount < f.ent.maxRetries
  /\ f.todo # {} => f.to = "timeout"
  /\ f.pc = "horizon" => f.todo = {}
  /\ f.obj # None => f.pc \in {"mark", "save"} /\ f.to = "failed"

\* A call of an operator.
OperatorCall(f) ==
  /\ f.pc = "cancelThenRetry" => Retriable(f.ents[f.tx])
  /\ f.pc = "schedule" => /\ Attemptable(f.ents[f.tx])
                          /\ \A t \in f.todo : Retriable(f.ents[t])

Sharing(f, T) == f.obj # None => T[f.obj].srv = f.srv /\ Retriable(T[f.obj].ent)

OpCallGood(f, R, L, U) ==
  /\ f.pc # "free" => f.srv \in U /\ Present(f.tx, R)
  /\ \A t \in f.todo : Present(t, R)
  /\ f \in CallFrame => MonitorCall(f, R, L)
  /\ f \in OpFrame => OperatorCall(f)

OpTimerGood(g, R, L, U) ==
  g.pc # "free" =>
    /\ g.srv \in U /\ Present(g.tx, R) /\ Retriable(g.ent)
    /\ g.pc # "save" => g.ent.retryCount < g.ent.maxRetries
    /\ g.ent.status = "retrying" => g.ent.retryCount < g.ent.maxRetries
    /\ g.pc = "confirm" => L[g.tx] = "success"

OpRowGood(r, v) == /\ r.status # "absent" => Counted(r)
                   /\ r.status = "confirmed" => v = "success"

OpTypes ==
  /\ ledger \in [Tx -> Verdict] /\ row \in [Tx -> Row]
  /\ aged \subseteq Tx /\ up \subseteq Server
  /\ retryQueue \in [Server -> [Tx -> Timer \cup {None}]]
  /\ call \in [Call -> CallFrame \cup OpFrame]
  /\ timer \in [Timer -> TimerFrame]

OpRows   == /\ \A t \in Tx : OpRowGood(row[t], ledger[t])
            /\ \A t \in aged : row[t].status # "absent"
OpCalls  == \A c \in Call : /\ OpCallGood(call[c], row, ledger, up)
                            /\ Sharing(call[c], timer)
OpTimers == \A k \in Timer : OpTimerGood(timer[k], row, ledger, up)

OpInv == OpTypes /\ OpRows /\ OpCalls /\ OpTimers /\ HandleIsLive

-----------------------------------------------------------------------------
(* No step undoes a success or deletes a row.                              *)
OpEvolves(R, L, RR, LL) ==
  \A t \in Tx : /\ L[t] = "success" => LL[t] = "success"
                /\ R[t].status # "absent" => RR[t].status # "absent"

(* A call and a timer that a step leaves alone stay good.                  *)
LEMMA OpCallKept ==
  ASSUME NEW R, NEW L, NEW U, NEW RR, NEW LL, NEW UU, OpEvolves(R, L, RR, LL),
         NEW f, OpCallGood(f, R, L, U), f.pc # "free" => f.srv \in UU
  PROVE  OpCallGood(f, RR, LL, UU)
BY DEF OpEvolves, OpCallGood, Present, MonitorCall

LEMMA OpTimerKept ==
  ASSUME NEW R, NEW L, NEW U, NEW RR, NEW LL, NEW UU, OpEvolves(R, L, RR, LL),
         NEW g, OpTimerGood(g, R, L, U), g.pc # "free" => g.srv \in UU
  PROVE  OpTimerGood(g, RR, LL, UU)
BY DEF OpEvolves, OpTimerGood, Present

LEMMA OpCallFacts ==
  ASSUME OpInv, NEW c \in Call
  PROVE  /\ call[c] \in CallFrame \cup OpFrame
         /\ OpCallGood(call[c], row, ledger, up) /\ Sharing(call[c], timer)
         /\ call[c].obj \in Timer \cup {None}
         /\ call[c].todo \subseteq Tx
BY DEF OpInv, OpTypes, OpCalls, CallFrame, OpFrame

\* Its pc tells a call of the monitor from one of an operator.
LEMMA KindOfCall ==
  ASSUME OpInv, NEW c \in Call
  PROVE  /\ call[c].pc \in {"horizon", "find", "mark", "save", "ledger"} =>
              /\ call[c] \in CallFrame /\ MonitorCall(call[c], row, ledger)
              /\ call[c].srv \in Server /\ call[c].srv \in up
              /\ Present(call[c].tx, row)
         /\ call[c].pc \in {"cancel", "cancelThenRetry", "schedule"} =>
              /\ call[c] \in OpFrame /\ OperatorCall(call[c])
              /\ call[c].srv \in Server /\ call[c].srv \in up
              /\ Present(call[c].tx, row)
<1>1. /\ call[c] \in CallFrame => call[c].pc \in {"free", "horizon", "find",
                                                  "mark", "save", "ledger"}
      /\ call[c] \in OpFrame => call[c].pc \in {"cancel", "cancelThenRetry",
                                                "schedule"}
  BY DEF CallFrame, OpFrame
<1>2. up \subseteq Server
  BY DEF OpInv, OpTypes
<1> QED
  BY <1>1, <1>2, OpCallFacts DEF OpCallGood

LEMMA OpTimerFacts ==
  ASSUME OpInv, NEW k \in Timer
  PROVE  /\ timer[k] \in TimerFrame
         /\ OpTimerGood(timer[k], row, ledger, up)
         /\ timer[k].pc # "free" => /\ timer[k].srv \in Server /\ timer[k].srv \in up
                                    /\ Present(timer[k].tx, row) /\ timer[k].tx \in Tx
                                    /\ Retriable(timer[k].ent)
BY DEF OpInv, OpTypes, OpTimers, OpTimerGood, Present

(* A step keeps OpInv if the frames it changes are good again, and if it   *)
(* changes the timer that a call shares only as a retry does.              *)
SharedStill(k) == /\ timer'[k].srv = timer[k].srv
                  /\ Retriable(timer'[k].ent)

LEMMA OpStepKeeps ==
  ASSUME OpInv, OpTypes', OpRows', HandleIsLive',
         OpEvolves(row, ledger, row', ledger'), up \subseteq up',
         \A c \in Call : \/ call'[c] = call[c]
                        \/ /\ OpCallGood(call'[c], row', ledger', up')
                           /\ Sharing(call'[c], timer'),
         \A k \in Timer : \/ timer'[k] = timer[k]
                         \/ OpTimerGood(timer'[k], row', ledger', up'),
         \A k \in Timer : \/ timer'[k] = timer[k]
                         \/ \A c \in Call : call[c].obj # k
                         \/ SharedStill(k)
  PROVE  OpInv'
<1>1. ASSUME NEW c \in Call, call'[c] = call[c]
      PROVE  OpCallGood(call'[c], row', ledger', up') /\ Sharing(call'[c], timer')
  <2>1. call[c].pc # "free" => call[c].srv \in up'
    BY OpCallFacts DEF OpCallGood
  <2>2. OpCallGood(call'[c], row', ledger', up')
    BY <1>1, <2>1, OpCallFacts, OpCallKept
  <2>3. Sharing(call[c], timer) /\ call[c].obj \in Timer \cup {None}
    BY OpCallFacts
  <2>4. CASE call[c].obj = None
    BY <1>1, <2>2, <2>4 DEF Sharing
  <2>5. CASE call[c].obj # None
    <3>1. \/ timer'[call[c].obj] = timer[call[c].obj]
          \/ SharedStill(call[c].obj)
      BY <2>3, <2>5
    <3>2. Sharing(call[c], timer')
      BY <2>3, <2>5, <3>1 DEF Sharing, SharedStill
    <3> QED
      BY <1>1, <2>2, <3>2
  <2> QED
    BY <2>4, <2>5
<1>2. ASSUME NEW k \in Timer, timer'[k] = timer[k]
      PROVE  OpTimerGood(timer'[k], row', ledger', up')
  <2>1. timer[k].pc # "free" => timer[k].srv \in up'
    BY OpTimerFacts
  <2> QED
    BY <1>2, <2>1, OpTimerFacts, OpTimerKept
<1> QED
  BY <1>1, <1>2 DEF OpInv, OpCalls, OpTimers

-----------------------------------------------------------------------------
(* The handles.                                                            *)
\* retryQueue stays and no timer ends or changes its transaction.
LEMMA HandlesStay ==
  ASSUME OpInv, UNCHANGED retryQueue,
         \A k \in Timer : timer[k].pc # "free" =>
           /\ timer'[k].pc # "free"
           /\ timer'[k].srv = timer[k].srv /\ timer'[k].tx = timer[k].tx
  PROVE  HandleIsLive'
BY DEF OpInv, HandleIsLive, TimersOf

\* The handle of one retry is deleted; only timers of that retry may end.
LEMMA HandleForgotten ==
  ASSUME OpInv, NEW s \in Server, NEW t \in Tx,
         retryQueue' = [retryQueue EXCEPT ![s][t] = None],
         \A k \in Timer : timer[k].pc # "free" =>
           \/ timer[k].srv = s /\ timer[k].tx = t
           \/ timer'[k] = timer[k]
  PROVE  /\ HandleIsLive'
         /\ retryQueue' \in [Server -> [Tx -> Timer \cup {None}]]
<1>1. /\ retryQueue \in [Server -> [Tx -> Timer \cup {None}]]
      /\ retryQueue' \in [Server -> [Tx -> Timer \cup {None}]]
      /\ retryQueue'[s][t] = None
      /\ \A q \in Server, u \in Tx : \/ q = s /\ u = t
                                     \/ retryQueue'[q][u] = retryQueue[q][u]
  BY DEF OpInv, OpTypes
<1>2. HandleIsLive
  BY DEF OpInv
<1>3. ASSUME NEW q \in Server, NEW u \in Tx, retryQueue'[q][u] # None
      PROVE  retryQueue'[q][u] \in TimersOf(q, u)'
  <2>1. /\ retryQueue'[q][u] = retryQueue[q][u]
        /\ q # s \/ u # t
    BY <1>1, <1>3
  <2>2. retryQueue[q][u] \in TimersOf(q, u)
    BY <1>2, <1>3, <2>1 DEF HandleIsLive
  <2>3. PICK k \in Timer : /\ k = retryQueue[q][u] /\ timer[k].pc # "free"
                           /\ timer[k].srv = q /\ timer[k].tx = u
    BY <2>2 DEF TimersOf
  <2>4. timer'[k] = timer[k]
    BY <2>1, <2>3
  <2> QED
    BY <2>1, <2>3, <2>4 DEF TimersOf
<1> QED
  BY <1>1, <1>3 DEF HandleIsLive

\* A timer that was free is set for a retry; no other timer ends.
LEMMA HandleSet ==
  ASSUME OpInv, NEW s \in Server, NEW t \in Tx, NEW k \in Timer,
         timer[k].pc = "free",
         retryQueue' = [retryQueue EXCEPT ![s][t] = k],
         timer'[k].pc # "free", timer'[k].srv = s, timer'[k].tx = t,
         \A j \in Timer : timer[j].pc # "free" =>
           /\ timer'[j].pc # "free"
           /\ timer'[j].srv = timer[j].srv /\ timer'[j].tx = timer[j].tx
  PROVE  /\ HandleIsLive'
         /\ retryQueue' \in [Server -> [Tx -> Timer \cup {None}]]
<1>1. /\ retryQueue' \in [Server -> [Tx -> Timer \cup {None}]]
      /\ retryQueue'[s][t] = k
      /\ \A q \in Server, u \in Tx : \/ q = s /\ u = t
                                     \/ retryQueue'[q][u] = retryQueue[q][u]
  BY DEF OpInv, OpTypes
<1>2. HandleIsLive
  BY DEF OpInv
<1>3. ASSUME NEW q \in Server, NEW u \in Tx, retryQueue'[q][u] # None
      PROVE  retryQueue'[q][u] \in TimersOf(q, u)'
  <2>1. CASE q = s /\ u = t
    BY <1>1, <2>1 DEF TimersOf
  <2>2. CASE ~(q = s /\ u = t)
    <3>1. retryQueue'[q][u] = retryQueue[q][u]
      BY <1>1, <2>2
    <3>2. retryQueue[q][u] \in TimersOf(q, u)
      BY <1>2, <1>3, <3>1 DEF HandleIsLive
    <3> QED
      BY <3>1, <3>2 DEF TimersOf
  <2> QED
    BY <2>1, <2>2
<1> QED
  BY <1>1, <1>3 DEF HandleIsLive


-----------------------------------------------------------------------------
(* What a step does to the rows, to one call and to one timer.             *)
RowsFine == /\ row' \in [Tx -> Row] /\ OpRows'
            /\ OpEvolves(row, ledger, row', ledger')

LEMMA RowsStay ==
  ASSUME OpInv, UNCHANGED <<ledger, row, aged>>
  PROVE  RowsFine
BY DEF OpInv, OpTypes, OpRows, OpEvolves, RowsFine

LEMMA RowWritten ==
  ASSUME OpInv, NEW t \in Tx, NEW r, Counted(r),
         r.status = "confirmed" => ledger[t] = "success",
         row' = [row EXCEPT ![t] = r], UNCHANGED <<ledger, aged>>
  PROVE  RowsFine
<1>1. row \in [Tx -> Row] /\ aged \subseteq Tx /\ r \in Row /\ r.status # "absent"
  BY DEF OpInv, OpTypes, Counted
<1>2. row'[t] = r /\ \A u \in Tx : u = t \/ row'[u] = row[u]
  BY <1>1
<1>3. row' \in [Tx -> Row]
  BY <1>1
<1>4. OpRows'
  BY <1>1, <1>2 DEF OpInv, OpRows, OpRowGood
<1>5. OpEvolves(row, ledger, row', ledger')
  BY <1>1, <1>2 DEF OpEvolves
<1> QED
  BY <1>3, <1>4, <1>5 DEF RowsFine

LEMMA OpCallStep ==
  ASSUME OpInv, NEW c \in Call, RowsFine,
         UNCHANGED <<aged, up, retryQueue, timer>>,
         NEW f \in CallFrame \cup OpFrame, call' = [call EXCEPT ![c] = f],
         OpCallGood(f, row, ledger, up), Sharing(f, timer),
         ledger' \in [Tx -> Verdict]
  PROVE  OpInv'
<1>1. /\ call'[c] = f /\ \A d \in Call : d = c \/ call'[d] = call[d]
      /\ call' \in [Call -> CallFrame \cup OpFrame]
  BY DEF OpInv, OpTypes
<1>2. OpTypes'
  BY <1>1 DEF OpInv, OpTypes, RowsFine
<1>3. HandleIsLive'
  BY HandlesStay
<1>4. f.pc # "free" => f.srv \in up'
  BY DEF OpCallGood
<1>5. OpCallGood(f, row', ledger', up')
  BY <1>4, OpCallKept DEF RowsFine
<1> QED
  BY <1>1, <1>2, <1>3, <1>5, OpStepKeeps DEF RowsFine

LEMMA OpTimerStep ==
  ASSUME OpInv, NEW k \in Timer, timer[k].pc # "free", RowsFine,
         UNCHANGED <<ledger, aged, up, call>>,
         NEW pc \in {"free", "asleep", "horizon", "confirm", "save", "mark"},
         NEW e, Retriable(e),
         timer' = [timer EXCEPT ![k].pc = pc, ![k].ent = e],
         pc \notin {"free", "save"} => e.retryCount < e.maxRetries,
         pc # "free" => \/ e.status # "retrying"
                        \/ e.retryCount < e.maxRetries,
         pc = "confirm" => ledger[timer[k].tx] = "success",
         HandleIsLive',
         retryQueue' \in [Server -> [Tx -> Timer \cup {None}]]
  PROVE  OpInv'
<1>1. e \in Row /\ timer \in [Timer -> TimerFrame] /\ timer[k] \in TimerFrame
  BY DEF Retriable, Counted, OpInv, OpTypes
<1>2. PICK g : g = [timer[k] EXCEPT !.pc = pc, !.ent = e]
  OBVIOUS
<1>3. /\ g \in TimerFrame /\ g.pc = pc /\ g.ent = e
      /\ g.srv = timer[k].srv /\ g.tx = timer[k].tx
  BY <1>1, <1>2 DEF TimerFrame
<1>4. /\ timer'[k] = g /\ \A j \in Timer : j = k \/ timer'[j] = timer[j]
      /\ timer' \in [Timer -> TimerFrame]
  BY <1>1, <1>2, <1>3
<1>5. OpTypes'
  BY <1>4 DEF OpInv, OpTypes, RowsFine
<1>6. OpTimerGood(g, row, ledger, up)
  BY <1>3, OpTimerFacts DEF OpTimerGood
<1>7. OpTimerGood(g, row', ledger', up')
  BY ZenonT(60), <1>6, OpTimerKept DEF RowsFine, OpTimerGood
<1>8. SharedStill(k)
  BY <1>3, <1>4 DEF SharedStill
<1> QED
  BY <1>4, <1>5, <1>7, <1>8, OpStepKeeps DEF RowsFine

LEMMA OpTimerStarts ==
  ASSUME OpInv, NEW c \in Call, NEW s \in Server, s \in up, NEW t,
         Present(t, row), NEW k \in Timer, NEW e, Attemptable(e),
         StartTimer(s, t, k, e), RowsFine, UNCHANGED <<ledger, aged, up>>,
         NEW f \in CallFrame \cup OpFrame, call' = [call EXCEPT ![c] = f],
         OpCallGood(f, row, ledger, up),
         f.obj # None => f.obj = k /\ f.srv = s
  PROVE  OpInv'
<1> DEFINE g == [pc |-> "asleep", srv |-> s, tx |-> t, ent |-> e]
<1>1. /\ FreeTimer(k) /\ timer' = [timer EXCEPT ![k] = g]
      /\ retryQueue' = [retryQueue EXCEPT ![s][t] = k] /\ t \in Tx
  BY DEF StartTimer, Present
<1>2. /\ g \in TimerFrame /\ g.pc = "asleep" /\ g.srv = s /\ g.tx = t /\ g.ent = e
      /\ e \in Row /\ Retriable(e) /\ e.retryCount < e.maxRetries
  BY <1>1 DEF TimerFrame, Attemptable, Retriable, Counted
<1> HIDE DEF g
<1>3. /\ timer'[k] = g /\ \A j \in Timer : j = k \/ timer'[j] = timer[j]
      /\ timer' \in [Timer -> TimerFrame]
  BY <1>1, <1>2 DEF OpInv, OpTypes
<1>4. timer[k].pc = "free" /\ \A d \in Call : call[d].obj # k
  BY <1>1 DEF FreeTimer
<1>5. /\ HandleIsLive'
      /\ retryQueue' \in [Server -> [Tx -> Timer \cup {None}]]
  BY <1>1, <1>2, <1>3, <1>4, HandleSet
<1>6. /\ call'[c] = f /\ \A d \in Call : d = c \/ call'[d] = call[d]
      /\ call' \in [Call -> CallFrame \cup OpFrame]
  BY DEF OpInv, OpTypes
<1>7. OpTypes'
  BY <1>3, <1>5, <1>6 DEF OpInv, OpTypes, RowsFine
<1>8. OpTimerGood(g, row, ledger, up)
  BY <1>2 DEF OpTimerGood
<1>9. OpTimerGood(g, row', ledger', up')
  BY <1>8, OpTimerKept DEF RowsFine, OpTimerGood
<1>10. OpCallGood(f, row', ledger', up')
  <2>1. f.pc # "free" => f.srv \in up'
    BY DEF OpCallGood
  <2> QED
    BY <2>1, OpCallKept DEF RowsFine
<1>11. Sharing(f, timer')
  BY <1>2, <1>3 DEF Sharing
<1> QED
  BY <1>3, <1>4, <1>5, <1>6, <1>7, <1>9, <1>10, <1>11, OpStepKeeps DEF RowsFine

-----------------------------------------------------------------------------
(* Frames.                                                                 *)
LEMMA FreshFrames ==
  ASSUME NEW R, NEW L, NEW T, NEW U
  PROVE  /\ NoCall \in CallFrame /\ NoCall \notin OpFrame
         /\ OpCallGood(NoCall, R, L, U) /\ Sharing(NoCall, T)
<1>1. /\ NoCall \in CallFrame /\ NoCall.pc = "free" /\ NoCall.todo = {}
      /\ NoCall.obj = None
  BY DEF NoCall, NewCall, CallFrame, Absent, Row, TransactionStatus
<1>2. NoCall \notin OpFrame
  BY <1>1 DEF OpFrame
<1> QED
  BY <1>1, <1>2 DEF OpCallGood, MonitorCall, Sharing

LEMMA NewMonitorCall ==
  ASSUME NEW R, NEW L, NEW T, NEW U, NEW s \in Server, s \in U,
         NEW t, Present(t, R), NEW todo \in SUBSET Tx,
         \A u \in todo : Present(u, R),
         NEW f, \/ f = NewCall("find", s, t, "timeout", todo)
                \/ f = NewCall("horizon", s, t, "none", {})
  PROVE  f \in CallFrame /\ OpCallGood(f, R, L, U) /\ Sharing(f, T)
<1>1. s \in Server \cup {None} /\ t \in Tx \cup {None} /\ Absent \in Row
  BY DEF Present, Absent, Row, TransactionStatus
<1>2. CASE f = NewCall("find", s, t, "timeout", todo)
  <2>1. /\ f \in CallFrame /\ f.pc = "find" /\ f.srv = s /\ f.tx = t
        /\ f.obj = None /\ f.todo = todo /\ f.to = "timeout"
    BY <1>1, <1>2 DEF NewCall, CallFrame, TransactionStatus
  <2>2. f \notin OpFrame
    BY <2>1 DEF OpFrame
  <2> QED
    BY <2>1, <2>2 DEF OpCallGood, MonitorCall, Sharing
<1>3. CASE f = NewCall("horizon", s, t, "none", {})
  <2>1. /\ f \in CallFrame /\ f.pc = "horizon" /\ f.srv = s /\ f.tx = t
        /\ f.obj = None /\ f.todo = {}
    BY <1>1, <1>3 DEF NewCall, CallFrame
  <2>2. f \notin OpFrame
    BY <2>1 DEF OpFrame
  <2> QED
    BY <2>1, <2>2 DEF OpCallGood, MonitorCall, Sharing
<1> QED
  BY <1>2, <1>3

LEMMA NewOpCall ==
  ASSUME NEW R, NEW L, NEW T, NEW U, NEW s \in Server, s \in U,
         NEW t, Present(t, R), NEW todo \in SUBSET Tx,
         \A u \in todo : Present(u, R), NEW ents \in [Tx -> Row],
         NEW pc \in {"cancel", "cancelThenRetry", "schedule"},
         pc = "cancelThenRetry" => Retriable(ents[t]),
         pc = "schedule" => /\ Attemptable(ents[t])
                            /\ \A u \in todo : Retriable(ents[u])
  PROVE  LET f == NewOp(pc, s, t, ents, todo)
         IN f \in OpFrame /\ OpCallGood(f, R, L, U) /\ Sharing(f, T)
<1> DEFINE f == NewOp(pc, s, t, ents, todo)
<1>1. /\ f \in OpFrame /\ f.pc = pc /\ f.srv = s /\ f.tx = t /\ f.obj = None
      /\ f.ents = ents /\ f.todo = todo
  BY DEF NewOp, OpFrame, Present
<1> HIDE DEF f
<1>2. f \notin CallFrame
  BY <1>1 DEF CallFrame
<1>3. OpCallGood(f, R, L, U) /\ Sharing(f, T)
  BY <1>1, <1>2 DEF OpCallGood, OperatorCall, Sharing
<1> QED
  BY <1>1, <1>3 DEF f

\* Where a call of the monitor goes after its save.
LEMMA AfterSaveFrame ==
  ASSUME NEW R, NEW L, NEW T, NEW U, NEW f \in CallFrame, f.pc = "save",
         OpCallGood(f, R, L, U), NEW g \in AfterSave(f)
  PROVE  g \in CallFrame /\ OpCallGood(g, R, L, U) /\ Sharing(g, T)
<1>0. MonitorCall(f, R, L)
  BY DEF OpCallGood
<1>1. CASE f.to = "confirmed"
  <2>1. g = [f EXCEPT !.pc = "ledger"] /\ f.obj = None /\ f.todo = {}
    BY <1>0, <1>1 DEF AfterSave, MonitorCall
  <2>2. /\ g \in CallFrame /\ g.pc = "ledger" /\ g.srv = f.srv /\ g.tx = f.tx
        /\ g.to = f.to /\ g.obj = None /\ g.todo = {}
    BY <2>1 DEF CallFrame
  <2>3. g \notin OpFrame
    BY <2>2 DEF OpFrame
  <2> QED
    BY <1>0, <1>1, <2>2, <2>3 DEF OpCallGood, MonitorCall, Sharing
<1>2. CASE f.to # "confirmed" /\ f.todo = {}
  BY <1>2, FreshFrames DEF AfterSave
<1>3. CASE f.to # "confirmed" /\ f.todo # {}
  <2>1. PICK t \in f.todo : g = [f EXCEPT !.pc = "find", !.tx = t,
                                !.ent = Absent, !.todo = f.todo \ {t}]
    BY <1>3 DEF AfterSave
  <2>2. f.to = "timeout" /\ f.obj = None /\ t \in Tx /\ Present(t, R)
    BY <1>0, <1>3 DEF OpCallGood, MonitorCall, CallFrame
  <2>3. Absent \in Row
    BY DEF Absent, Row, TransactionStatus
  <2>4. /\ g \in CallFrame /\ g.pc = "find" /\ g.srv = f.srv /\ g.tx = t
        /\ g.to = f.to /\ g.obj = None /\ g.todo \subseteq f.todo
    BY <2>1, <2>2, <2>3 DEF CallFrame
  <2>5. g \notin OpFrame
    BY <2>4 DEF OpFrame
  <2> QED
    BY <1>0, <2>2, <2>4, <2>5 DEF OpCallGood, MonitorCall, Sharing
<1> QED
  BY <1>1, <1>2, <1>3

LEMMA CountedRow ==
  ASSUME OpInv, NEW t, Present(t, row)
  PROVE  t \in Tx /\ row[t] \in Row /\ Counted(row[t])
BY DEF OpInv, OpTypes, OpRows, OpRowGood, Present

\* An attempt fails.
LEMMA FailedAttempt ==
  ASSUME NEW e, Attemptable(e), NEW fatal \in BOOLEAN
  PROVE  /\ Retriable(Failed(e, fatal))
         /\ Failed(e, fatal).status = "retrying" =>
              Failed(e, fatal).retryCount < Failed(e, fatal).maxRetries
<1> DEFINE n == e.retryCount + 1
           next == IF n < e.maxRetries /\ ~fatal THEN "retrying" ELSE "failed"
<1>1. /\ e \in Row /\ e.retryCount \in Nat /\ e.maxRetries \in Nat
      /\ e.maxRetries \in RetryLimit /\ e.retryCount < e.maxRetries
  BY DEF Attemptable, Retriable, Counted, Row
<1>2. /\ n \in Nat /\ n <= e.maxRetries /\ next \in {"retrying", "failed"}
      /\ next = "retrying" => n < e.maxRetries
  BY <1>1
<1>3. Failed(e, fatal) = [e EXCEPT !.retryCount = n, !.fatal = fatal,
                                   !.status = next]
  BY DEF Failed
<1> HIDE DEF n, next
<1>4. /\ Failed(e, fatal) \in Row
      /\ Failed(e, fatal).retryCount = n /\ Failed(e, fatal).status = next
      /\ Failed(e, fatal).maxRetries = e.maxRetries
  BY <1>1, <1>2, <1>3 DEF Row, TransactionStatus
<1> QED
  BY <1>1, <1>2, <1>4 DEF Retriable, Counted

\* updateTransactionForRetry writes an attempt more.
LEMMA MarkedCounted ==
  ASSUME OpInv, NEW t, Present(t, row), NEW e, Counted(e),
         e.retryCount < e.maxRetries
  PROVE  Counted(Marked(t, e)) /\ Marked(t, e).status = "retrying"
<1>1. /\ e.retryCount + 1 \in Nat /\ e.retryCount + 1 <= e.maxRetries
      /\ e.maxRetries \in RetryLimit /\ row[t] \in Row
      /\ row[t].maxRetries \in RetryLimit
  BY CountedRow DEF Counted, Row
<1>2. /\ Marked(t, e) \in Row
      /\ Marked(t, e).status = "retrying"
      /\ Marked(t, e).retryCount = e.retryCount + 1
      /\ Marked(t, e).maxRetries = row[t].maxRetries
  BY <1>1 DEF Marked, Row, TransactionStatus
<1> QED
  BY <1>1, <1>2 DEF Counted


-----------------------------------------------------------------------------
(* The steps of the monitor.                                               *)
LEMMA FramesStay ==
  ASSUME OpInv, RowsFine, UNCHANGED <<retryQueue, call, timer>>,
         ledger' \in [Tx -> Verdict], aged' \subseteq Tx,
         up \subseteq up', up' \subseteq Server
  PROVE  OpInv'
<1>1. OpTypes'
  BY DEF OpInv, OpTypes, RowsFine
<1>2. HandleIsLive'
  BY HandlesStay
<1> QED
  BY <1>1, <1>2, OpStepKeeps DEF RowsFine

LEMMA OpEnvironmentKeeps ==
  ASSUME OpInv, NEW t \in Tx, LedgerDecides(t) \/ FiveMinutesPass(t)
  PROVE  OpInv'
<1>0. /\ ledger \in [Tx -> Verdict] /\ row \in [Tx -> Row] /\ aged \subseteq Tx
      /\ up \subseteq Server
  BY DEF OpInv, OpTypes
<1>1. CASE LedgerDecides(t)
  <2>1. PICK v \in Verdict : ledger' = [ledger EXCEPT ![t] = v]
    BY <1>1 DEF LedgerDecides
  <2>2. /\ ledger[t] = "unknown" /\ ledger' \in [Tx -> Verdict]
        /\ UNCHANGED <<row, aged, up, retryQueue, call, timer>>
        /\ \A u \in Tx : u = t \/ ledger'[u] = ledger[u]
    BY <1>0, <1>1, <2>1 DEF LedgerDecides, memory
  <2>3. RowsFine
    BY <1>0, <2>2 DEF OpInv, OpRows, OpRowGood, OpEvolves, RowsFine
  <2> QED
    BY <1>0, <2>2, <2>3, FramesStay
<1>2. CASE FiveMinutesPass(t)
  <2>1. /\ row[t].status # "absent" /\ aged' = aged \cup {t}
        /\ UNCHANGED <<ledger, row, up, retryQueue, call, timer>>
    BY <1>2 DEF FiveMinutesPass, memory
  <2>2. RowsFine
    BY <1>0, <2>1 DEF OpInv, OpRows, OpEvolves, RowsFine
  <2> QED
    BY <1>0, <2>1, <2>2, FramesStay
<1> QED
  BY <1>1, <1>2

LEMMA OpCreateKeeps ==
  ASSUME OpInv, NEW s \in Server, NEW t \in Tx, CreateTransaction(s, t)
  PROVE  OpInv'
<1>1. PICK limit \in RetryLimit : row' = [row EXCEPT ![t] = NewRow(limit)]
  BY DEF CreateTransaction
<1>2. limit \in Nat \ {0}
  BY LimitAssumption
<1>3. Absent \in Row /\ Absent.retryCount = 0
  BY DEF Absent, Row, TransactionStatus
<1>4. /\ NewRow(limit) \in Row /\ NewRow(limit).status = "pending"
      /\ NewRow(limit).retryCount = 0 /\ NewRow(limit).maxRetries = limit
  BY <1>2, <1>3 DEF NewRow, Row, TransactionStatus
<1>5. Counted(NewRow(limit))
  BY <1>2, <1>4 DEF Counted
<1>6. UNCHANGED <<ledger, aged, up, retryQueue, call, timer>>
  BY DEF CreateTransaction
<1>7. RowsFine
  BY <1>1, <1>4, <1>5, <1>6, RowWritten
<1> QED
  BY <1>6, <1>7, FramesStay DEF OpInv, OpTypes

LEMMA OpMonitorsKeep ==
  ASSUME OpInv, NEW s \in Server,
         LoadPendingTransactions(s) \/ \E t \in Tx : PollStops(s, t)
  PROVE  OpInv'
<1>1. /\ UNCHANGED <<ledger, row, aged, retryQueue, call, timer>>
      /\ up \subseteq up' /\ up' \subseteq Server
  BY DEF OpInv, OpTypes, LoadPendingTransactions, PollStops
<1>2. RowsFine
  BY <1>1, RowsStay
<1> QED
  BY <1>1, <1>2, FramesStay DEF OpInv, OpTypes

\* A step that changes nothing but one call.
LEMMA OneCallStep ==
  ASSUME OpInv, NEW c \in Call,
         UNCHANGED <<ledger, row, aged, up, retryQueue, timer>>,
         NEW f \in CallFrame \cup OpFrame, call' = [call EXCEPT ![c] = f],
         OpCallGood(f, row, ledger, up), Sharing(f, timer)
  PROVE  OpInv'
<1>1. RowsFine
  BY RowsStay
<1> QED
  BY <1>1, OpCallStep DEF OpInv, OpTypes

LEMMA OpBeginKeeps ==
  ASSUME OpInv, NEW s \in Server, NEW c \in Call,
         \/ Sweep(s, c)
         \/ \E t \in Tx : PollAsks(s, t, c) \/ PollDbError(s, t, c)
  PROVE  OpInv'
<1>1. CASE Sweep(s, c)
  <2> DEFINE old == {u \in aged : Pending(u)}
  <2>1. PICK t \in old :
          call' = [call EXCEPT ![c] = NewCall("find", s, t, "timeout", old \ {t})]
    BY <1>1 DEF Sweep, Sweeps
  <2>2. /\ s \in up /\ UNCHANGED <<ledger, row, aged, up, retryQueue, timer>>
    BY <1>1 DEF Sweep, Sweeps, memory
  <2>3. old \ {t} \in SUBSET Tx /\ \A u \in old : Present(u, row)
    BY DEF OpInv, OpTypes, Present, Pending
  <2> HIDE DEF old
  <2>4. \E f \in CallFrame : /\ call' = [call EXCEPT ![c] = f]
                             /\ OpCallGood(f, row, ledger, up) /\ Sharing(f, timer)
    BY <2>1, <2>2, <2>3, NewMonitorCall
  <2> QED
    BY <2>2, <2>4, OneCallStep
<1>2. ASSUME NEW t \in Tx, PollAsks(s, t, c) \/ PollDbError(s, t, c) PROVE OpInv'
  <2>1. Present(t, row) /\ s \in up
    BY <1>2 DEF PollAsks, PollDbError, Present, Pending, OpInv, OpRows
  <2>2. UNCHANGED <<ledger, row, aged, up, retryQueue, timer>>
    BY <1>2 DEF PollAsks, PollDbError, memory
  <2>3. PICK f \in {NewCall("find", s, t, "timeout", {}),
                    NewCall("horizon", s, t, "none", {})} :
          call' = [call EXCEPT ![c] = f]
    BY <1>2 DEF PollAsks, PollDbError
  <2>4. f \in CallFrame /\ OpCallGood(f, row, ledger, up) /\ Sharing(f, timer)
    BY <2>1, <2>3, NewMonitorCall
  <2> QED
    BY <2>2, <2>3, <2>4, OneCallStep
<1> QED
  BY <1>1, <1>2

LEMMA OpAnswerKeeps ==
  ASSUME OpInv, NEW c \in Call, Answers(c) \/ CallDbError(c) \/ OpDbError(c)
  PROVE  OpInv'
<1> DEFINE f == call[c]
<1>0. UNCHANGED <<ledger, row, aged, up, retryQueue, timer>>
  BY DEF Answers, PollAnswered, PollNotFound, PollFails, CallDbError, OpDbError,
         memory
<1>1. CASE PollAnswered(c)
  <2>1. PICK to \in {"confirmed", "failed"} :
          /\ call' = [call EXCEPT ![c].pc = "find", ![c].to = to]
          /\ to = "confirmed" => ledger[f.tx] = "success"
    BY <1>1 DEF PollAnswered
  <2>2. f \in CallFrame /\ f.pc = "horizon"
    BY <1>1, KindOfCall DEF PollAnswered
  <2>4. f.obj = None
    BY <2>2, KindOfCall DEF MonitorCall
  <2>5. PICK g : g = [f EXCEPT !.pc = "find", !.to = to]
    OBVIOUS
  <2>6. /\ g \in CallFrame /\ g.pc = "find" /\ g.to = to /\ g.srv = f.srv
        /\ g.tx = f.tx /\ g.obj = None /\ g.todo = f.todo
    BY <2>2, <2>4, <2>5 DEF CallFrame, TransactionStatus
  <2>7. call' = [call EXCEPT ![c] = g]
    BY <2>1, <2>5
  <2>8. g \notin OpFrame
    BY <2>6 DEF OpFrame
  <2>9. f.todo = {}
    BY <2>2, KindOfCall DEF MonitorCall
  <2>10. OpCallGood(g, row, ledger, up) /\ Sharing(g, timer)
    BY <2>1, <2>2, <2>6, <2>8, <2>9, KindOfCall
    DEF OpCallGood, MonitorCall, Sharing
  <2> QED
    BY <1>0, <2>6, <2>7, <2>10, OneCallStep
<1>2. CASE PollNotFound(c) \/ OpDbError(c)
  <2>1. call' = [call EXCEPT ![c] = NoCall]
    BY <1>2 DEF PollNotFound, OpDbError
  <2> QED
    BY <1>0, <2>1, FreshFrames, OneCallStep
<1>3. CASE PollFails(c) \/ CallDbError(c)
  <2>1. PICK g \in {NoCall, NewCall("find", f.srv, f.tx, "timeout", {})} :
          call' = [call EXCEPT ![c] = g]
    BY <1>3 DEF PollFails, CallDbError
  <2>2. f.srv \in Server /\ f.srv \in up /\ Present(f.tx, row)
    BY <1>3, KindOfCall DEF PollFails, CallDbError
  <2>3. g \in CallFrame /\ OpCallGood(g, row, ledger, up) /\ Sharing(g, timer)
    BY <2>1, <2>2, FreshFrames, NewMonitorCall
  <2> QED
    BY <1>0, <2>1, <2>3, OneCallStep
<1> QED
  BY <1>1, <1>2, <1>3 DEF Answers

\* The entity that findOne returned, with the status of the call.
LEMMA OpFound ==
  ASSUME OpInv, NEW c \in Call, call[c].pc = "find",
         NEW e \in {Found(c), FoundFailed(c)}
  PROVE  Counted(e) /\ e.status = call[c].to
<1> DEFINE t == call[c].tx
<1> DEFINE st == call[c].to
<1>1. /\ Counted(row[t]) /\ row[t] \in Row
      /\ st \in {"confirmed", "failed", "timeout"}
  BY KindOfCall, CountedRow DEF MonitorCall
<1>2. Found(c) = [row[t] EXCEPT !.status = st]
  BY DEF Found
<1>3. FoundFailed(c) = [row[t] EXCEPT !.status = st, !.fatal = FALSE]
  BY <1>1 DEF FoundFailed, Found, Row
<1>4. st \in TransactionStatus
  BY <1>1 DEF TransactionStatus
<1> HIDE DEF t, st
<1>5. Counted(Found(c)) /\ Found(c).status = st
  <2>1. /\ Found(c) \in Row /\ Found(c).status = st
        /\ Found(c).retryCount = row[t].retryCount
        /\ Found(c).maxRetries = row[t].maxRetries
    BY <1>1, <1>2, <1>4 DEF Row
  <2> QED
    BY <1>1, <2>1 DEF Counted
<1>6. Counted(FoundFailed(c)) /\ FoundFailed(c).status = st
  <2>1. /\ FoundFailed(c) \in Row /\ FoundFailed(c).status = st
        /\ FoundFailed(c).retryCount = row[t].retryCount
        /\ FoundFailed(c).maxRetries = row[t].maxRetries
    BY <1>1, <1>3, <1>4 DEF Row
  <2> QED
    BY <1>1, <2>1 DEF Counted
<1> QED
  BY <1>5, <1>6 DEF st

LEMMA OpFindKeeps ==
  ASSUME OpInv, NEW c \in Call, FindThenSave(c) \/ FindThenGiveUp(c)
  PROVE  OpInv'
<1> DEFINE f == call[c]
<1>1. /\ f.pc = "find"
      /\ UNCHANGED <<ledger, row, aged, up, retryQueue, timer>>
  BY DEF FindThenSave, FindThenGiveUp
<1>2. PICK e \in {Found(c), FoundFailed(c)} :
        call' = [call EXCEPT ![c].pc = "save", ![c].ent = e]
  BY DEF FindThenSave, FindThenGiveUp
<1>3. Counted(e) /\ e.status = f.to /\ e \in Row
  BY <1>1, OpFound DEF Counted
<1>4. f \in CallFrame /\ MonitorCall(f, row, ledger) /\ f.obj = None
  BY <1>1, KindOfCall DEF MonitorCall
<1>5. PICK g : g = [f EXCEPT !.pc = "save", !.ent = e]
  OBVIOUS
<1>6. /\ g \in CallFrame /\ g.pc = "save" /\ g.ent = e /\ g.to = f.to
      /\ g.srv = f.srv /\ g.tx = f.tx /\ g.obj = None /\ g.todo = f.todo
  BY <1>3, <1>4, <1>5 DEF CallFrame
<1>7. call' = [call EXCEPT ![c] = g]
  BY <1>2, <1>5
<1>8. g \notin OpFrame
  BY <1>6 DEF OpFrame
<1>9. OpCallGood(g, row, ledger, up) /\ Sharing(g, timer)
  BY <1>1, <1>3, <1>4, <1>6, <1>8, OpCallFacts
  DEF OpCallGood, MonitorCall, Sharing
<1> QED
  BY <1>1, <1>6, <1>7, <1>9, OneCallStep

LEMMA OpFindThenRetryKeeps ==
  ASSUME OpInv, NEW c \in Call, FindThenRetry(c)
  PROVE  OpInv'
<1> DEFINE f == call[c]
<1>0. PICK e : e = FoundFailed(c)
  OBVIOUS
<1>1. /\ f.pc = "find" /\ f.to = "failed" /\ ShouldRetry(e)
      /\ UNCHANGED <<ledger, row, aged, up>>
  BY <1>0 DEF FindThenRetry
<1>2. PICK k \in Timer :
        /\ StartTimer(f.srv, f.tx, k, e)
        /\ call' = [call EXCEPT ![c].pc = "mark", ![c].ent = e, ![c].obj = k]
  BY <1>0 DEF FindThenRetry
<1>3. /\ Counted(e) /\ e.status = "failed" /\ e \in Row
      /\ e.retryCount < e.maxRetries
  BY <1>0, <1>1, OpFound DEF Counted, ShouldRetry
<1>4. Attemptable(e)
  BY <1>3 DEF Attemptable, Retriable
<1>5. /\ f \in CallFrame /\ MonitorCall(f, row, ledger)
      /\ f.srv \in Server /\ f.srv \in up /\ Present(f.tx, row)
  BY <1>1, KindOfCall
<1>6. PICK g : g = [f EXCEPT !.pc = "mark", !.ent = e, !.obj = k]
  OBVIOUS
<1>7. /\ g \in CallFrame /\ g.pc = "mark" /\ g.ent = e /\ g.to = f.to
      /\ g.srv = f.srv /\ g.tx = f.tx /\ g.obj = k /\ g.todo = f.todo
  BY <1>3, <1>5, <1>6 DEF CallFrame
<1>8. call' = [call EXCEPT ![c] = g]
  BY <1>2, <1>6
<1>9. g \notin OpFrame
  BY <1>7 DEF OpFrame
<1>10. OpCallGood(g, row, ledger, up)
  BY <1>1, <1>3, <1>5, <1>7, <1>9, OpCallFacts DEF OpCallGood, MonitorCall
<1>11. RowsFine
  BY <1>1, RowsStay
<1> HIDE DEF f
<1> QED
  BY <1>1, <1>2, <1>4, <1>5, <1>7, <1>8, <1>10, <1>11, OpTimerStarts

\* What the save of a call writes.
LEMMA OpHeld ==
  ASSUME OpInv, NEW c \in Call, call[c].pc = "save"
  PROVE  /\ Counted(Held(c))
         /\ Held(c).status = "confirmed" => ledger[call[c].tx] = "success"
<1>1. MonitorCall(call[c], row, ledger) /\ Sharing(call[c], timer)
  BY KindOfCall, OpCallFacts
<1>2. CASE call[c].obj = None
  BY <1>1, <1>2 DEF Held, MonitorCall
<1>3. CASE call[c].obj # None
  BY <1>1, <1>3 DEF Held, Sharing, Retriable
<1> QED
  BY <1>2, <1>3

LEMMA OpWriteKeeps ==
  ASSUME OpInv, NEW c \in Call, MarkRetrying(c) \/ Save(c) \/ RecordLedger(c)
  PROVE  OpInv'
<1> DEFINE f == call[c]
           t == f.tx
<1>1. /\ f.pc \in {"mark", "save", "ledger"} /\ f \in CallFrame
      /\ MonitorCall(f, row, ledger) /\ Present(t, row) /\ t \in Tx
      /\ f.srv \in Server /\ f.srv \in up
      /\ OpCallGood(f, row, ledger, up) /\ Sharing(f, timer)
  BY KindOfCall, OpCallFacts DEF MarkRetrying, Save, RecordLedger, Present
<1>2. UNCHANGED <<ledger, aged, up, retryQueue, timer>>
  BY DEF MarkRetrying, Save, RecordLedger, memory
<1>3. CASE MarkRetrying(c)
  <2>1. /\ f.pc = "mark" /\ row' = [row EXCEPT ![t] = Marked(t, f.ent)]
        /\ call' = [call EXCEPT ![c].pc = "save"]
    BY <1>3 DEF MarkRetrying
  <2>2. Counted(Marked(t, f.ent)) /\ Marked(t, f.ent).status = "retrying"
    BY <1>1, <2>1, MarkedCounted DEF MonitorCall
  <2>3. RowsFine
    BY <1>1, <1>2, <2>1, <2>2, RowWritten
  <2>4. PICK g : g = [f EXCEPT !.pc = "save"]
    OBVIOUS
  <2>5. /\ g \in CallFrame /\ g.pc = "save" /\ g.ent = f.ent /\ g.to = f.to
        /\ g.srv = f.srv /\ g.tx = f.tx /\ g.obj = f.obj /\ g.todo = f.todo
    BY <1>1, <2>4 DEF CallFrame
  <2>6. g \notin OpFrame
    BY <2>5 DEF OpFrame
  <2>7. OpCallGood(g, row, ledger, up) /\ Sharing(g, timer)
    BY <1>1, <2>1, <2>5, <2>6 DEF OpCallGood, MonitorCall, Sharing
  <2>8. call' = [call EXCEPT ![c] = g]
    BY <2>1, <2>4
  <2> QED
    BY <1>2, <2>3, <2>5, <2>7, <2>8, OpCallStep DEF OpInv, OpTypes
<1>4. CASE Save(c)
  <2>1. f.pc = "save" /\ row' = [row EXCEPT ![t] = Held(c)]
    BY <1>4 DEF Save
  <2>2. PICK g \in AfterSave(f) : call' = [call EXCEPT ![c] = g]
    BY <1>4 DEF Save
  <2>3. RowsFine
    BY <1>1, <1>2, <2>1, OpHeld, RowWritten
  <2>4. g \in CallFrame /\ OpCallGood(g, row, ledger, up) /\ Sharing(g, timer)
    BY <1>1, <2>1, AfterSaveFrame
  <2> QED
    BY <1>2, <2>2, <2>3, <2>4, OpCallStep DEF OpInv, OpTypes
<1>5. CASE RecordLedger(c)
  <2>1. PICK r : r = [row[t] EXCEPT !.ledgerSequence = TRUE]
    OBVIOUS
  <2>2. /\ row' = [row EXCEPT ![t] = r] /\ call' = [call EXCEPT ![c] = NoCall]
    BY <1>5, <2>1 DEF RecordLedger
  <2>3. Counted(r) /\ r.status = row[t].status
    <3>1. Counted(row[t]) /\ row[t] \in Row
      BY <1>1, CountedRow
    <3>2. /\ r \in Row /\ r.status = row[t].status
          /\ r.retryCount = row[t].retryCount /\ r.maxRetries = row[t].maxRetries
      BY <2>1, <3>1 DEF Row
    <3> QED
      BY <3>1, <3>2 DEF Counted
  <2>4. RowsFine
    <3>1. row[t].status = "confirmed" => ledger[t] = "success"
      BY <1>1 DEF OpInv, OpRows, OpRowGood
    <3> QED
      BY <1>1, <1>2, <2>2, <2>3, <3>1, RowWritten
  <2> QED
    BY <1>2, <2>2, <2>4, FreshFrames, OpCallStep DEF OpInv, OpTypes
<1> QED
  BY <1>3, <1>4, <1>5

-----------------------------------------------------------------------------
(* The steps of the retries.                                               *)
LEMMA OpSameEntity ==
  ASSUME OpInv, NEW k \in Timer, NEW pc, timer' = [timer EXCEPT ![k].pc = pc]
  PROVE  timer' = [timer EXCEPT ![k].pc = pc, ![k].ent = timer[k].ent]
<1>1. timer \in [Timer -> TimerFrame] /\ timer[k] \in TimerFrame
  BY DEF OpInv, OpTypes
<1>2. [timer[k] EXCEPT !.pc = pc] = [timer[k] EXCEPT !.pc = pc, !.ent = timer[k].ent]
  BY <1>1 DEF TimerFrame
<1> QED
  BY <1>1, <1>2

LEMMA OpTimerMovesKeeps ==
  ASSUME OpInv, NEW k \in Timer,
         \/ TimerFires(k) \/ RetryFindsSuccess(k) \/ RetryFails(k)
         \/ ConfirmDbError(k)
  PROVE  OpInv'
<1> DEFINE g == timer[k]
<1>1. g.pc \in {"asleep", "horizon", "confirm"}
  BY DEF TimerFires, RetryFindsSuccess, RetryFails, ConfirmDbError
<1>2. Attemptable(g.ent)
  BY <1>1, OpTimerFacts DEF OpTimerGood, Attemptable
<1>3. UNCHANGED <<ledger, row, aged, up, retryQueue, call>>
  BY DEF TimerFires, RetryFindsSuccess, RetryFails, ConfirmDbError, memory
<1>4. PICK pc \in {"horizon", "confirm", "save"},
             e \in {g.ent} \cup {Failed(g.ent, b) : b \in BOOLEAN} :
        /\ timer' = [timer EXCEPT ![k].pc = pc, ![k].ent = e]
        /\ pc # "save" => e = g.ent
        /\ pc = "save" => \E fatal \in BOOLEAN : e = Failed(g.ent, fatal)
        /\ pc = "confirm" => ledger[g.tx] = "success"
  <2>1. CASE TimerFires(k)
    BY <2>1, OpSameEntity DEF TimerFires
  <2>2. CASE RetryFindsSuccess(k)
    BY <2>2, OpSameEntity DEF RetryFindsSuccess
  <2>3. CASE RetryFails(k)
    BY <2>3 DEF RetryFails
  <2>4. CASE ConfirmDbError(k)
    BY <2>4 DEF ConfirmDbError
  <2> QED
    BY <2>1, <2>2, <2>3, <2>4
<1>5. /\ Retriable(e)
      /\ pc # "save" => e.retryCount < e.maxRetries
      /\ e.status # "retrying" \/ e.retryCount < e.maxRetries
  BY <1>2, <1>4, FailedAttempt DEF Attemptable
<1>6. RowsFine
  BY <1>3, RowsStay
<1>7. HandleIsLive'
  <2>1. /\ timer'[k].pc = pc /\ timer'[k].srv = g.srv /\ timer'[k].tx = g.tx
        /\ \A j \in Timer : j = k \/ timer'[j] = timer[j]
    <3>1. timer \in [Timer -> TimerFrame] /\ g \in TimerFrame
      BY DEF OpInv, OpTypes
    <3> QED
      BY <1>4, <3>1 DEF TimerFrame
  <2> QED
    BY <1>3, <2>1, HandlesStay
<1>8. retryQueue' \in [Server -> [Tx -> Timer \cup {None}]]
  BY <1>3 DEF OpInv, OpTypes
<1> HIDE DEF g
<1>9. timer[k].pc # "free"
  BY <1>1 DEF g
<1> QED
  BY <1>3, <1>4, <1>5, <1>6, <1>7, <1>8, <1>9, OpTimerStep DEF g

\* A retry that ends: it has written the row, or the write has failed.
LEMMA OpTimerEndsKeeps ==
  ASSUME OpInv, NEW k \in Timer,
         RetryConfirms(k) \/ RetrySaves(k) \/ RetryMarks(k) \/ RetryDbError(k)
  PROVE  OpInv'
<1> DEFINE s == timer[k].srv
           t == timer[k].tx
           e == timer[k].ent
<1>1. timer[k].pc \in {"confirm", "save", "mark"}
  BY DEF RetryConfirms, RetrySaves, RetryMarks, RetryDbError
<1>2. /\ s \in Server /\ t \in Tx /\ Present(t, row) /\ Retriable(e)
      /\ timer[k].pc # "save" => e.retryCount < e.maxRetries
      /\ timer[k].pc = "confirm" => ledger[t] = "success"
  BY <1>1, OpTimerFacts DEF OpTimerGood
<1>3. /\ timer' = [timer EXCEPT ![k].pc = "free"]
      /\ retryQueue' = [retryQueue EXCEPT ![s][t] = None]
      /\ UNCHANGED <<ledger, aged, up, call>>
  BY DEF RetryConfirms, RetrySaves, RetryMarks, RetryDbError, ForgetRetry
<1>4. timer' = [timer EXCEPT ![k].pc = "free", ![k].ent = e]
  BY <1>3, OpSameEntity
<1>5. RowsFine
  <2>1. CASE row' = row
    BY <1>3, <2>1, RowsStay
  <2>2. CASE RetrySaves(k)
    BY <1>2, <1>3, <2>2, RowWritten DEF RetrySaves, Retriable
  <2>3. CASE RetryMarks(k)
    <3>1. Counted(Marked(t, e)) /\ Marked(t, e).status = "retrying"
      BY <1>2, <2>3, MarkedCounted DEF RetryMarks, Retriable
    <3> QED
      BY <1>2, <1>3, <2>3, <3>1, RowWritten DEF RetryMarks
  <2>4. CASE RetryConfirms(k)
    <3>1. PICK r : r = [row[t] EXCEPT !.status = "confirmed",
                                      !.ledgerSequence = TRUE]
      OBVIOUS
    <3>2. row' = [row EXCEPT ![t] = r]
      BY <2>4, <3>1 DEF RetryConfirms
    <3>3. Counted(row[t]) /\ row[t] \in Row
      BY <1>2, CountedRow
    <3>4. /\ r \in Row /\ r.status = "confirmed"
          /\ r.retryCount = row[t].retryCount /\ r.maxRetries = row[t].maxRetries
      BY <3>1, <3>3 DEF Row, TransactionStatus
    <3>5. Counted(r) /\ ledger[t] = "success"
      BY <1>2, <2>4, <3>3, <3>4 DEF Counted, RetryConfirms
    <3> QED
      BY <1>2, <1>3, <3>2, <3>5, RowWritten
  <2> QED
    BY <2>1, <2>2, <2>3, <2>4 DEF RetryDbError
<1>6. \A j \in Timer : j = k \/ timer'[j] = timer[j]
  BY <1>3 DEF OpInv, OpTypes
<1>7. /\ HandleIsLive'
      /\ retryQueue' \in [Server -> [Tx -> Timer \cup {None}]]
  BY <1>2, <1>3, <1>6, HandleForgotten
<1>8. timer[k].pc # "free"
  BY <1>1
<1> HIDE DEF s, t, e
<1> QED
  BY <1>2, <1>3, <1>4, <1>5, <1>7, <1>8, OpTimerStep

LEMMA OpRescheduleKeeps ==
  ASSUME OpInv, NEW k \in Timer, RetrySavesAndReschedules(k)
  PROVE  OpInv'
<1> DEFINE s == timer[k].srv
           t == timer[k].tx
           e == timer[k].ent
<1>1. /\ timer[k].pc = "save" /\ e.status = "retrying"
      /\ row' = [row EXCEPT ![t] = e]
      /\ UNCHANGED <<ledger, aged, up, call>>
  BY DEF RetrySavesAndReschedules
<1>2. PICK n \in Timer :
        /\ FreeTimer(n)
        /\ retryQueue' = [retryQueue EXCEPT ![s][t] = n]
        /\ timer' = [timer EXCEPT ![k].pc = "mark",
                                  ![n] = [timer[k] EXCEPT !.pc = "asleep"]]
  BY DEF RetrySavesAndReschedules
<1>3. /\ timer[k] \in TimerFrame /\ t \in Tx /\ Present(t, row) /\ s \in Server
      /\ s \in up /\ Retriable(e) /\ e.retryCount < e.maxRetries
  BY <1>1, OpTimerFacts DEF OpTimerGood
<1>4. n # k /\ timer[n].pc = "free" /\ \A c \in Call : call[c].obj # n
  BY <1>1, <1>2 DEF FreeTimer
<1>5. /\ timer'[k] = [timer[k] EXCEPT !.pc = "mark"]
      /\ timer'[n] = [timer[k] EXCEPT !.pc = "asleep"]
      /\ \A j \in Timer : j = k \/ j = n \/ timer'[j] = timer[j]
  BY <1>2, <1>4 DEF OpInv, OpTypes
<1>6. ASSUME NEW pc \in {"mark", "asleep"}, NEW g,
             g = [timer[k] EXCEPT !.pc = pc]
      PROVE  /\ g \in TimerFrame /\ g.pc = pc /\ g.srv = s /\ g.tx = t
             /\ g.ent = e
  BY <1>3, <1>6 DEF TimerFrame
<1>7. RowsFine
  BY <1>1, <1>3, RowWritten DEF Retriable
<1>8. /\ timer'[k] \in TimerFrame /\ timer'[k].pc = "mark"
      /\ timer'[k].srv = s /\ timer'[k].tx = t /\ timer'[k].ent = e
      /\ timer'[n] \in TimerFrame /\ timer'[n].pc = "asleep"
      /\ timer'[n].srv = s /\ timer'[n].tx = t /\ timer'[n].ent = e
  BY <1>5, <1>6
<1>9. timer' \in [Timer -> TimerFrame]
  BY <1>2, <1>5, <1>8 DEF OpInv, OpTypes
<1>10. \A j \in Timer : timer[j].pc # "free" =>
         /\ timer'[j].pc # "free"
         /\ timer'[j].srv = timer[j].srv /\ timer'[j].tx = timer[j].tx
  BY <1>4, <1>5, <1>8
<1> HIDE DEF s, t, e
<1>11. /\ HandleIsLive'
       /\ retryQueue' \in [Server -> [Tx -> Timer \cup {None}]]
  <2>1. timer'[n].pc # "free" /\ timer'[n].srv = s /\ timer'[n].tx = t
    BY <1>8
  <2> QED
    BY <1>2, <1>3, <1>4, <1>10, <2>1, HandleSet
<1>12. OpTypes'
  BY <1>1, <1>7, <1>9, <1>11 DEF OpInv, OpTypes, RowsFine
<1>13. Present(t, row')
  BY <1>3, <1>7 DEF Present, RowsFine, OpEvolves
<1>14. /\ OpTimerGood(timer'[k], row', ledger', up')
       /\ OpTimerGood(timer'[n], row', ledger', up')
  BY <1>1, <1>3, <1>8, <1>13 DEF OpTimerGood
<1>15. SharedStill(k)
  BY <1>3, <1>8 DEF SharedStill, s
<1> QED
  BY <1>1, <1>4, <1>5, <1>7, <1>11, <1>12, <1>14, <1>15, OpStepKeeps
  DEF RowsFine

LEMMA OpStopKeeps ==
  ASSUME OpInv, NEW s \in Server, Stop(s)
  PROVE  OpInv'
<1>1. /\ UNCHANGED <<ledger, row, aged>> /\ up' = up \ {s}
      /\ call' = [c \in Call |-> IF call[c].srv = s THEN NoCall ELSE call[c]]
      /\ timer' = [k \in Timer |-> IF timer[k].srv = s THEN NoTimer
                                                       ELSE timer[k]]
      /\ retryQueue' = [retryQueue EXCEPT ![s] = [t \in Tx |-> None]]
  BY DEF Stop
<1>2. NoTimer \in TimerFrame /\ NoTimer.pc = "free"
  BY DEF NoTimer, TimerFrame, Absent, Row, TransactionStatus
<1>3. /\ call' \in [Call -> CallFrame \cup OpFrame]
      /\ timer' \in [Timer -> TimerFrame]
      /\ retryQueue' \in [Server -> [Tx -> Timer \cup {None}]]
  <2>1. call' \in [Call -> CallFrame \cup OpFrame]
    BY <1>1, FreshFrames DEF OpInv, OpTypes
  <2>2. timer' \in [Timer -> TimerFrame]
    BY <1>1, <1>2 DEF OpInv, OpTypes
  <2>3. [t \in Tx |-> None] \in [Tx -> Timer \cup {None}]
    OBVIOUS
  <2> QED
    BY <1>1, <2>1, <2>2, <2>3 DEF OpInv, OpTypes
<1>4. RowsFine
  BY <1>1, RowsStay
<1>5. OpTypes'
  BY <1>1, <1>3, <1>4 DEF OpInv, OpTypes, RowsFine
<1>6. ASSUME NEW c \in Call
      PROVE  /\ OpCallGood(call'[c], row', ledger', up')
             /\ Sharing(call'[c], timer')
  <2>1. CASE call[c].srv = s
    BY <1>1, <2>1, FreshFrames
  <2>2. CASE call[c].srv # s
    <3>1. call'[c] = call[c]
      BY <1>1, <2>2
    <3>2. call[c].pc # "free" => call[c].srv \in up'
      BY <1>1, <2>2, OpCallFacts DEF OpCallGood
    <3>3. OpCallGood(call'[c], row', ledger', up')
      BY <1>4, <3>1, <3>2, OpCallFacts, OpCallKept DEF RowsFine
    <3>4. Sharing(call[c], timer) /\ call[c].obj \in Timer \cup {None}
      BY OpCallFacts
    <3>5. Sharing(call'[c], timer')
      BY <1>1, <2>2, <3>1, <3>4 DEF Sharing
    <3> QED
      BY <3>3, <3>5
  <2> QED
    BY <2>1, <2>2
<1>7. ASSUME NEW k \in Timer
      PROVE  OpTimerGood(timer'[k], row', ledger', up')
  <2>1. CASE timer[k].srv = s
    BY <1>1, <1>2, <2>1 DEF OpTimerGood
  <2>2. CASE timer[k].srv # s
    <3>1. timer'[k] = timer[k] /\ timer[k].pc # "free" => timer[k].srv \in up'
      BY <1>1, <2>2, OpTimerFacts
    <3>2. timer'[k] = timer[k]
      BY <1>1, <2>2
    <3> QED
      BY <1>4, <3>1, <3>2, OpTimerFacts, OpTimerKept DEF RowsFine
  <2> QED
    BY <2>1, <2>2
<1>8. HandleIsLive'
  <2>1. ASSUME NEW q \in Server, NEW t \in Tx, retryQueue'[q][t] # None
        PROVE  retryQueue'[q][t] \in TimersOf(q, t)'
    <3>1. q # s /\ retryQueue'[q][t] = retryQueue[q][t]
      BY <1>1, <2>1 DEF OpInv, OpTypes
    <3>2. PICK k \in Timer : /\ k = retryQueue[q][t] /\ timer[k].pc # "free"
                             /\ timer[k].srv = q /\ timer[k].tx = t
      BY <2>1, <3>1 DEF OpInv, HandleIsLive, TimersOf
    <3>3. timer'[k] = timer[k]
      BY <1>1, <3>1, <3>2
    <3> QED
      BY <3>1, <3>2, <3>3 DEF TimersOf
  <2> QED
    BY <2>1 DEF HandleIsLive
<1>9. OpRows'
  BY <1>4 DEF RowsFine
<1> QED
  BY <1>5, <1>6, <1>7, <1>8, <1>9 DEF OpInv, OpCalls, OpTimers

-----------------------------------------------------------------------------
(* The steps of the operators.                                             *)

\* A handle is that of a timer of the replica and of a row that exists.
LEMMA HandlePresent ==
  ASSUME OpInv, NEW s \in Server, NEW t \in Tx, retryQueue[s][t] # None
  PROVE  /\ retryQueue[s][t] \in Timer /\ timer[retryQueue[s][t]].pc # "free"
         /\ timer[retryQueue[s][t]].srv = s /\ timer[retryQueue[s][t]].tx = t
         /\ s \in up /\ Present(t, row)
<1>1. retryQueue[s][t] \in TimersOf(s, t)
  BY DEF OpInv, HandleIsLive
<1> QED
  BY <1>1, OpTimerFacts DEF TimersOf

LEMMA ClearKeeps ==
  ASSUME OpInv, NEW c \in Call, NEW s \in Server, NEW t \in Tx,
         ClearRetry(s, t), RowsFine, UNCHANGED <<ledger, aged, up>>,
         NEW f \in CallFrame \cup OpFrame, call' = [call EXCEPT ![c] = f],
         OpCallGood(f, row, ledger, up), f.obj = None
  PROVE  OpInv'
<1> DEFINE k == retryQueue[s][t]
<1>1. /\ k # None
      /\ timer' = IF timer[k].pc = "asleep"
                    THEN [timer EXCEPT ![k].pc = "free"] ELSE timer
      /\ retryQueue' = [retryQueue EXCEPT ![s][t] = None]
  BY DEF ClearRetry, ForgetRetry
<1>2. k \in Timer /\ timer[k].srv = s /\ timer[k].tx = t /\ timer[k].pc # "free"
  BY <1>1, HandlePresent
<1>3. timer \in [Timer -> TimerFrame] /\ timer[k] \in TimerFrame /\ Retriable(timer[k].ent)
  BY <1>2, OpTimerFacts DEF OpInv, OpTypes
<1> HIDE DEF k
<1>4. /\ timer' \in [Timer -> TimerFrame]
      /\ \A j \in Timer : j = k \/ timer'[j] = timer[j]
      /\ \/ timer'[k] = timer[k]
         \/ /\ timer'[k].pc = "free" /\ timer'[k].srv = timer[k].srv
            /\ timer'[k].ent = timer[k].ent
  <2>1. CASE timer[k].pc # "asleep"
    BY <1>1, <1>3, <2>1
  <2>2. CASE timer[k].pc = "asleep"
    <3>1. PICK g : g = [timer[k] EXCEPT !.pc = "free"]
      OBVIOUS
    <3>2. /\ g \in TimerFrame /\ g.pc = "free" /\ g.srv = timer[k].srv
          /\ g.ent = timer[k].ent
      BY <1>3, <3>1 DEF TimerFrame
    <3>3. timer' = [timer EXCEPT ![k] = g]
      BY <1>1, <2>2, <3>1
    <3> QED
      BY <1>2, <1>3, <3>2, <3>3
  <2> QED
    BY <2>1, <2>2
<1>5. /\ HandleIsLive'
      /\ retryQueue' \in [Server -> [Tx -> Timer \cup {None}]]
  BY ZenonT(60), <1>1, <1>2, <1>4, HandleForgotten
<1>6. /\ call'[c] = f /\ \A d \in Call : d = c \/ call'[d] = call[d]
      /\ call' \in [Call -> CallFrame \cup OpFrame]
  BY DEF OpInv, OpTypes
<1>7. OpTypes'
  BY <1>4, <1>5, <1>6 DEF OpInv, OpTypes, RowsFine
<1>8. OpCallGood(f, row', ledger', up') /\ Sharing(f, timer')
  <2>1. f.pc # "free" => f.srv \in up'
    BY DEF OpCallGood
  <2> QED
    BY <2>1, OpCallKept DEF RowsFine, Sharing
<1>9. /\ timer'[k] = timer[k] \/ OpTimerGood(timer'[k], row', ledger', up')
      /\ timer'[k] = timer[k] \/ SharedStill(k)
  BY <1>3, <1>4 DEF OpTimerGood, SharedStill
<1> QED
  BY <1>4, <1>5, <1>6, <1>7, <1>8, <1>9, OpStepKeeps DEF RowsFine

LEMMA SchedulesKeeps ==
  ASSUME OpInv, NEW c \in Call, NEW s \in Server, s \in up,
         NEW t, Present(t, row), NEW ents \in [Tx -> Row],
         NEW todo \in SUBSET Tx, Attemptable(ents[t]),
         \A u \in todo : Present(u, row) /\ Retriable(ents[u]),
         OpSchedules(c, s, t, ents, todo),
         RowsFine, UNCHANGED <<ledger, aged, up>>
  PROVE  OpInv'
<1> DEFINE kept == Keep(ents, todo \cup {t})
           f == NewOp("schedule", s, t, kept, todo)
<1>1. PICK k \in Timer : StartTimer(s, t, k, ents[t])
  BY DEF OpSchedules
<1>2. call' = [call EXCEPT ![c] = f]
  BY DEF OpSchedules
<1>3. /\ kept \in [Tx -> Row] /\ t \in Tx
      /\ \A u \in todo \cup {t} : kept[u] = ents[u]
  BY DEF Keep, Absent, Row, TransactionStatus, Present
<1> HIDE DEF kept
<1>4. f \in OpFrame /\ OpCallGood(f, row, ledger, up)
  <2>1. /\ Attemptable(kept[t]) /\ \A u \in todo : Retriable(kept[u])
        /\ \A u \in todo : Present(u, row)
    BY <1>3
  <2>2. /\ f \in OpFrame /\ OpCallGood(f, row, ledger, up)
        /\ Sharing(f, timer)
    BY <1>3, <2>1, NewOpCall
  <2> QED
    BY <2>2
<1>5. f.obj = None
  BY DEF NewOp
<1> HIDE DEF f
<1> QED
  BY <1>1, <1>2, <1>4, <1>5, OpTimerStarts

\* What is left of a list was in it.
LEMMA AfterFacts ==
  ASSUME NEW todo, NEW able, NEW t, NEW rest \in After(todo, able, t)
  PROVE  rest \subseteq todo
BY DEF After

LEMMA CancelsKeep ==
  ASSUME OpInv, NEW c \in Call, NEW s \in Server,
         \/ CancelAllRetries(c, s)
         \/ \E t \in Tx : CancelRetry(c, s, t)
  PROVE  OpInv'
<1>1. PICK t \in Tx, todo \in SUBSET Tx :
        /\ todo \subseteq Queued(s) /\ ClearRetry(s, t)
        /\ call' = [call EXCEPT ![c] = NewOp("cancel", s, t, Keep(row, {}), todo)]
  <2>1. CASE CancelAllRetries(c, s)
    <3>1. PICK t \in Queued(s) :
            /\ ClearRetry(s, t)
            /\ call' = [call EXCEPT ![c] = NewOp("cancel", s, t, Keep(row, {}),
                                                 Queued(s) \ {t})]
      BY <2>1 DEF CancelAllRetries
    <3>2. Queued(s) \ {t} \in SUBSET Tx /\ Queued(s) \ {t} \subseteq Queued(s) /\ t \in Tx
      BY DEF Queued
    <3> QED
      BY <3>1, <3>2, Zenon
  <2>2. ASSUME NEW t \in Tx, CancelRetry(c, s, t)
        PROVE  /\ {} \subseteq Queued(s) /\ ClearRetry(s, t)
               /\ call' = [call EXCEPT ![c] = NewOp("cancel", s, t, Keep(row, {}), {})]
    BY <2>2 DEF CancelRetry
  <2>3. {} \in SUBSET Tx
    OBVIOUS
  <2> QED
    BY <2>1, <2>2, <2>3, Zenon
<1>2. /\ s \in up /\ UNCHANGED <<ledger, row, aged, up>>
  BY DEF CancelAllRetries, CancelRetry, Begin, OpReads
<1>3. Present(t, row)
  BY <1>1, HandlePresent DEF ClearRetry
<1>4. todo \in SUBSET Tx /\ \A u \in todo : Present(u, row)
  BY <1>1, HandlePresent DEF Queued
<1> DEFINE kept == Keep(row, {})
           f == NewOp("cancel", s, t, kept, todo)
<1>5. kept \in [Tx -> Row]
  BY DEF Keep, Absent, Row, TransactionStatus
<1> HIDE DEF kept
<1>6. f \in OpFrame /\ OpCallGood(f, row, ledger, up)
  BY <1>2, <1>3, <1>4, <1>5, NewOpCall
<1>7. f.obj = None
  BY DEF NewOp
<1>8. RowsFine
  BY <1>2, RowsStay
<1>9. call' = [call EXCEPT ![c] = f]
  BY <1>1 DEF kept
<1> HIDE DEF f
<1> QED
  BY <1>1, <1>2, <1>6, <1>7, <1>8, <1>9, ClearKeeps

\* The UPDATE of cancelRetry.
LEMMA CancelledRow ==
  ASSUME OpInv, NEW t, Present(t, row), OpWrites(t, Cancelled(t))
  PROVE  RowsFine /\ UNCHANGED <<ledger, aged, up>>
<1>1. Counted(row[t]) /\ row[t] \in Row /\ t \in Tx
  BY CountedRow
<1>2. /\ Cancelled(t) \in Row /\ Cancelled(t).status = "failed"
      /\ Cancelled(t).retryCount = row[t].retryCount
      /\ Cancelled(t).maxRetries = row[t].maxRetries
  BY <1>1 DEF Cancelled, Row, TransactionStatus
<1>3. Counted(Cancelled(t))
  BY <1>1, <1>2 DEF Counted
<1> QED
  BY <1>1, <1>2, <1>3, RowWritten DEF OpWrites

LEMMA OpReturnKeeps ==
  ASSUME OpInv, NEW c \in Call, OpReturns(c), RowsFine, UNCHANGED <<ledger, aged, up>>
  PROVE  OpInv'
BY FreshFrames, OpCallStep DEF OpReturns, OpInv, OpTypes

LEMMA CancelWritesKeeps ==
  ASSUME OpInv, NEW c \in Call, CancelWrites(c)
  PROVE  OpInv'
<1> DEFINE f == call[c]
<1>1. /\ f.pc = "cancel" /\ f \in OpFrame /\ f.srv \in Server /\ f.srv \in up
      /\ Present(f.tx, row) /\ f.todo \subseteq Tx
  BY KindOfCall, OpCallFacts DEF CancelWrites
<1>2. RowsFine /\ UNCHANGED <<ledger, aged, up>>
  BY <1>1, CancelledRow DEF CancelWrites
<1>3. CASE OpReturns(c)
  BY <1>2, <1>3, OpReturnKeeps
<1> DEFINE able == f.todo \cap Queued(f.srv)
<1>4. CASE \E t \in able : \E rest \in After(f.todo, able, t) :
             /\ ClearRetry(f.srv, t)
             /\ call' = [call EXCEPT ![c].tx = t, ![c].todo = rest]
  <2>0. PICK t \in able : \E rest \in After(f.todo, able, t) :
             /\ ClearRetry(f.srv, t)
             /\ call' = [call EXCEPT ![c].tx = t, ![c].todo = rest]
    BY <1>4
  <2>1. PICK todo \in After(f.todo, able, t) :
             /\ ClearRetry(f.srv, t)
             /\ call' = [call EXCEPT ![c].tx = t, ![c].todo = todo]
    BY <2>0
  <2>2. todo \subseteq f.todo
    BY <2>1, AfterFacts
  <2>3. t \in Tx /\ Present(t, row)
    BY <1>1, <2>1, HandlePresent DEF ClearRetry
  <2>4. PICK g : g = [f EXCEPT !.tx = t, !.todo = todo]
    OBVIOUS
  <2>5. /\ g \in OpFrame /\ g.pc = "cancel" /\ g.srv = f.srv /\ g.tx = t
        /\ g.obj = None /\ g.todo = todo
    BY <1>1, <2>2, <2>3, <2>4 DEF OpFrame
  <2>6. g \notin CallFrame
    BY <2>5 DEF CallFrame
  <2>7. OpCallGood(g, row, ledger, up)
    BY <1>1, <2>2, <2>3, <2>5, <2>6, OpCallFacts DEF OpCallGood, OperatorCall
  <2>8. call' = [call EXCEPT ![c] = g]
    BY <2>1, <2>4
  <2> HIDE DEF f
  <2>9. f.srv \in Server
    BY <1>1
  <2> QED
    BY <1>2, <2>1, <2>3, <2>5, <2>7, <2>8, <2>9, ClearKeeps
<1> QED
  BY <1>3, <1>4 DEF CancelWrites

\* The entity of a manual retry, with the limit that the client asked for.
LEMMA AskedEntity ==
  ASSUME OpInv, NEW t \in Tx, row[t].status \in {"failed", "timeout"},
         NEW limit \in RetryLimit \cup {row[t].maxRetries}
  PROVE  /\ Present(t, row) /\ Asked(t, limit) \in [Tx -> Row]
         /\ Retriable(Asked(t, limit)[t])
<1>1. Present(t, row) /\ Counted(row[t]) /\ row \in [Tx -> Row] /\ row[t] \in Row
  BY CountedRow DEF Present, OpInv, OpTypes
<1>2. limit \in RetryLimit /\ limit \in Nat
  BY <1>1, LimitAssumption DEF Counted
<1> DEFINE r == [row[t] EXCEPT !.maxRetries = limit]
<1>3. /\ r \in Row /\ r.status = row[t].status /\ r.maxRetries = limit
      /\ r.retryCount = row[t].retryCount
  BY <1>1, <1>2 DEF Row
<1> HIDE DEF r
<1>4. [row EXCEPT ![t].maxRetries = limit] = [row EXCEPT ![t] = r]
  BY DEF r
<1>5. Asked(t, limit) \in [Tx -> Row] /\ Asked(t, limit)[t] = r
  BY <1>1, <1>3, <1>4 DEF Asked, Keep, Absent, Row, TransactionStatus
<1>6. Retriable(r)
  BY <1>1, <1>2, <1>3 DEF Retriable, Counted
<1> QED
  BY <1>1, <1>5, <1>6

LEMMA ManualKeeps ==
  ASSUME OpInv, NEW c \in Call, NEW s \in Server, NEW t \in Tx,
         ManualRetry(c, s, t)
  PROVE  OpInv'
<1>1. /\ s \in up /\ row[t].status \in {"failed", "timeout"} /\ Retries(c, s, t)
      /\ UNCHANGED <<ledger, row, aged, up>>
  BY DEF ManualRetry, Begin, Retries, OpReads
<1>2. PICK limit \in RetryLimit \cup {row[t].maxRetries} :
        \/ /\ ClearRetry(s, t)
           /\ call' = [call EXCEPT ![c] = NewOp("cancelThenRetry", s, t,
                                                Asked(t, limit), {})]
        \/ /\ Schedulable(s, t, Asked(t, limit)[t])
           /\ OpSchedules(c, s, t, Asked(t, limit), {})
  BY <1>1 DEF Retries
<1>3. PICK ents : ents = Asked(t, limit)
  OBVIOUS
<1>4. Present(t, row) /\ ents \in [Tx -> Row] /\ Retriable(ents[t])
  BY <1>1, <1>3, AskedEntity
<1>5. RowsFine
  BY <1>1, RowsStay
<1>6. CASE /\ ClearRetry(s, t)
           /\ call' = [call EXCEPT ![c] = NewOp("cancelThenRetry", s, t, ents, {})]
  <2>1. PICK f : f = NewOp("cancelThenRetry", s, t, ents, {})
    OBVIOUS
  <2>2. f \in OpFrame /\ OpCallGood(f, row, ledger, up)
    BY <1>1, <1>4, <2>1, NewOpCall
  <2>3. f.obj = None
    BY <2>1 DEF NewOp
  <2> QED
    BY <1>1, <1>5, <1>6, <2>1, <2>2, <2>3, ClearKeeps
<1>7. CASE Schedulable(s, t, ents[t]) /\ OpSchedules(c, s, t, ents, {})
  <2>1. Attemptable(ents[t])
    BY <1>4, <1>7 DEF Schedulable, ShouldRetry, Attemptable
  <2> QED
    BY <1>1, <1>4, <1>5, <1>7, <2>1, SchedulesKeeps
<1> QED
  BY <1>2, <1>3, <1>6, <1>7

LEMMA ManualGoesOnKeeps ==
  ASSUME OpInv, NEW c \in Call, ManualGoesOn(c)
  PROVE  OpInv'
<1> DEFINE f == call[c]
<1>1. /\ f.pc = "cancelThenRetry" /\ f \in OpFrame /\ f.srv \in Server
      /\ f.srv \in up /\ Present(f.tx, row) /\ Retriable(f.ents[f.tx])
      /\ f.ents \in [Tx -> Row]
  BY KindOfCall DEF ManualGoesOn, OperatorCall, OpFrame
<1>2. RowsFine /\ UNCHANGED <<ledger, aged, up>>
  BY <1>1, CancelledRow DEF ManualGoesOn
<1>3. CASE OpReturns(c)
  BY <1>2, <1>3, OpReturnKeeps
<1>4. CASE /\ Schedulable(f.srv, f.tx, f.ents[f.tx])
           /\ OpSchedules(c, f.srv, f.tx, f.ents, {})
  <2>1. Attemptable(f.ents[f.tx])
    BY <1>1, <1>4 DEF Schedulable, ShouldRetry, Attemptable
  <2> HIDE DEF f
  <2> QED
    BY <1>1, <1>2, <1>4, <2>1, SchedulesKeeps
<1> QED
  BY <1>3, <1>4 DEF ManualGoesOn

LEMMA PrioritizeKeeps ==
  ASSUME OpInv, NEW c \in Call, NEW s \in Server, PrioritizeRetries(c, s)
  PROVE  OpInv'
<1> DEFINE found == {t \in Tx : row[t].status = "retrying"}
<1>1. s \in up /\ UNCHANGED <<ledger, row, aged, up>>
  BY DEF PrioritizeRetries, Begin, OpReads
<1>0. PICK t \in Eligible(s, found, row) :
        \E rest \in After(found, Eligible(s, found, row), t) :
          OpSchedules(c, s, t, row, rest)
  BY DEF PrioritizeRetries
<1>2. PICK rest \in After(found, Eligible(s, found, row), t) :
        OpSchedules(c, s, t, row, rest)
  BY <1>0
<1>3. /\ row \in [Tx -> Row]
      /\ \A u \in found : Present(u, row) /\ Retriable(row[u])
  <2>1. row \in [Tx -> Row]
    BY DEF OpInv, OpTypes
  <2>2. \A u \in found : Present(u, row) /\ row[u].status = "retrying"
    BY DEF Present
  <2> QED
    BY <2>1, <2>2, CountedRow DEF Retriable
<1>4. t \in found /\ rest \in SUBSET found /\ ShouldRetry(row[t])
  BY <1>2, AfterFacts DEF Eligible, Schedulable
<1>7. found \in SUBSET Tx
  OBVIOUS
<1>5. Attemptable(row[t])
  BY <1>3, <1>4 DEF Attemptable, ShouldRetry
<1>6. RowsFine
  BY <1>1, RowsStay
<1> HIDE DEF found
<1> QED
  BY <1>1, <1>2, <1>3, <1>4, <1>5, <1>6, <1>7, SchedulesKeeps

LEMMA OpMarksKeeps ==
  ASSUME OpInv, NEW c \in Call, OpMarks(c)
  PROVE  OpInv'
<1> DEFINE f == call[c]
           able == Eligible(f.srv, f.todo, f.ents)
<1>1. /\ f.pc = "schedule" /\ f \in OpFrame /\ f.srv \in Server
      /\ f.srv \in up /\ Present(f.tx, row) /\ Attemptable(f.ents[f.tx])
      /\ f.ents \in [Tx -> Row] /\ f.todo \subseteq Tx
      /\ \A u \in f.todo : Present(u, row) /\ Retriable(f.ents[u])
  BY KindOfCall, OpCallFacts DEF OpMarks, OperatorCall, OpFrame, OpCallGood
<1>2. RowsFine /\ UNCHANGED <<ledger, aged, up>>
  <2>1. /\ Counted(Marked(f.tx, f.ents[f.tx]))
        /\ Marked(f.tx, f.ents[f.tx]).status = "retrying"
    BY <1>1, MarkedCounted DEF Attemptable, Retriable
  <2>2. OpWrites(f.tx, Marked(f.tx, f.ents[f.tx])) /\ f.tx \in Tx
    BY <1>1 DEF OpMarks, Present
  <2> QED
    BY <2>1, <2>2, RowWritten DEF OpWrites
<1>3. CASE OpReturns(c)
  BY <1>2, <1>3, OpReturnKeeps
<1>4. ASSUME NEW u \in able, NEW rest \in After(f.todo, able, u),
             OpSchedules(c, f.srv, u, f.ents, rest)
      PROVE  OpInv'
  <2>1. rest \subseteq f.todo /\ u \in f.todo /\ ShouldRetry(f.ents[u])
    BY <1>4, AfterFacts DEF Eligible, Schedulable
  <2>2. /\ rest \in SUBSET Tx /\ Present(u, row)
        /\ Attemptable(f.ents[u])
        /\ \A v \in rest : Present(v, row) /\ Retriable(f.ents[v])
    BY <1>1, <2>1 DEF Attemptable, ShouldRetry
  <2> HIDE DEF f, able
  <2> QED
    BY <1>1, <1>2, <1>4, <2>2, SchedulesKeeps
<1> QED
  BY <1>3, <1>4 DEF OpMarks

-----------------------------------------------------------------------------
(* OpInv is inductive.                                                     *)
LEMMA OpInitInv == Init => OpInv
<1> SUFFICES ASSUME Init PROVE OpInv
  OBVIOUS
<1>1. Absent \in Row /\ Absent.status = "absent"
  BY DEF Absent, Row, TransactionStatus
<1>2. NoTimer \in TimerFrame /\ NoTimer.pc = "free"
  BY <1>1 DEF NoTimer, TimerFrame
<1>3. OpTypes
  BY <1>1, <1>2, FreshFrames DEF Init, OpTypes, Verdict
<1>4. OpRows
  BY <1>1 DEF Init, OpRows, OpRowGood
<1>5. OpCalls
  BY FreshFrames DEF Init, OpCalls
<1>6. OpTimers /\ HandleIsLive
  BY <1>2 DEF Init, OpTimers, OpTimerGood, HandleIsLive
<1> QED
  BY <1>3, <1>4, <1>5, <1>6 DEF OpInv

LEMMA OpNextKeeps == OpInv /\ [OpNext]_vars => OpInv'
<1> SUFFICES ASSUME OpInv, [OpNext]_vars
             PROVE  OpInv'
  OBVIOUS
<1>1. CASE Environment \/ Api
  BY <1>1, OpEnvironmentKeeps, OpCreateKeeps DEF Environment, Api
<1>2. CASE Intervals \/ \E s \in Server, c \in Call : Sweep(s, c)
  BY <1>2, OpMonitorsKeep, OpBeginKeeps DEF Intervals
<1>3. CASE \E c \in Call : Answers(c) \/ Update(c)
  BY <1>3, OpAnswerKeeps, OpFindKeeps, OpFindThenRetryKeeps, OpWriteKeeps
  DEF Update
<1>4. CASE \E k \in Timer : TimerFires(k) \/ ExecuteRetry(k)
  BY <1>4, OpTimerMovesKeeps, OpTimerEndsKeeps, OpRescheduleKeeps
  DEF ExecuteRetry
<1>5. CASE DbError
  BY <1>5, OpBeginKeeps, OpAnswerKeeps, OpTimerMovesKeeps, OpTimerEndsKeeps
  DEF DbError
<1>6. CASE Replica
  BY <1>6, OpStopKeeps, OpMonitorsKeep DEF Replica
<1>7. ASSUME NEW c \in Call, OperatorStep(c) PROVE OpInv'
  BY <1>7, CancelWritesKeeps, ManualGoesOnKeeps, OpMarksKeeps, OpAnswerKeeps,
     CancelsKeep, PrioritizeKeeps, ManualKeeps
  DEF OperatorStep
<1>8. CASE UNCHANGED vars
  <2>1. /\ UNCHANGED <<ledger, row, aged, up, retryQueue, call, timer>>
    BY <1>8 DEF vars
  <2>2. RowsFine
    BY <2>1, RowsStay
  <2> QED
    BY <2>1, <2>2, FramesStay DEF OpInv, OpTypes
<1> QED
  BY <1>1, <1>2, <1>3, <1>4, <1>5, <1>6, <1>7, <1>8 DEF OpNext, Next

LEMMA OpInductive == OpSpec => []OpInv
BY OpInitInv, OpNextKeeps, PTL DEF OpSpec

\* Whatever operators retry and cancel at the same time, a call in progress
\* belongs to a replica that runs and to a transaction that exists (OpTypeOK).
THEOREM CallsTyped == OpSpec => []OpTypeOK
<1>1. OpInv => OpTypeOK
  BY OpCallFacts DEF OpInv, OpTypes, OpCallGood, Present, OpTypeOK
<1> QED
  BY <1>1, OpInductive, PTL

\* No manual retry, however late its copy of the row, marks a transaction
\* CONFIRMED that the network did not accept (ConfirmedIsTrue).
THEOREM ConfirmedTrue == OpSpec => []ConfirmedIsTrue
<1>1. OpInv => ConfirmedIsTrue
  BY DEF OpInv, OpRows, OpRowGood, ConfirmedIsTrue
<1> QED
  BY <1>1, OpInductive, PTL

\* No client that raises or lowers a limit takes retryCount past the highest
\* limit that clients ask for (OpBudget).
THEOREM OperatorBudget == OpSpec => []OpBudget
<1>1. OpInv => OpBudget
  BY DEF OpInv, OpRows, OpRowGood, Counted, OpBudget
<1> QED
  BY <1>1, OpInductive, PTL

\* cancelRetry only ever clears the timeout of the retry that it reports as
\* cancelled (HandleIsLive).
THEOREM HandlesLive == OpSpec => []HandleIsLive
<1>1. OpInv => HandleIsLive
  BY DEF OpInv
<1> QED
  BY <1>1, OpInductive, PTL
=============================================================================
