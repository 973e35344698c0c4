----------------------- MODULE WebhookDeliveryProofs -----------------------
(***************************************************************************)
(* Proofs about WebhookDelivery, for any replicas, webhooks, events, call  *)
(* slots, limits, stops and database errors.                               *)
(***************************************************************************)
EXTENDS WebhookDelivery, FiniteSetTheorems, TLAPS

USE DEF history

(* What a row tells of the POSTs that were made.                           *)
RowGood(d) ==
  /\ row[d].attemptNumber <= posts[d]
  /\ row[d].status = "failed" =>
       \E n \in RetryLimit : n < row[d].attemptNumber
  /\ row[d].status = "success" => d \in accepted

(* What a call has read is not ahead of the POSTs either: before its own   *)
(* POST it holds an attempt that was made, after it the next one was made, *)
(* and it records a success only after the endpoint accepted.              *)
CallGood(c) ==
  LET d == call[c].delivery IN
  /\ call[c].pc = "post" => call[c].attemptNumber <= posts[d]
  /\ call[c].pc \in {"succeed", "count", "fail"} =>
       call[c].attemptNumber + 1 <= posts[d]
  /\ call[c].pc \in {"post", "succeed", "count", "fail"} =>
       call[c].maxRetries \in RetryLimit
  /\ call[c].pc \in {"succeed", "count"} => d \in accepted

Rows == \A d \in Delivery : RowGood(d)

Calls == \A c \in Call : call[c] # None => CallGood(c)

(* The inductive invariant behind GivenUpLate and SuccessIsAccepted.       *)
IInv == TypeOK /\ Rows /\ Calls

-----------------------------------------------------------------------------
(* A call that is somewhere is a frame of a delivery.                      *)
LEMMA CallTyped ==
  ASSUME TypeOK, NEW c \in Call, call[c] # None
  PROVE  /\ call[c] \in CallFrame
         /\ call[c].delivery \in Delivery
         /\ call[c].attemptNumber \in Nat
         /\ call[c].delivery[1] \in Webhook
<1>1. call[c] \in CallFrame
  BY DEF TypeOK
<1>2. call[c].delivery \in Webhook \X Event
  BY <1>1 DEF CallFrame, Delivery
<1> QED
  BY <1>1, <1>2 DEF CallFrame, Delivery

(* Starting, moving and ending a call keep the type of call.               *)
LEMMA StartTyped ==
  ASSUME TypeOK, NEW s \in Server, NEW d \in Delivery, StartCall(s, d)
  PROVE  call' \in [Call -> CallFrame \cup {None}]
<1>1. NewCall(s, d) \in CallFrame
  BY DEF NewCall, CallFrame
<1> QED
  BY <1>1 DEF StartCall, TypeOK

LEMMA GoToTyped ==
  ASSUME TypeOK, NEW c \in Call, call[c] # None,
         NEW pc \in {"find", "post", "succeed", "count", "fail",
                     "countFailure"},
         GoTo(c, pc)
  PROVE  /\ call' \in [Call -> CallFrame \cup {None}]
         /\ \A b \in Call : b # c => call'[b] = call[b]
         /\ call'[c] = [call[c] EXCEPT !.pc = pc]
         /\ call'[c].pc = pc /\ call'[c].delivery = call[c].delivery
         /\ call'[c].attemptNumber = call[c].attemptNumber
         /\ call'[c].maxRetries = call[c].maxRetries
<1>1. call[c] \in CallFrame /\ call \in [Call -> CallFrame \cup {None}]
  BY CallTyped DEF TypeOK
<1>2. [call[c] EXCEPT !.pc = pc] \in CallFrame
  BY <1>1 DEF CallFrame
<1>3. call' = [call EXCEPT ![c] = [call[c] EXCEPT !.pc = pc]]
  BY DEF GoTo
<1>4. call'[c] = [call[c] EXCEPT !.pc = pc]
  BY <1>1, <1>3
<1> QED
  BY <1>1, <1>2, <1>3, <1>4 DEF CallFrame

LEMMA EndTyped ==
  ASSUME TypeOK, NEW c \in Call, EndCall(c)
  PROVE  /\ call' \in [Call -> CallFrame \cup {None}]
         /\ \A b \in Call : call'[b] \in {call[b], None}
BY DEF EndCall, TypeOK

-----------------------------------------------------------------------------
LEMMA InitTyped == Init => TypeOK
<1> SUFFICES ASSUME Init PROVE TypeOK
  OBVIOUS
<1>1. Absent \in Row
  BY DEF Absent, Row
<1>2. webhook \in [Webhook -> WebhookRow]
  <2>1. \A w \in Webhook :
          webhook[w] \in [active : {TRUE}, maxRetries : RetryLimit,
                         deliveryCount : {0}, failureCount : {0}]
    BY DEF Init
  <2>2. \A w \in Webhook : webhook[w] \in WebhookRow
    <3> SUFFICES ASSUME NEW w \in Webhook PROVE webhook[w] \in WebhookRow
      OBVIOUS
    <3>1. PICK n \in RetryLimit :
            webhook[w] = [active |-> TRUE, maxRetries |-> n,
                          deliveryCount |-> 0, failureCount |-> 0]
      BY <2>1
    <3> QED
      BY <3>1 DEF WebhookRow
  <2>3. webhook = [w \in Webhook |-> webhook[w]]
    BY DEF Init
  <2> QED
    BY <2>2, <2>3
<1>3. NotYet \in TriggerFrame
  BY DEF TriggerFrame
<1>4. faults \in [stops : 0..MaxStops, db : 0..MaxDbErrors]
  BY FaultAssumption DEF Init
<1> QED
  BY <1>1, <1>2, <1>3, <1>4 DEF Init, TypeOK

LEMMA InitIInv == Init => IInv
<1> SUFFICES ASSUME Init PROVE IInv
  OBVIOUS
<1>1. Rows
  BY DEF Init, Rows, RowGood, Absent
<1>2. Calls
  BY DEF Init, Calls
<1> QED
  BY <1>1, <1>2, InitTyped DEF IInv

(* A step that touches no delivery row and no POST, and of the calls only  *)
(* starts, ends or fails one, keeps Rows and Calls.                        *)
LEMMA QuietKeeps ==
  ASSUME IInv, UNCHANGED <<row, posts, accepted>>,
         \A c \in Call :
           \/ call'[c] = call[c] \/ call'[c] = None
           \/ \E s \in Server, d \in Delivery : call'[c] = NewCall(s, d)
  PROVE  Rows' /\ Calls'
<1>1. Rows'
  BY DEF IInv, Rows, RowGood
<1>2. ASSUME NEW c \in Call, call'[c] # None PROVE CallGood(c)'
  <2>1. CASE call'[c] = call[c]
    BY <1>2, <2>1 DEF IInv, Calls, CallGood
  <2>2. CASE \E s \in Server, d \in Delivery : call'[c] = NewCall(s, d)
    BY <2>2 DEF CallGood, NewCall
  <2> QED
    BY <1>2, <2>1, <2>2
<1> QED
  BY <1>1, <1>2 DEF Calls

(* A POST of delivery d by call c, accepted or not, keeps Rows and Calls.  *)
LEMMA PostKeeps ==
  ASSUME IInv, NEW c \in Call, At(c, "post"), UNCHANGED row,
         NEW pc \in {"succeed", "fail"}, GoTo(c, pc),
         posts' = [posts EXCEPT ![call[c].delivery] = @ + 1],
         \/ accepted' = accepted \cup {call[c].delivery}
         \/ accepted' = accepted /\ pc = "fail"
  PROVE  /\ Rows' /\ Calls'
         /\ call' \in [Call -> CallFrame \cup {None}]
         /\ posts' \in [Delivery -> Nat] /\ accepted' \subseteq Delivery
<1> DEFINE D == call[c].delivery
<1>1. D \in Delivery /\ call[c] # None /\ call[c].attemptNumber \in Nat
  BY CallTyped DEF At, IInv
<1>2. posts \in [Delivery -> Nat] /\ accepted \subseteq Delivery
      /\ row \in [Delivery -> Row]
  BY DEF IInv, TypeOK
<1>3. /\ posts' \in [Delivery -> Nat] /\ accepted' \subseteq Delivery
      /\ accepted \subseteq accepted' /\ \A d \in Delivery : posts'[d] >= posts[d]
      /\ posts'[D] = posts[D] + 1
      /\ pc = "succeed" => D \in accepted'
  BY <1>1, <1>2
<1>4. /\ call' \in [Call -> CallFrame \cup {None}]
      /\ \A b \in Call : b # c => call'[b] = call[b]
      /\ call'[c].pc = pc /\ call'[c].delivery = D
      /\ call'[c].attemptNumber = call[c].attemptNumber
      /\ call'[c].maxRetries = call[c].maxRetries
  BY <1>1, GoToTyped DEF IInv
<1>5. Rows'
  BY <1>2, <1>3 DEF IInv, Rows, RowGood, Row
<1>6. ASSUME NEW b \in Call, call'[b] # None PROVE CallGood(b)'
  <2>1. CASE b = c
    BY <2>1, <1>1, <1>2, <1>3, <1>4 DEF IInv, Calls, CallGood, At
  <2>2. CASE b # c
    <3>1. call'[b] = call[b] /\ CallGood(b)
      BY <1>4, <1>6, <2>2 DEF IInv, Calls
    <3>2. call[b].delivery \in Delivery /\ call[b].attemptNumber \in Nat
      BY <1>6, <3>1, CallTyped DEF IInv
    <3> QED
      BY <1>2, <1>3, <3>1, <3>2 DEF CallGood
  <2> QED
    BY <2>1, <2>2
<1> QED
  BY <1>3, <1>4, <1>5, <1>6 DEF Calls

-----------------------------------------------------------------------------
LEMMA FaultTyped ==
  ASSUME TypeOK, CountDbError
  PROVE  faults' \in [stops : 0..MaxStops, db : 0..MaxDbErrors]
BY FaultAssumption DEF CountDbError, TypeOK

(* Steps of clients, of the trigger loop and of replicas.                  *)
LEMMA QuietStepKeeps ==
  ASSUME IInv,
         \/ \E w \in Webhook : UpdateWebhook(w)
         \/ \E s \in Server, e \in Event : TriggerWebhook(s, e)
         \/ \E e \in Event : TriggerReturns(e) \/ TriggerDbError(e)
         \/ \E s \in Server, d \in Delivery : RetryFailedDelivery(s, d)
         \/ \E s \in Server : Stop(s) \/ Start(s)
  PROVE  IInv'
<1> USE DEF IInv
<1>1. ASSUME NEW w \in Webhook, UpdateWebhook(w) PROVE IInv'
  <2>1. Rows' /\ Calls'
    BY <1>1, QuietKeeps DEF UpdateWebhook
  <2>2. webhook' \in [Webhook -> WebhookRow]
    BY <1>1 DEF UpdateWebhook, TypeOK, WebhookRow
  <2> QED
    BY <1>1, <2>1, <2>2 DEF UpdateWebhook, TypeOK
<1>2. ASSUME NEW s \in Server, NEW e \in Event, TriggerWebhook(s, e) PROVE IInv'
  <2>1. Rows' /\ Calls'
    BY <1>2, QuietKeeps DEF TriggerWebhook
  <2>2. trigger' \in [Event -> TriggerFrame]
    BY <1>2 DEF TriggerWebhook, TypeOK, TriggerFrame
  <2> QED
    BY <1>2, <2>1, <2>2 DEF TriggerWebhook, TypeOK
<1>3. ASSUME NEW e \in Event, TriggerReturns(e) \/ TriggerDbError(e) PROVE IInv'
  <2>1. Rows' /\ Calls'
    BY <1>3, QuietKeeps DEF TriggerReturns, TriggerDbError
  <2>2. trigger' \in [Event -> TriggerFrame]
    BY <1>3 DEF TriggerReturns, TriggerDbError, TypeOK, TriggerFrame
  <2>3. faults' \in [stops : 0..MaxStops, db : 0..MaxDbErrors]
    BY <1>3, FaultTyped DEF TriggerReturns, TriggerDbError, TypeOK
  <2> QED
    BY <1>3, <2>1, <2>2, <2>3 DEF TriggerReturns, TriggerDbError, TypeOK
<1>4. ASSUME NEW s \in Server, NEW d \in Delivery, RetryFailedDelivery(s, d)
      PROVE  IInv'
  <2>1. Rows' /\ Calls'
    BY <1>4, QuietKeeps DEF RetryFailedDelivery, StartCall, TypeOK
  <2>2. call' \in [Call -> CallFrame \cup {None}]
    BY <1>4, StartTyped DEF RetryFailedDelivery
  <2> QED
    BY <1>4, <2>1, <2>2 DEF RetryFailedDelivery, TypeOK
<1>5. ASSUME NEW s \in Server, Stop(s) PROVE IInv'
  <2>1. Rows' /\ Calls'
    BY <1>5, QuietKeeps DEF Stop
  <2>2. /\ trigger' \in [Event -> TriggerFrame]
        /\ call' \in [Call -> CallFrame \cup {None}]
    BY <1>5 DEF Stop, TypeOK, TriggerFrame
  <2>3. faults' \in [stops : 0..MaxStops, db : 0..MaxDbErrors]
    BY <1>5, FaultAssumption DEF Stop, TypeOK
  <2> QED
    BY <1>5, <2>1, <2>2, <2>3 DEF Stop, TypeOK
<1>6. ASSUME NEW s \in Server, Start(s) PROVE IInv'
  <2>1. Rows' /\ Calls'
    BY <1>6, QuietKeeps DEF Start
  <2> QED
    BY <1>6, <2>1 DEF Start, TypeOK
<1> QED
  BY <1>1, <1>2, <1>3, <1>4, <1>5, <1>6

(* Saving a new delivery and starting its first call.                      *)
LEMMA QueueKeeps ==
  ASSUME IInv, NEW e \in Event, NEW w \in Webhook, QueueWebhookDelivery(e, w)
  PROVE  IInv'
<1> USE DEF IInv
<1> DEFINE D == <<w, e>>
<1>1. D \in Delivery
  BY DEF Delivery
<1>2. PICK c \in Call : call' = [call EXCEPT ![c] = NewCall(trigger[e].srv, D)]
  BY DEF QueueWebhookDelivery, StartCall
<1>3. PICK s \in Server, ws \in SUBSET Webhook : trigger[e] = Loop(s, ws)
  BY DEF QueueWebhookDelivery, TypeOK, TriggerFrame, NotYet, Over
<1>4. call' \in [Call -> CallFrame \cup {None}]
  BY <1>1, <1>3, StartTyped DEF QueueWebhookDelivery, Loop
<1>5. NewDelivery \in Row /\ NewDelivery.attemptNumber = 0
  BY DEF NewDelivery, Row, DeliveryStatus
<1>6. /\ row' = [row EXCEPT ![D] = NewDelivery] /\ row' \in [Delivery -> Row]
      /\ UNCHANGED <<webhook, up, history, faults>>
  BY <1>5 DEF QueueWebhookDelivery, TypeOK
<1>7. trigger' \in [Event -> TriggerFrame]
  <2>1. [trigger[e] EXCEPT !.todo = @ \ {w}] = Loop(s, ws \ {w})
    BY <1>3 DEF Loop
  <2>2. trigger' = [trigger EXCEPT ![e] = Loop(s, ws \ {w})]
    BY <2>1 DEF QueueWebhookDelivery
  <2> QED
    BY <2>2 DEF TypeOK, TriggerFrame
<1>8. Rows'
  BY <1>1, <1>5, <1>6 DEF Rows, RowGood, TypeOK, NewDelivery
<1>9. Calls'
  BY <1>2, <1>6 DEF Calls, CallGood, NewCall, TypeOK
<1> QED
  BY <1>4, <1>6, <1>7, <1>8, <1>9 DEF TypeOK

LEMMA BackoffKeeps ==
  ASSUME IInv, NEW d \in Delivery, BackoffEnds(d)
  PROVE  IInv'
<1> USE DEF IInv
<1>1. row' = [row EXCEPT ![d] = [row[d] EXCEPT !.due = TRUE]]
      /\ row \in [Delivery -> Row]
  BY DEF BackoffEnds, TypeOK
<1>2. /\ row' \in [Delivery -> Row]
      /\ \A x \in Delivery : /\ row'[x].status = row[x].status
                            /\ row'[x].attemptNumber = row[x].attemptNumber
  BY <1>1 DEF Row
<1> QED
  BY <1>2 DEF BackoffEnds, TypeOK, Rows, RowGood, Calls, CallGood

-----------------------------------------------------------------------------
(* The steps of a call.                                                    *)
LEMMA FindKeeps ==
  ASSUME IInv, NEW c \in Call, FindDelivery(c)
  PROVE  IInv'
<1> USE DEF IInv
<1> DEFINE D == call[c].delivery
           f == [call[c] EXCEPT !.pc = "post",
                                !.attemptNumber = row[D].attemptNumber,
                                !.maxRetries = webhook[D[1]].maxRetries]
<1>1. call[c] \in CallFrame /\ D \in Delivery /\ D[1] \in Webhook
  BY CallTyped DEF FindDelivery, At
<1>2. row[D].attemptNumber \in Nat /\ webhook[D[1]].maxRetries \in RetryLimit
  BY <1>1 DEF TypeOK, Row, WebhookRow
<1>3. /\ f \in CallFrame /\ f.pc = "post" /\ f.delivery = D
      /\ f.attemptNumber = row[D].attemptNumber
      /\ f.maxRetries \in RetryLimit
  BY <1>1, <1>2 DEF CallFrame
<1>4. call' = [call EXCEPT ![c] = f]
      /\ UNCHANGED <<webhook, row, trigger, up, history, faults>>
  BY DEF FindDelivery
<1>5. TypeOK'
  BY <1>3, <1>4 DEF TypeOK
<1>6. Rows'
  BY <1>4 DEF Rows, RowGood
<1>7. ASSUME NEW b \in Call, call'[b] # None PROVE CallGood(b)'
  <2>1. CASE b = c
    <3>1. call'[b] = f
      BY <1>4, <2>1 DEF TypeOK
    <3> QED
      BY <1>1, <1>3, <1>4, <3>1 DEF CallGood, Rows, RowGood
  <2>2. CASE b # c
    BY <1>4, <1>7, <2>2 DEF TypeOK, Calls, CallGood
  <2> QED
    BY <2>1, <2>2
<1> QED
  BY <1>5, <1>6, <1>7 DEF Calls

LEMMA PostStepKeeps ==
  ASSUME IInv, NEW c \in Call,
         PostAccepted(c) \/ PostUnanswered(c) \/ PostRejected(c)
  PROVE  IInv'
<1>1. /\ Rows' /\ Calls'
      /\ call' \in [Call -> CallFrame \cup {None}]
      /\ posts' \in [Delivery -> Nat] /\ accepted' \subseteq Delivery
  <2>1. CASE PostAccepted(c)
    BY <2>1, PostKeeps DEF PostAccepted
  <2>2. CASE PostUnanswered(c)
    BY <2>2, PostKeeps DEF PostUnanswered
  <2>3. CASE PostRejected(c)
    BY <2>3, PostKeeps DEF PostRejected
  <2> QED
    BY <2>1, <2>2, <2>3
<1>2. UNCHANGED <<webhook, row, trigger, up, faults>>
  BY DEF PostAccepted, PostUnanswered, PostRejected
<1>3. answers' \in [Webhook -> Nat]
  BY DEF PostAccepted, PostUnanswered, PostRejected, IInv, TypeOK
<1> QED
  BY <1>1, <1>2, <1>3 DEF IInv, TypeOK

\* The UPDATE of a delivery that is given up.
LEMMA GivenUpRow ==
  ASSUME NEW d \in Row, NEW n \in Nat
  PROVE  LET r == [d EXCEPT !.status = "failed", !.attemptNumber = n]
         IN r \in Row /\ r.status = "failed" /\ r.attemptNumber = n
BY DEF Row, DeliveryStatus

(* A call that moves on from the POST without touching the row.            *)
LEMMA OutcomeKeeps ==
  ASSUME IInv, NEW c \in Call, RecordSuccess(c) \/ GiveUp(c) \/ SuccessDbError(c)
  PROVE  IInv'
<1> USE DEF IInv
<1> DEFINE D == call[c].delivery
<1>1. /\ call[c] # None /\ call[c] \in CallFrame /\ D \in Delivery
      /\ call[c].attemptNumber \in Nat
  BY CallTyped DEF RecordSuccess, GiveUp, SuccessDbError, At
<1>2. CallGood(c)
  BY <1>1 DEF Calls
<1>3. PICK pc \in {"count", "countFailure", "fail"} :
        /\ GoTo(c, pc)
        /\ pc = "count" => call[c].pc = "succeed"
        /\ pc = "fail" => call[c].pc \in {"succeed", "count"}
  BY DEF RecordSuccess, GiveUp, SuccessDbError, At
<1>4. /\ call' \in [Call -> CallFrame \cup {None}]
      /\ \A b \in Call : b # c => call'[b] = call[b]
      /\ call'[c].pc = pc /\ call'[c].delivery = D
      /\ call'[c].attemptNumber = call[c].attemptNumber
      /\ call'[c].maxRetries = call[c].maxRetries
  BY <1>1, <1>3, GoToTyped
<1>5. UNCHANGED <<webhook, trigger, up, history>>
  BY DEF RecordSuccess, GiveUp, SuccessDbError
<1>6. Calls'
  <2>1. ASSUME NEW b \in Call, call'[b] # None PROVE CallGood(b)'
    <3>1. CASE b = c
      BY <1>2, <1>3, <1>4, <1>5, <3>1 DEF CallGood
    <3>2. CASE b # c
      BY <1>4, <1>5, <2>1, <3>2 DEF Calls, CallGood
    <3> QED
      BY <3>1, <3>2
  <2> QED
    BY <2>1 DEF Calls
<1>7. row' \in [Delivery -> Row] /\ Rows'
  <2>1. CASE RecordSuccess(c)
    <3>1. row' = [row EXCEPT ![D] = [row[D] EXCEPT !.status = "success"]]
          /\ D \in accepted
      BY <1>2, <2>1 DEF RecordSuccess, CallGood, At
    <3>2. [row[D] EXCEPT !.status = "success"] \in Row
      BY <1>1 DEF TypeOK, Row, DeliveryStatus
    <3> QED
      BY <1>1, <1>5, <3>1, <3>2 DEF TypeOK, Rows, RowGood, Row
  <2>2. CASE GiveUp(c)
    <3> DEFINE n == call[c].attemptNumber + 1
               r == [row[D] EXCEPT !.status = "failed", !.attemptNumber = n]
    <3>1. row' = [row EXCEPT ![D] = r]
      BY <2>2 DEF GiveUp, ThisAttempt
    <3>2. n \in Nat /\ n <= posts[D] /\ call[c].maxRetries \in RetryLimit
          /\ call[c].maxRetries < n
      BY <1>1, <1>2, <2>2, LimitAssumption
      DEF GiveUp, CallGood, At, Exhausted, ThisAttempt
    <3>3. row[D] \in Row
      BY <1>1 DEF TypeOK
    <3>4. r \in Row /\ r.status = "failed" /\ r.attemptNumber = n
      BY <3>2, <3>3, GivenUpRow
    <3> HIDE DEF r
    <3> QED
      BY <1>1, <1>5, <3>1, <3>2, <3>4 DEF TypeOK, Rows, RowGood
  <2>3. CASE SuccessDbError(c)
    BY <1>5, <2>3 DEF SuccessDbError, TypeOK, Rows, RowGood
  <2> QED
    BY <2>1, <2>2, <2>3
<1>8. faults' \in [stops : 0..MaxStops, db : 0..MaxDbErrors]
  BY FaultTyped DEF RecordSuccess, GiveUp, SuccessDbError, TypeOK
<1> QED
  BY <1>4, <1>5, <1>6, <1>7, <1>8 DEF TypeOK

(* A call that ends.                                                       *)
LEMMA EndKeeps ==
  ASSUME IInv, NEW c \in Call,
         \/ CountDelivery(c) \/ CountFailure(c) \/ PlanRetry(c)
         \/ CallDbError(c)
  PROVE  IInv'
<1> USE DEF IInv
<1> DEFINE D == call[c].delivery
<1>1. /\ call[c] # None /\ D \in Delivery /\ D[1] \in Webhook
      /\ call[c].attemptNumber \in Nat
  BY CallTyped DEF CountDelivery, CountFailure, PlanRetry, CallDbError, At
<1>2. EndCall(c) /\ UNCHANGED <<trigger, up, history>>
  BY DEF CountDelivery, CountFailure, PlanRetry, CallDbError
<1>3. /\ call' \in [Call -> CallFrame \cup {None}]
      /\ \A b \in Call : call'[b] \in {call[b], None}
  BY <1>2, EndTyped
<1>4. Calls'
  BY <1>2, <1>3 DEF Calls, CallGood
<1>5. row' \in [Delivery -> Row] /\ Rows'
  <2>1. CASE row' = row
    BY <1>2, <2>1 DEF TypeOK, Rows, RowGood
  <2>2. CASE PlanRetry(c)
    <3> DEFINE n == call[c].attemptNumber + 1
    <3>1. row' = [row EXCEPT ![D] = [status |-> "retrying",
                                     attemptNumber |-> n, due |-> FALSE]]
      BY <2>2 DEF PlanRetry, ThisAttempt
    <3>2. n \in Nat /\ n <= posts[D]
      BY <1>1, <2>2 DEF PlanRetry, At, Calls, CallGood
    <3> QED
      BY <1>1, <1>2, <3>1, <3>2 DEF TypeOK, Row, DeliveryStatus, Rows, RowGood
  <2> QED
    BY <2>1, <2>2 DEF CountDelivery, CountFailure, CallDbError
<1>6. webhook' \in [Webhook -> WebhookRow]
  <2>1. webhook[D[1]] \in WebhookRow
    BY <1>1 DEF TypeOK
  <2>2. /\ [webhook[D[1]] EXCEPT !.deliveryCount = @ + 1] \in WebhookRow
        /\ [webhook[D[1]] EXCEPT !.failureCount = @ + 1] \in WebhookRow
    BY <2>1 DEF WebhookRow
  <2> QED
    BY <1>1, <2>2
    DEF TypeOK, CountDelivery, CountFailure, PlanRetry, CallDbError
<1>7. faults' \in [stops : 0..MaxStops, db : 0..MaxDbErrors]
  BY FaultTyped DEF CountDelivery, CountFailure, PlanRetry, CallDbError, TypeOK
<1> QED
  BY <1>2, <1>3, <1>4, <1>5, <1>6, <1>7 DEF TypeOK

-----------------------------------------------------------------------------
LEMMA NextKeeps == IInv /\ [Next]_vars => IInv'
<1> SUFFICES ASSUME IInv, [Next]_vars PROVE IInv'
  OBVIOUS
<1>1. CASE UNCHANGED vars
  BY <1>1 DEF vars, IInv, TypeOK, Rows, RowGood, Calls, CallGood
<1>2. CASE \E e \in Event, w \in Webhook : QueueWebhookDelivery(e, w)
  BY <1>2, QueueKeeps
<1>3. CASE \E d \in Delivery : BackoffEnds(d)
  BY <1>3, BackoffKeeps
<1>4. ASSUME NEW c \in Call, Process(c) \/ SuccessDbError(c) \/ CallDbError(c)
      PROVE  IInv'
  BY <1>4, FindKeeps, PostStepKeeps, OutcomeKeeps, EndKeeps DEF Process
<1> QED
  BY <1>1, <1>2, <1>3, <1>4, QuietStepKeeps DEF Next, Triggers

THEOREM Invariance == Spec => []IInv
BY InitIInv, NextKeeps, PTL DEF Spec

(* No delivery is given up before its client's limit was exceeded by POSTs *)
(* that were made (handleFailedDelivery).                                  *)
THEOREM DeliveryNotGivenUpEarly == Spec => []GivenUpLate
<1>1. IInv => GivenUpLate
  BY DEF IInv, Rows, RowGood, GivenUpLate
<1> QED
  BY Invariance, <1>1, PTL

(* SUCCESS is only recorded of a delivery the endpoint accepted            *)
(* (processWebhookDelivery).                                               *)
THEOREM DeliverySuccessTrue == Spec => []SuccessIsAccepted
<1>1. IInv => SuccessIsAccepted
  BY DEF IInv, Rows, RowGood, SuccessIsAccepted
<1> QED
  BY Invariance, <1>1, PTL

-----------------------------------------------------------------------------
(* OneFirstAttempt needs to know where a delivery's first call comes from: *)
(* a row that is absent has no call and no POST, and only such a row is    *)
(* still to be queued; until the outcome is recorded one call at most      *)
(* works on the row, and it has not made its POST or has made the only one.*)
First(d) ==
  /\ row[d].status = "absent" => posts[d] = 0 /\ Working(d) = {}
  /\ row[d].status = "pending" =>
       /\ posts[d] <= 1
       /\ \A b, c \in Working(d) : b = c
       /\ \A c \in Working(d) : call[c].pc \in {"find", "post"} => posts[d] = 0

Firsts == \A d \in Delivery : First(d)

ToQueue(w, e) == \/ trigger[e].pc = "new"
                 \/ trigger[e].pc = "loop" /\ w \in trigger[e].todo

Queues == \A w \in Webhook, e \in Event :
            ToQueue(w, e) => row[<<w, e>>].status = "absent"

FInv == IInv /\ Firsts /\ Queues

LEMMA InitFInv == Init => FInv
<1> SUFFICES ASSUME Init PROVE FInv
  OBVIOUS
<1>1. Firsts
  BY DEF Init, Firsts, First, Working, Absent
<1>2. Queues
  BY DEF Init, Queues, Absent, Delivery
<1> QED
  BY <1>1, <1>2, InitIInv DEF FInv

(* A row that a call works on is not still to be queued.                   *)
LEMMA WorkedOn ==
  ASSUME FInv, NEW c \in Call, call[c] # None
  PROVE  /\ call[c].delivery \in Delivery
         /\ row[call[c].delivery].status # "absent"
<1>1. call[c].delivery \in Delivery
  BY CallTyped DEF FInv, IInv
<1>2. c \in Working(call[c].delivery)
  BY DEF Working
<1> QED
  BY <1>1, <1>2 DEF FInv, Firsts, First

(* Steps that leave rows and POSTs alone, and start no call.               *)
LEMMA IdleKeepsFirst ==
  ASSUME FInv, UNCHANGED <<row, posts>>,
         \A c \in Call : \/ call'[c] = None
                         \/ /\ call[c] # None
                            /\ call'[c].delivery = call[c].delivery
                            /\ \/ call'[c].pc \notin {"find", "post"}
                               \/ call[c].pc \in {"find", "post"}
  PROVE  Firsts'
<1> SUFFICES ASSUME NEW d \in Delivery PROVE First(d)'
  BY DEF Firsts
<1>1. First(d)
  BY DEF FInv, Firsts
<1>2. \A c \in Working(d)' :
        /\ c \in Working(d)
        /\ call'[c].pc \in {"find", "post"} => call[c].pc \in {"find", "post"}
  BY DEF Working
<1> QED
  BY <1>1, <1>2 DEF First

(* Steps that record an outcome: the row of a call, not absent before, is  *)
(* neither absent nor pending after, and no call starts.                   *)
LEMMA OutcomeKeepsFirst ==
  ASSUME FInv, NEW c \in Call, call[c] # None, UNCHANGED posts,
         \A d \in Delivery : d # call[c].delivery => row'[d] = row[d],
         row'[call[c].delivery].status \notin {"absent", "pending"},
         \A b \in Call : b # c => call'[b] = call[b],
         call'[c] # None => call'[c].delivery = call[c].delivery
  PROVE  Firsts'
<1> SUFFICES ASSUME NEW d \in Delivery PROVE First(d)'
  BY DEF Firsts
<1>1. CASE d = call[c].delivery
  BY <1>1 DEF First
<1>2. CASE d # call[c].delivery
  <2>1. First(d) /\ row'[d] = row[d]
    BY <1>2 DEF FInv, Firsts
  <2>2. \A b \in Working(d)' : b \in Working(d) /\ call'[b] = call[b]
    BY <1>2 DEF Working
  <2> QED
    BY <2>1, <2>2 DEF First
<1> QED
  BY <1>1, <1>2

(* The queue of a trigger shrinks, or is chosen among all webhooks; a row  *)
(* that is not absent stays so, and only a queued row ceases to be absent. *)
LEMMA QueuesKept ==
  ASSUME FInv,
         \A w \in Webhook, e \in Event :
           ToQueue(w, e)' => ToQueue(w, e) /\ row'[<<w, e>>] = row[<<w, e>>]
  PROVE  Queues'
BY DEF FInv, Queues, ToQueue

(* Steps of the trigger loop, of the cron and of replicas.                 *)
LEMMA QuietStepKeepsFirst ==
  ASSUME FInv,
         \/ \E w \in Webhook : UpdateWebhook(w)
         \/ \E s \in Server, e \in Event : TriggerWebhook(s, e)
         \/ \E e \in Event : TriggerReturns(e) \/ TriggerDbError(e)
         \/ \E s \in Server : Stop(s) \/ Start(s)
  PROVE  Firsts' /\ Queues'
<1> USE DEF FInv, IInv
<1>1. UNCHANGED <<row, posts>>
  BY DEF UpdateWebhook, TriggerWebhook, TriggerReturns, TriggerDbError, Stop,
         Start
<1>2. \A c \in Call : call'[c] \in {call[c], None}
  BY DEF UpdateWebhook, TriggerWebhook, TriggerReturns, TriggerDbError, Stop,
         Start
<1>3. Firsts'
  BY <1>1, <1>2, IdleKeepsFirst
<1>4. \A w \in Webhook, e \in Event : ToQueue(w, e)' => ToQueue(w, e)
  <2> SUFFICES ASSUME NEW w \in Webhook, NEW e \in Event, ToQueue(w, e)'
               PROVE  ToQueue(w, e)
    OBVIOUS
  <2>1. CASE trigger'[e] = trigger[e]
    BY <2>1 DEF ToQueue
  <2>2. CASE \E s \in Server : TriggerWebhook(s, e)
    BY <2>2 DEF TriggerWebhook, ToQueue
  <2>3. CASE trigger'[e] = Over
    BY <2>3 DEF ToQueue, Over, NotYet
  <2> QED
    BY <2>1, <2>2, <2>3
    DEF TypeOK, UpdateWebhook, TriggerWebhook, TriggerReturns, TriggerDbError,
        Stop, Start
<1>5. Queues'
  BY <1>1, <1>4, QueuesKept
<1> QED
  BY <1>3, <1>5

LEMMA QueueKeepsFirst ==
  ASSUME FInv, NEW e \in Event, NEW w \in Webhook, QueueWebhookDelivery(e, w)
  PROVE  Firsts' /\ Queues'
<1> USE DEF FInv, IInv
<1> DEFINE D == <<w, e>>
<1>1. D \in Delivery /\ row[D].status = "absent"
  BY DEF Delivery, Queues, ToQueue, QueueWebhookDelivery
<1>2. posts[D] = 0 /\ Working(D) = {}
  BY <1>1 DEF Firsts, First
<1>3. PICK c \in Call : /\ call[c] = None
                       /\ call' = [call EXCEPT ![c] = NewCall(trigger[e].srv, D)]
  BY DEF QueueWebhookDelivery, StartCall
<1>4. row' = [row EXCEPT ![D] = NewDelivery] /\ posts' = posts
  BY DEF QueueWebhookDelivery
<1>5. Firsts'
  <2> SUFFICES ASSUME NEW d \in Delivery PROVE First(d)'
    BY DEF Firsts
  <2>1. CASE d = D
    <3>1. row'[d].status = "pending"
      BY <1>4, <2>1 DEF TypeOK, NewDelivery
    <3>2. \A b \in Working(d)' : b = c
      BY <1>2, <1>3, <2>1 DEF Working, TypeOK
    <3> QED
      BY <1>2, <1>4, <2>1, <3>1, <3>2 DEF First
  <2>2. CASE d # D
    <3>1. row'[d] = row[d] /\ First(d)
      BY <1>4, <2>2 DEF TypeOK, Firsts
    <3>2. \A b \in Working(d)' : b \in Working(d) /\ call'[b] = call[b]
      BY <1>3, <2>2 DEF Working, TypeOK, NewCall
    <3> QED
      BY <1>4, <3>1, <3>2 DEF First
  <2> QED
    BY <2>1, <2>2
<1>6. trigger' = [trigger EXCEPT ![e] = [trigger[e] EXCEPT !.todo = @ \ {w}]]
  BY DEF QueueWebhookDelivery
<1>7. trigger'[e].todo = trigger[e].todo \ {w} /\ trigger'[e].pc = "loop"
  <2>1. PICK s \in Server, ws \in SUBSET Webhook : trigger[e] = Loop(s, ws)
    BY DEF QueueWebhookDelivery, TypeOK, TriggerFrame, NotYet, Over
  <2> QED
    BY <1>6, <2>1 DEF TypeOK, Loop, QueueWebhookDelivery
<1>8. Queues'
  <2> SUFFICES ASSUME NEW x \in Webhook, NEW f \in Event, ToQueue(x, f)'
               PROVE  ToQueue(x, f) /\ row'[<<x, f>>] = row[<<x, f>>]
    BY QueuesKept
  <2>1. CASE f = e
    BY <1>4, <1>7, <2>1 DEF ToQueue, QueueWebhookDelivery, TypeOK, Delivery
  <2>2. CASE f # e
    BY <1>4, <1>6, <2>2 DEF ToQueue, TypeOK, Delivery
  <2> QED
    BY <2>1, <2>2
<1> QED
  BY <1>5, <1>8

(* The cron starts a call for a row that reads RETRYING.                   *)
LEMMA RetryKeepsFirst ==
  ASSUME FInv, NEW s \in Server, NEW d \in Delivery, RetryFailedDelivery(s, d)
  PROVE  Firsts' /\ Queues'
<1> USE DEF FInv, IInv
<1>1. PICK c \in Call : call' = [call EXCEPT ![c] = NewCall(s, d)]
                       /\ call[c] = None
  BY DEF RetryFailedDelivery, StartCall
<1>2. /\ row[d].status = "retrying"
      /\ UNCHANGED <<row, posts, trigger>>
  BY DEF RetryFailedDelivery, Due
<1>3. ASSUME NEW x \in Delivery PROVE First(x)'
  <2>1. CASE x = d
    BY <1>2, <2>1 DEF First
  <2>2. CASE x # d
    <3>1. \A b \in Working(x)' : b \in Working(x) /\ call'[b] = call[b]
      BY <1>1, <2>2 DEF Working, TypeOK, NewCall
    <3> QED
      BY <1>2, <3>1 DEF Firsts, First
  <2> QED
    BY <2>1, <2>2
<1>4. Queues'
  BY <1>2, QueuesKept DEF ToQueue
<1> QED
  BY <1>3, <1>4 DEF Firsts

LEMMA BackoffKeepsFirst ==
  ASSUME FInv, NEW d \in Delivery, BackoffEnds(d)
  PROVE  Firsts' /\ Queues'
<1> USE DEF FInv, IInv
<1>1. /\ row' = [row EXCEPT ![d] = [row[d] EXCEPT !.due = TRUE]]
      /\ UNCHANGED <<posts, call, trigger>>
  BY DEF BackoffEnds
<1>2. \A x \in Delivery : row'[x].status = row[x].status
  BY <1>1 DEF TypeOK, Row
<1>3. Firsts'
  BY <1>1, <1>2 DEF Firsts, First, Working
<1>4. Queues'
  BY <1>1, <1>2 DEF Queues, ToQueue, Delivery
<1> QED
  BY <1>3, <1>4

LEMMA PostKeepsFirst ==
  ASSUME FInv, NEW c \in Call,
         PostAccepted(c) \/ PostUnanswered(c) \/ PostRejected(c)
  PROVE  Firsts' /\ Queues'
<1> USE DEF FInv, IInv
<1> DEFINE D == call[c].delivery
<1>1. call[c] # None /\ call[c].pc = "post" /\ UNCHANGED <<row, trigger>>
  BY DEF PostAccepted, PostUnanswered, PostRejected, At
<1>2. D \in Delivery /\ c \in Working(D)
  BY <1>1, WorkedOn DEF Working
<1>3. posts' = [posts EXCEPT ![D] = posts[D] + 1]
  BY DEF PostAccepted, PostUnanswered, PostRejected
<1>4. /\ \A b \in Call : b # c => call'[b] = call[b]
      /\ call'[c].delivery = D
      /\ call'[c].pc \notin {"find", "post"}
  <2>1. PICK pc \in {"succeed", "fail"} : GoTo(c, pc)
    BY DEF PostAccepted, PostUnanswered, PostRejected
  <2> QED
    BY <1>1, <2>1, GoToTyped
<1>5. ASSUME NEW d \in Delivery PROVE First(d)'
  <2>1. \A b \in Working(d)' : b \in Working(d)
    BY <1>1, <1>4 DEF Working
  <2>2. First(d)
    BY DEF Firsts
  <2>3. CASE d = D
    <3>1. row[d].status # "absent"
      BY <1>1, <2>3, WorkedOn
    <3>2. row[d].status = "pending" =>
            posts[d] = 0 /\ \A b \in Working(d) : b = c
      BY <1>1, <1>2, <2>2, <2>3 DEF First
    <3>3. posts'[d] = posts[d] + 1
      BY <1>2, <1>3, <2>3 DEF TypeOK
    <3> QED
      BY <1>1, <1>4, <2>1, <3>1, <3>2, <3>3 DEF First
  <2>4. CASE d # D
    <3>1. \A b \in Working(d)' : call'[b] = call[b]
      BY <1>4, <2>4 DEF Working
    <3>2. posts'[d] = posts[d]
      BY <1>2, <1>3, <2>4 DEF TypeOK
    <3> QED
      BY <1>1, <2>1, <2>2, <3>1, <3>2 DEF First
  <2> QED
    BY <2>3, <2>4
<1>6. Queues'
  BY <1>1, QueuesKept DEF ToQueue
<1> QED
  BY <1>5, <1>6 DEF Firsts

(* The other steps of a call record an outcome or leave the row alone.     *)
LEMMA CallKeepsFirst ==
  ASSUME FInv, NEW c \in Call,
         \/ FindDelivery(c) \/ RecordSuccess(c) \/ CountDelivery(c)
         \/ GiveUp(c) \/ CountFailure(c) \/ PlanRetry(c)
         \/ SuccessDbError(c) \/ CallDbError(c)
  PROVE  Firsts' /\ Queues'
<1> USE DEF FInv, IInv
<1> DEFINE D == call[c].delivery
<1>1. call[c] # None /\ UNCHANGED <<posts, trigger>>
  BY DEF FindDelivery, RecordSuccess, CountDelivery, GiveUp, CountFailure,
         PlanRetry, SuccessDbError, CallDbError, At
<1>2. D \in Delivery /\ row[D].status # "absent"
  BY <1>1, WorkedOn
<1>3. CASE RecordSuccess(c) \/ GiveUp(c) \/ PlanRetry(c)
  <2>1. /\ \A d \in Delivery : d # D => row'[d] = row[d]
        /\ row'[D].status \notin {"absent", "pending"}
    BY <1>2, <1>3 DEF RecordSuccess, GiveUp, PlanRetry, TypeOK, Row
  <2>2. /\ \A b \in Call : b # c => call'[b] = call[b]
        /\ call'[c] # None => call'[c].delivery = D
    <3>1. CASE PlanRetry(c)
      BY <3>1 DEF PlanRetry, EndCall, TypeOK
    <3>2. CASE RecordSuccess(c) \/ GiveUp(c)
      <4>1. PICK pc \in {"count", "countFailure"} : GoTo(c, pc)
        BY <3>2 DEF RecordSuccess, GiveUp
      <4> QED
        BY <1>1, <4>1, GoToTyped
    <3> QED
      BY <1>3, <3>1, <3>2
  <2>3. Firsts'
    BY <1>1, <2>1, <2>2, OutcomeKeepsFirst
  <2>4. \A w \in Webhook, e \in Event :
          ToQueue(w, e)' => ToQueue(w, e) /\ row'[<<w, e>>] = row[<<w, e>>]
    BY <1>1, <1>2, <2>1 DEF ToQueue, Queues, Delivery
  <2> QED
    BY <2>3, <2>4, QueuesKept
<1>4. CASE FindDelivery(c) \/ SuccessDbError(c) \/ CallDbError(c)
           \/ CountDelivery(c) \/ CountFailure(c)
  <2>1. UNCHANGED row
    BY <1>4 DEF FindDelivery, SuccessDbError, CallDbError, CountDelivery,
                CountFailure
  <2>2. \A b \in Call :
          \/ call'[b] = None
          \/ /\ call[b] # None /\ call'[b].delivery = call[b].delivery
             /\ \/ call'[b].pc \notin {"find", "post"}
                \/ call[b].pc \in {"find", "post"}
    <3>1. CASE FindDelivery(c)
      <4>1. call[c] \in CallFrame /\ call[c].pc = "find"
        BY <1>1, <3>1, CallTyped DEF FindDelivery, At
      <4>2. call'[c].delivery = D /\ \A b \in Call : b # c => call'[b] = call[b]
        BY <3>1, <4>1 DEF FindDelivery, TypeOK, CallFrame
      <4> QED
        BY <1>1, <4>1, <4>2
    <3>2. CASE SuccessDbError(c)
      <4>1. GoTo(c, "fail")
        BY <3>2 DEF SuccessDbError
      <4> QED
        BY <1>1, <4>1, GoToTyped
    <3>3. CASE CallDbError(c) \/ CountDelivery(c) \/ CountFailure(c)
      <4>1. EndCall(c)
        BY <3>3 DEF CallDbError, CountDelivery, CountFailure
      <4> QED
        BY <4>1, EndTyped
    <3> QED
      BY <1>4, <3>1, <3>2, <3>3
  <2>3. Firsts'
    BY <1>1, <2>1, <2>2, IdleKeepsFirst
  <2>4. Queues'
    BY <1>1, <2>1, QueuesKept DEF ToQueue
  <2> QED
    BY <2>3, <2>4
<1> QED
  BY <1>3, <1>4

LEMMA NextKeepsFirst == FInv /\ [Next]_vars => FInv'
<1> SUFFICES ASSUME FInv, [Next]_vars PROVE FInv'
  OBVIOUS
<1>1. IInv'
  BY NextKeeps DEF FInv
<1>2. CASE UNCHANGED vars
  BY <1>1, <1>2
  DEF vars, FInv, Firsts, First, Working, Queues, ToQueue
<1>3. CASE \E e \in Event, w \in Webhook : QueueWebhookDelivery(e, w)
  BY <1>1, <1>3, QueueKeepsFirst DEF FInv
<1>4. CASE \E d \in Delivery : BackoffEnds(d)
  BY <1>1, <1>4, BackoffKeepsFirst DEF FInv
<1>5. CASE \E s \in Server, d \in Delivery : RetryFailedDelivery(s, d)
  BY <1>1, <1>5, RetryKeepsFirst DEF FInv
<1>6. ASSUME NEW c \in Call, Process(c) \/ SuccessDbError(c) \/ CallDbError(c)
      PROVE  FInv'
  BY <1>1, <1>6, PostKeepsFirst, CallKeepsFirst DEF Process, FInv
<1>7. CASE \/ \E w \in Webhook : UpdateWebhook(w)
           \/ \E s \in Server, e \in Event : TriggerWebhook(s, e)
           \/ \E e \in Event : TriggerReturns(e) \/ TriggerDbError(e)
           \/ \E s \in Server : Stop(s) \/ Start(s)
  BY <1>1, <1>7, QuietStepKeepsFirst DEF FInv
<1> QED
  BY <1>2, <1>3, <1>4, <1>5, <1>6, <1>7 DEF Next, Triggers

(* Until its first outcome is recorded a delivery has one call and one     *)
(* POST at most (queueWebhookDelivery, retryFailedDeliveries).             *)
THEOREM FirstAttemptAlone == Spec => []OneFirstAttempt
<1>1. FInv => OneFirstAttempt
  BY DEF FInv, Firsts, First, OneFirstAttempt
<1> QED
  BY InitFInv, NextKeepsFirst, <1>1, PTL DEF Spec

-----------------------------------------------------------------------------
(* CountIsHonest.  A call whose POST was answered and that has not counted *)
(* it yet stands for one answer not in deliveryCount.                      *)
Answered(w) == {c \in Call : /\ call[c] # None /\ call[c].delivery[1] = w
                             /\ call[c].pc \in {"succeed", "count"}}

Counts == \A w \in Webhook :
            webhook[w].deliveryCount + Cardinality(Answered(w)) <= answers[w]

LEMMA AnsweredFinite ==
  ASSUME NEW w
  PROVE  IsFiniteSet(Answered(w)) /\ Cardinality(Answered(w)) \in Nat
<1>1. Answered(w) \subseteq Call
  BY DEF Answered
<1> QED
  BY <1>1, CallAssumption, FS_Subset, FS_CardinalityType

(* A step that answers no POST and counts none.                            *)
LEMMA CountsKept ==
  ASSUME TypeOK, TypeOK', Counts, UNCHANGED answers,
         \A w \in Webhook : webhook'[w].deliveryCount = webhook[w].deliveryCount,
         \A w \in Webhook : Answered(w)' \subseteq Answered(w)
  PROVE  Counts'
<1> SUFFICES ASSUME NEW w \in Webhook
             PROVE  webhook'[w].deliveryCount + Cardinality(Answered(w)')
                      <= answers'[w]
  BY DEF Counts
<1>1. /\ Cardinality(Answered(w)') <= Cardinality(Answered(w))
      /\ Cardinality(Answered(w)') \in Nat
  BY AnsweredFinite, FS_Subset, FS_CardinalityType
<1>2. webhook[w].deliveryCount \in Nat /\ answers[w] \in Nat
  BY DEF TypeOK, WebhookRow
<1>3. webhook[w].deliveryCount + Cardinality(Answered(w)) <= answers[w]
  BY DEF Counts
<1> QED
  BY <1>1, <1>2, <1>3, AnsweredFinite

(* What a step may do to the frames without adding to Answered.            *)
LEMMA NoneAnswered ==
  ASSUME \A c \in Call :
           \/ call'[c] = None
           \/ call'[c].pc \notin {"succeed", "count"}
           \/ /\ call[c] # None /\ call[c].pc \in {"succeed", "count"}
              /\ call'[c].delivery = call[c].delivery
           \/ call'[c] = call[c],
         NEW w
  PROVE  Answered(w)' \subseteq Answered(w)
BY DEF Answered

LEMMA PostCounts ==
  ASSUME IInv, IInv', Counts, NEW c \in Call, PostAccepted(c)
  PROVE  Counts'
<1> DEFINE W == call[c].delivery[1]
<1>1. /\ call[c] # None /\ call[c].pc = "post" /\ W \in Webhook
      /\ GoTo(c, "succeed") /\ UNCHANGED webhook
      /\ answers' = [answers EXCEPT ![W] = @ + 1]
  BY CallTyped DEF PostAccepted, At, IInv
<1>2. /\ \A b \in Call : b # c => call'[b] = call[b]
      /\ call'[c].pc = "succeed" /\ call'[c].delivery = call[c].delivery
  BY <1>1, GoToTyped DEF IInv
<1> SUFFICES ASSUME NEW w \in Webhook
             PROVE  webhook'[w].deliveryCount + Cardinality(Answered(w)')
                      <= answers'[w]
  BY DEF Counts
<1>3. /\ webhook[w].deliveryCount \in Nat /\ answers[w] \in Nat
      /\ webhook[w].deliveryCount + Cardinality(Answered(w)) <= answers[w]
  BY DEF Counts, IInv, TypeOK, WebhookRow
<1>4. CASE w = W
  <2>1. Answered(w)' \subseteq Answered(w) \cup {c} /\ c \notin Answered(w)
    BY <1>1, <1>2 DEF Answered
  <2>2. IsFiniteSet(Answered(w) \cup {c})
        /\ Cardinality(Answered(w) \cup {c}) = Cardinality(Answered(w)) + 1
    BY <2>1, AnsweredFinite, FS_AddElement
  <2>3. Cardinality(Answered(w)') <= Cardinality(Answered(w)) + 1
    BY <2>1, <2>2, FS_Subset
  <2>4. Cardinality(Answered(w)') \in Nat
    BY <2>1, <2>2, FS_Subset, FS_CardinalityType
  <2>5. answers'[w] = answers[w] + 1
    BY <1>1, <1>4 DEF IInv, TypeOK
  <2> QED
    BY <1>1, <1>3, <2>3, <2>4, <2>5, AnsweredFinite
<1>5. CASE w # W
  <2>1. Answered(w)' = Answered(w)
    BY <1>1, <1>2, <1>5 DEF Answered
  <2>2. answers'[w] = answers[w]
    BY <1>1, <1>5 DEF IInv, TypeOK
  <2> QED
    BY <1>1, <1>3, <2>1, <2>2
<1> QED
  BY <1>4, <1>5

LEMMA CountCounts ==
  ASSUME IInv, IInv', Counts, NEW c \in Call, CountDelivery(c)
  PROVE  Counts'
<1> DEFINE W == call[c].delivery[1]
<1>1. /\ call[c] # None /\ call[c].pc = "count" /\ W \in Webhook
      /\ call' = [call EXCEPT ![c] = None] /\ UNCHANGED answers
      /\ webhook' = [webhook EXCEPT ![W].deliveryCount = @ + 1]
  BY CallTyped DEF CountDelivery, At, IInv, EndCall
<1> SUFFICES ASSUME NEW w \in Webhook
             PROVE  webhook'[w].deliveryCount + Cardinality(Answered(w)')
                      <= answers'[w]
  BY DEF Counts
<1>2. /\ webhook[w].deliveryCount \in Nat /\ answers[w] \in Nat
      /\ webhook[w] \in WebhookRow /\ webhook \in [Webhook -> WebhookRow]
      /\ webhook[w].deliveryCount + Cardinality(Answered(w)) <= answers[w]
  BY DEF Counts, IInv, TypeOK, WebhookRow
<1>3. \A b \in Call : b # c => call'[b] = call[b]
  BY <1>1 DEF IInv, TypeOK
<1>4. call'[c] = None
  BY <1>1 DEF IInv, TypeOK
<1>5. CASE w = W
  <2>1. Answered(w)' = Answered(w) \ {c} /\ c \in Answered(w)
    BY <1>1, <1>3, <1>4, <1>5 DEF Answered
  <2>2. Cardinality(Answered(w)') = Cardinality(Answered(w)) - 1
    BY <2>1, AnsweredFinite, FS_RemoveElement
  <2>3. webhook'[w].deliveryCount = webhook[w].deliveryCount + 1
    BY <1>1, <1>2, <1>5 DEF WebhookRow
  <2> QED
    BY <1>1, <1>2, <2>2, <2>3, AnsweredFinite
<1>6. CASE w # W
  <2>1. Answered(w)' = Answered(w)
    BY <1>1, <1>3, <1>4, <1>6 DEF Answered
  <2>2. webhook'[w] = webhook[w]
    BY <1>1, <1>2, <1>6
  <2> QED
    BY <1>1, <1>2, <2>1, <2>2
<1> QED
  BY <1>5, <1>6

(* All the other steps.                                                    *)
LEMMA OthersCount ==
  ASSUME IInv, IInv', Counts, [Next]_vars,
         \A c \in Call : ~PostAccepted(c) /\ ~CountDelivery(c)
  PROVE  Counts'
<1>1. TypeOK /\ TypeOK' /\ call \in [Call -> CallFrame \cup {None}]
  BY DEF IInv, TypeOK
<1>2. CASE UNCHANGED <<webhook, call, answers>>
  BY <1>1, <1>2, CountsKept DEF Answered
<1>3. ASSUME NEW w \in Webhook, UpdateWebhook(w)
      PROVE  Counts'
  <2>1. \A v \in Webhook : webhook'[v].deliveryCount = webhook[v].deliveryCount
    BY <1>1, <1>3 DEF UpdateWebhook, TypeOK, WebhookRow
  <2> QED
    BY <1>1, <1>3, <2>1, CountsKept DEF UpdateWebhook, Answered
<1>4. ASSUME NEW s, NEW d, StartCall(s, d), UNCHANGED <<webhook, answers>>
      PROVE  Counts'
  <2>1. \A c \in Call : call'[c] = call[c] \/ call'[c].pc = "find"
    BY <1>1, <1>4 DEF StartCall, NewCall
  <2> QED
    BY <1>1, <1>4, <2>1, NoneAnswered, CountsKept
<1>5. ASSUME NEW c \in Call, EndCall(c), UNCHANGED answers,
             \A w \in Webhook : webhook'[w].deliveryCount = webhook[w].deliveryCount
      PROVE  Counts'
  <2>1. \A b \in Call : call'[b] = call[b] \/ call'[b] = None
    BY <1>1, <1>5 DEF EndCall
  <2> QED
    BY <1>1, <1>5, <2>1, NoneAnswered, CountsKept
<1>6. ASSUME NEW c \in Call, NEW pc \in {"fail", "count", "countFailure"},
             call[c] # None, GoTo(c, pc), UNCHANGED <<webhook, answers>>,
             pc = "count" => call[c].pc = "succeed"
      PROVE  Counts'
  <2>1. /\ \A b \in Call : b # c => call'[b] = call[b]
        /\ call'[c].pc = pc /\ call'[c].delivery = call[c].delivery
    BY <1>1, <1>6, GoToTyped
  <2> QED
    BY <1>1, <1>6, <2>1, NoneAnswered, CountsKept
<1>7. ASSUME NEW c \in Call, FindDelivery(c)
      PROVE  Counts'
  <2>1. call[c] \in CallFrame
    BY <1>1, <1>7, CallTyped DEF FindDelivery, At
  <2>2. \A b \in Call : call'[b] = call[b] \/ call'[b].pc = "post"
    BY <1>1, <1>7, <2>1 DEF FindDelivery, CallFrame
  <2>3. UNCHANGED <<webhook, answers>>
    BY <1>7 DEF FindDelivery
  <2> QED
    BY <1>1, <2>2, <2>3, NoneAnswered, CountsKept
<1>8. ASSUME NEW s \in Server, Stop(s)
      PROVE  Counts'
  <2>1. \A b \in Call : call'[b] = call[b] \/ call'[b] = None
    BY <1>8 DEF Stop
  <2>2. UNCHANGED <<webhook, answers>>
    BY <1>8 DEF Stop
  <2> QED
    BY <1>1, <2>1, <2>2, NoneAnswered, CountsKept
<1>9. ASSUME NEW c \in Call, Process(c)
      PROVE  Counts'
  <2>1. CASE FindDelivery(c)
    BY <1>7, <2>1
  <2>2. CASE PostUnanswered(c) \/ PostRejected(c)
    BY <1>6, <2>2 DEF PostUnanswered, PostRejected, At
  <2>3. CASE RecordSuccess(c) \/ GiveUp(c)
    BY <1>6, <2>3 DEF RecordSuccess, GiveUp, At
  <2>4. CASE CountFailure(c)
    <3>1. \A w \in Webhook : webhook'[w].deliveryCount = webhook[w].deliveryCount
      BY <1>1, <2>4 DEF CountFailure, TypeOK, WebhookRow
    <3> QED
      BY <1>5, <2>4, <3>1 DEF CountFailure
  <2>5. CASE PlanRetry(c)
    BY <1>5, <2>5 DEF PlanRetry
  <2> QED
    BY <1>9, <2>1, <2>2, <2>3, <2>4, <2>5 DEF Process
<1>10. ASSUME NEW c \in Call, SuccessDbError(c) \/ CallDbError(c)
       PROVE  Counts'
  BY <1>5, <1>6, <1>10 DEF SuccessDbError, CallDbError, At
<1>11. ASSUME NEW e \in Event, Triggers(e) \/ TriggerDbError(e)
       PROVE  Counts'
  <2>1. CASE \E w \in Webhook : QueueWebhookDelivery(e, w)
    BY <1>4, <2>1 DEF QueueWebhookDelivery
  <2>2. CASE TriggerReturns(e) \/ TriggerDbError(e)
    BY <1>2, <2>2 DEF TriggerReturns, TriggerDbError
  <2> QED
    BY <1>11, <2>1, <2>2 DEF Triggers
<1>12. ASSUME NEW s \in Server, NEW d \in Delivery, RetryFailedDelivery(s, d)
       PROVE  Counts'
  BY <1>4, <1>12 DEF RetryFailedDelivery
<1>13. CASE \/ \E s \in Server, e \in Event : TriggerWebhook(s, e)
            \/ \E d \in Delivery : BackoffEnds(d)
            \/ \E s \in Server : Start(s)
            \/ UNCHANGED vars
  BY <1>2, <1>13 DEF TriggerWebhook, BackoffEnds, Start, vars
<1> QED
  BY <1>3, <1>8, <1>9, <1>10, <1>11, <1>12, <1>13 DEF Next

(* Every variable has its type, for any number of replicas, webhooks,      *)
(* events and calls.                                                       *)
THEOREM DeliveryTypes == Spec => []TypeOK
<1>1. IInv => TypeOK
  BY DEF IInv
<1> QED
  BY <1>1, InitIInv, NextKeeps, PTL DEF Spec

(* deliveryCount never passes the number of POSTs that the endpoint        *)
(* answered in time (incrementDeliveryCount of processWebhookDelivery),    *)
(* however many calls of however many replicas work on one delivery.       *)
THEOREM DeliveryCountHonest == Spec => []CountIsHonest
<1>1. Init => Counts
  <2> SUFFICES ASSUME Init, NEW w \in Webhook
               PROVE  /\ webhook[w].deliveryCount = 0 /\ answers[w] = 0
                      /\ Cardinality(Answered(w)) = 0
    BY DEF Counts
  <2>1. Answered(w) = {}
    BY DEF Init, Answered
  <2>2. webhook[w] \in [active : {TRUE}, maxRetries : RetryLimit,
                        deliveryCount : {0}, failureCount : {0}]
    BY DEF Init
  <2> QED
    BY <2>1, <2>2, FS_EmptySet DEF Init
<1>2. IInv /\ IInv' /\ Counts /\ [Next]_vars => Counts'
  BY PostCounts, CountCounts, OthersCount
<1>3. IInv /\ Counts => CountIsHonest
  <2> SUFFICES ASSUME IInv, Counts, NEW w \in Webhook
               PROVE  webhook[w].deliveryCount <= answers[w]
    BY DEF CountIsHonest
  <2>1. /\ webhook[w].deliveryCount + Cardinality(Answered(w)) <= answers[w]
        /\ webhook[w].deliveryCount \in Nat /\ answers[w] \in Nat
    BY DEF Counts, IInv, TypeOK, WebhookRow
  <2> QED
    BY <2>1, AnsweredFinite
<1> QED
  BY <1>1, <1>2, <1>3, InitIInv, NextKeeps, PTL DEF Spec
=============================================================================
