-------------------------- MODULE WebhookDelivery --------------------------
(***************************************************************************)
(* WebhookService of src/src/webhooks: an event is saved as one delivery   *)
(* for each matching webhook, POSTed to its endpoint by setImmediate, and  *)
(* retried by a cron that every replica runs once a minute.                *)
(*                                                                         *)
(* An action is the code between two awaits.  All statements are UPDATEs   *)
(* of a few columns; what goes stale is the attemptNumber, and the         *)
(* webhook's maxRetries, that a call read before its POST.                 *)
(***************************************************************************)
EXTENDS Integers, FiniteSets

CONSTANTS Server,       \* replicas of the backend
          Webhook,      \* registered webhooks
          Event,        \* events, each triggered at most once
          Call,         \* slots for processWebhookDelivery (a bound)
          RetryLimit,   \* values of maxRetries a client may set
          MaxStops,     \* how many times replicas stop (a bound)
          MaxDbErrors,  \* how many database calls fail (a bound)
          None

ASSUME LimitAssumption == RetryLimit \subseteq Nat \ {0}
ASSUME NoneAssumption  == None \notin Server
ASSUME CallAssumption  == IsFiniteSet(Call)
ASSUME FaultAssumption == MaxStops \in Nat /\ MaxDbErrors \in Nat

VARIABLES
  webhook,   \* the table webhooks
  row,       \* the table webhook_deliveries
  trigger,   \* triggerWebhook, per event
  call,      \* processWebhookDelivery in progress
  up,        \* replicas that are running
  posts,     \* per delivery: POSTs made so far
  accepted,  \* deliveries whose endpoint accepted a POST
  answers,   \* per webhook: POSTs its endpoint answered with 2xx in time
  faults     \* replicas stopped and database errors so far

vars == <<webhook, row, trigger, call, up, posts, accepted, answers, faults>>

history == <<posts, accepted, answers>>

-----------------------------------------------------------------------------
(* Data.                                                                   *)

\* One delivery for each webhook and event.
Delivery == Webhook \X Event

DeliveryStatus == {"pending", "success", "failed", "retrying"}

WebhookRow == [active : BOOLEAN, maxRetries : RetryLimit,
               deliveryCount : Nat, failureCount : Nat]

\* nextRetryAt is kept as whether it has passed.
Row == [status : DeliveryStatus \cup {"absent"}, attemptNumber : Nat,
        due : BOOLEAN]

Absent == [status |-> "absent", attemptNumber |-> 0, due |-> FALSE]

NewDelivery == [status |-> "pending", attemptNumber |-> 0, due |-> FALSE]

\* The loop of triggerWebhook: the webhooks still to queue the event for.
Loop(s, ws) == [pc |-> "loop", srv |-> s, todo |-> ws]

NotYet == [pc |-> "new", srv |-> None, todo |-> {}]

Over == [NotYet EXCEPT !.pc = "done"]

TriggerFrame == {NotYet, Over} \cup
                {Loop(s, ws) : s \in Server, ws \in SUBSET Webhook}

\* A call: where it waits and what it has read of delivery and webhook.
CallFrame == [pc : {"find", "post", "succeed", "count", "fail",
                    "countFailure"},
              srv : Server, delivery : Delivery, attemptNumber : Nat,
              maxRetries : RetryLimit \cup {0}]

NewCall(s, d) == [pc |-> "find", srv |-> s, delivery |-> d,
                  attemptNumber |-> 0, maxRetries |-> 0]

At(c, pc) == call[c] # None /\ call[c].pc = pc

\* setImmediate(() => processWebhookDelivery(d)).
StartCall(s, d) == \E c \in Call :
  /\ call[c] = None
  /\ call' = [call EXCEPT ![c] = NewCall(s, d)]

EndCall(c) == call' = [call EXCEPT ![c] = None]

GoTo(c, pc) == call' = [call EXCEPT ![c].pc = pc]

-----------------------------------------------------------------------------
Init ==
  /\ webhook \in [Webhook -> [active : {TRUE}, maxRetries : RetryLimit,
                              deliveryCount : {0}, failureCount : {0}]]
  /\ row = [d \in Delivery |-> Absent]
  /\ trigger = [e \in Event |-> NotYet]
  /\ call = [c \in Call |-> None]
  /\ up = Server
  /\ posts = [d \in Delivery |-> 0]
  /\ accepted = {}
  /\ answers = [w \in Webhook |-> 0]
  /\ faults = [stops |-> 0, db |-> 0]

(* PATCH /webhooks/:id, of the columns deliveries depend on.               *)
UpdateWebhook(w) ==
  /\ \E a \in BOOLEAN, n \in RetryLimit :
       webhook' = [webhook EXCEPT ![w].active = a, ![w].maxRetries = n]
  /\ UNCHANGED <<row, trigger, call, up, history, faults>>

-----------------------------------------------------------------------------
(* triggerWebhook: the active webhooks are listed once; the events and     *)
(* filters of a webhook may let the event through or not.                  *)
TriggerWebhook(s, e) ==
  /\ s \in up /\ trigger[e].pc = "new"
  /\ \E matching \in SUBSET {w \in Webhook : webhook[w].active} :
       trigger' = [trigger EXCEPT ![e] = Loop(s, matching)]
  /\ UNCHANGED <<webhook, row, call, up, history, faults>>

\* Mutant: the delivery is saved and not processed.
SaveDelivery(e, w) ==
  /\ trigger[e].pc = "loop" /\ w \in trigger[e].todo
  /\ row' = [row EXCEPT ![<<w, e>>] = NewDelivery]
  /\ trigger' = [trigger EXCEPT ![e].todo = @ \ {w}]
  /\ UNCHANGED <<webhook, call, up, history, faults>>

QueueWebhookDelivery(e, w) ==
  /\ trigger[e].pc = "loop" /\ w \in trigger[e].todo
  /\ row' = [row EXCEPT ![<<w, e>>] = NewDelivery]
  /\ StartCall(trigger[e].srv, <<w, e>>)
  /\ trigger' = [trigger EXCEPT ![e].todo = @ \ {w}]
  /\ UNCHANGED <<webhook, up, history, faults>>

TriggerReturns(e) ==
  /\ trigger[e].pc = "loop" /\ trigger[e].todo = {}
  /\ trigger' = [trigger EXCEPT ![e] = Over]
  /\ UNCHANGED <<webhook, row, call, up, history, faults>>

-----------------------------------------------------------------------------
(* processWebhookDelivery: read the row whatever its status is, POST,      *)
(* record the outcome.                                                     *)
FindDelivery(c) ==
  /\ At(c, "find")
  /\ LET d == call[c].delivery IN
     call' = [call EXCEPT ![c].pc = "post",
                          ![c].attemptNumber = row[d].attemptNumber,
                          ![c].maxRetries = webhook[d[1]].maxRetries]
  /\ UNCHANGED <<webhook, row, trigger, up, history, faults>>

\* The endpoint accepts the POST and its answer arrives in time.
PostAccepted(c) ==
  /\ At(c, "post")
  /\ GoTo(c, "succeed")
  /\ posts' = [posts EXCEPT ![call[c].delivery] = @ + 1]
  /\ accepted' = accepted \cup {call[c].delivery}
  /\ answers' = [answers EXCEPT ![call[c].delivery[1]] = @ + 1]
  /\ UNCHANGED <<webhook, row, trigger, up, faults>>

\* The endpoint accepts the POST and its answer is lost or late.
PostUnanswered(c) ==
  /\ At(c, "post")
  /\ GoTo(c, "fail")
  /\ posts' = [posts EXCEPT ![call[c].delivery] = @ + 1]
  /\ accepted' = accepted \cup {call[c].delivery}
  /\ UNCHANGED <<webhook, row, trigger, up, answers, faults>>

\* Mutant: an answer that is not 2xx counts as a success.
PostAnswered(c) ==
  /\ At(c, "post")
  /\ GoTo(c, "succeed")
  /\ posts' = [posts EXCEPT ![call[c].delivery] = @ + 1]
  /\ UNCHANGED <<webhook, row, trigger, up, accepted, answers, faults>>

\* The endpoint refuses the POST or is not reached.
PostRejected(c) ==
  /\ At(c, "post")
  /\ GoTo(c, "fail")
  /\ posts' = [posts EXCEPT ![call[c].delivery] = @ + 1]
  /\ UNCHANGED <<webhook, row, trigger, up, accepted, answers, faults>>

RecordSuccess(c) ==
  /\ At(c, "succeed")
  /\ row' = [row EXCEPT ![call[c].delivery].status = "success"]
  /\ GoTo(c, "count")
  /\ UNCHANGED <<webhook, trigger, up, history, faults>>

CountDelivery(c) ==
  /\ At(c, "count")
  /\ webhook' = [webhook EXCEPT ![call[c].delivery[1]].deliveryCount = @ + 1]
  /\ EndCall(c)
  /\ UNCHANGED <<row, trigger, up, history, faults>>

-----------------------------------------------------------------------------
(* handleFailedDelivery, from the entity read before the POST.             *)

\* Mutant: counts the attempts left.
AttemptBefore(c) == call[c].attemptNumber - 1

ThisAttempt(c) == call[c].attemptNumber + 1

\* Mutant: off by one.
NoneLeft(c) == ThisAttempt(c) >= call[c].maxRetries

Exhausted(c) == ThisAttempt(c) > call[c].maxRetries

GiveUp(c) ==
  /\ At(c, "fail") /\ Exhausted(c)
  /\ row' = [row EXCEPT ![call[c].delivery].status = "failed",
                        ![call[c].delivery].attemptNumber = ThisAttempt(c)]
  /\ GoTo(c, "countFailure")
  /\ UNCHANGED <<webhook, trigger, up, history, faults>>

\* Mutant: the wrong column.
CountFailureAsDelivery(c) ==
  /\ At(c, "countFailure")
  /\ webhook' = [webhook EXCEPT ![call[c].delivery[1]].deliveryCount = @ + 1]
  /\ EndCall(c)
  /\ UNCHANGED <<row, trigger, up, history, faults>>

CountFailure(c) ==
  /\ At(c, "countFailure")
  /\ webhook' = [webhook EXCEPT ![call[c].delivery[1]].failureCount = @ + 1]
  /\ EndCall(c)
  /\ UNCHANGED <<row, trigger, up, history, faults>>

PlanRetry(c) ==
  /\ At(c, "fail") /\ ~Exhausted(c)
  /\ row' = [row EXCEPT ![call[c].delivery] =
                [status |-> "retrying", attemptNumber |-> ThisAttempt(c),
                 due |-> FALSE]]
  /\ EndCall(c)
  /\ UNCHANGED <<webhook, trigger, up, history, faults>>

BackoffEnds(d) ==
  /\ row[d].status = "retrying" /\ ~row[d].due
  /\ row' = [row EXCEPT ![d].due = TRUE]
  /\ UNCHANGED <<webhook, trigger, call, up, history, faults>>

\* Mutant: the date is compared the wrong way round.
NotYetDue(d) == row[d].status = "retrying" /\ ~row[d].due

Due(d) == row[d].status = "retrying" /\ row[d].due

\* Mutant: the query names whatever is not delivered.
RetryUndelivered(s, d) ==
  /\ s \in up /\ (Due(d) \/ row[d].status = "pending")
  /\ StartCall(s, d)
  /\ UNCHANGED <<webhook, row, trigger, up, history, faults>>

\* retryFailedDeliveries lists the due rows and starts a call for each: it
\* marks none of them, so the next tick, or another replica, lists them too.
RetryFailedDelivery(s, d) ==
  /\ s \in up /\ Due(d)
  /\ StartCall(s, d)
  /\ UNCHANGED <<webhook, row, trigger, up, history, faults>>

-----------------------------------------------------------------------------
(* A database call fails.                                                  *)
CountDbError ==
  /\ faults.db < MaxDbErrors
  /\ faults' = [faults EXCEPT !.db = @ + 1]

\* The event is not queued for the webhooks that were still to come.
TriggerDbError(e) ==
  /\ trigger[e].pc = "loop" /\ trigger[e].todo # {}
  /\ CountDbError
  /\ trigger' = [trigger EXCEPT ![e] = Over]
  /\ UNCHANGED <<webhook, row, call, up, history>>

\* Inside the try block an error counts as a failed delivery, although the
\* endpoint has accepted the POST.
SuccessDbError(c) ==
  /\ At(c, "succeed") \/ At(c, "count")
  /\ CountDbError
  /\ GoTo(c, "fail")
  /\ UNCHANGED <<webhook, row, trigger, up, history>>

\* Outside it the call ends.
CallDbError(c) ==
  /\ At(c, "find") \/ At(c, "fail") \/ At(c, "countFailure")
  /\ CountDbError
  /\ EndCall(c)
  /\ UNCHANGED <<webhook, row, trigger, up, history>>

(* A replica stops, and starts again with nothing to resume.               *)
Stop(s) ==
  /\ s \in up /\ faults.stops < MaxStops
  /\ up' = up \ {s}
  /\ faults' = [faults EXCEPT !.stops = @ + 1]
  /\ trigger' = [e \in Event |-> IF trigger[e].srv = s THEN Over
                                                       ELSE trigger[e]]
  /\ call' = [c \in Call |-> IF call[c] # None /\ call[c].srv = s
                               THEN None ELSE call[c]]
  /\ UNCHANGED <<webhook, row, history>>

Start(s) ==
  /\ s \notin up
  /\ up' = up \cup {s}
  /\ UNCHANGED <<webhook, row, trigger, call, history, faults>>

-----------------------------------------------------------------------------
Triggers(e) == \/ \E w \in Webhook : QueueWebhookDelivery(e, w)
               \/ TriggerReturns(e)

Process(c) == \/ FindDelivery(c)
              \/ PostAccepted(c) \/ PostUnanswered(c) \/ PostRejected(c)
              \/ RecordSuccess(c) \/ CountDelivery(c)
              \/ GiveUp(c) \/ CountFailure(c) \/ PlanRetry(c)

Next ==
  \/ \E w \in Webhook : UpdateWebhook(w)
  \/ \E s \in Server, e \in Event : TriggerWebhook(s, e)
  \/ \E e \in Event : Triggers(e) \/ TriggerDbError(e)
  \/ \E c \in Call : Process(c) \/ SuccessDbError(c) \/ CallDbError(c)
  \/ \E d \in Delivery : BackoffEnds(d)
  \/ \E s \in Server, d \in Delivery : RetryFailedDelivery(s, d)
  \/ \E s \in Server : Stop(s) \/ Start(s)

Spec == Init /\ [][Next]_vars

\* Calls to the database and to the endpoint return (the POST has a
\* timeout), a back-off ends, the cron keeps firing on some replica, a
\* stopped replica is started again.
FairSpec ==
  /\ Spec
  /\ \A e \in Event : WF_vars(Triggers(e))
  /\ \A c \in Call : WF_vars(Process(c))
  /\ \A d \in Delivery :
       /\ WF_vars(BackoffEnds(d))
       /\ WF_vars(\E s \in Server : RetryFailedDelivery(s, d))
  /\ \A s \in Server : WF_vars(Start(s))

-----------------------------------------------------------------------------
(* Every variable has its type.                                            *)
TypeOK ==
  /\ webhook \in [Webhook -> WebhookRow]
  /\ row \in [Delivery -> Row]
  /\ trigger \in [Event -> TriggerFrame]
  /\ call \in [Call -> CallFrame \cup {None}]
  /\ up \subseteq Server
  /\ posts \in [Delivery -> Nat]
  /\ accepted \subseteq Delivery
  /\ answers \in [Webhook -> Nat]
  /\ faults \in [stops : 0..MaxStops, db : 0..MaxDbErrors]

(* No delivery is given up early: a row reads FAILED only after more POSTs *)
(* than a limit its client had set, whatever overlapping calls of several  *)
(* replicas counted; and it never counts an attempt that was not made.     *)
GivenUpLate ==
  \A d \in Delivery :
    /\ row[d].attemptNumber <= posts[d]
    /\ row[d].status = "failed" =>
         \E n \in RetryLimit : n < row[d].attemptNumber

(* A row reads SUCCESS only if its endpoint accepted a POST of it.         *)
SuccessIsAccepted ==
  \A d \in Delivery : row[d].status = "success" => d \in accepted

(* Until the outcome of the first attempt is recorded, a delivery is       *)
(* worked on by one call of one replica and POSTed at most once: the cron  *)
(* of no replica takes it from the call that setImmediate started.         *)
Working(d) == {c \in Call : call[c] # None /\ call[c].delivery = d}

OneFirstAttempt ==
  \A d \in Delivery : row[d].status = "pending" =>
    posts[d] <= 1 /\ \A b, c \in Working(d) : b = c

(* deliveryCount never counts a POST that the endpoint did not answer with *)
(* 2xx in time, nor one answer twice, although an error of the database    *)
(* after the answer sends the call to handleFailedDelivery.                *)
CountIsHonest ==
  \A w \in Webhook : webhook[w].deliveryCount <= answers[w]

(* Retries come to an end: no delivery flips between RETRYING and its      *)
(* outcome for ever, although late calls write old attempt numbers.        *)
RetriesEnd == \A d \in Delivery : <>[](row[d].status # "retrying")

(* While no replica stops and the database answers, every delivery that    *)
(* was saved is attempted.                                                 *)
FirstAttemptMade ==
  \A d \in Delivery :
    row[d].status = "pending"
      ~> row[d].status # "pending" \/ faults.stops + faults.db > 0

-----------------------------------------------------------------------------
(* README-WEBHOOK-PRICING.md:210 "Deliver webhooks within 5 seconds of     *)
(* event": what was saved as PENDING is sent some day.                     *)
PendingIsSent ==
  \A d \in Delivery : row[d].status = "pending" ~> row[d].status # "pending"
=============================================================================
