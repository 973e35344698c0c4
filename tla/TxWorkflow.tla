----------------------------- MODULE TxWorkflow -----------------------------
(***************************************************************************)
(* TransactionWorkflowService                                              *)
(* (src/src/monitoring/workflows/transaction.workflow.ts) on one           *)
(* transaction: its steps are executed in order, each with its attempts,   *)
(* on a context that every execution of the workflow shares.  Nothing      *)
(* keeps two executions apart, and a cancellation stops none.              *)
(***************************************************************************)
EXTENDS Integers

CONSTANTS Workflow,        \* workflows created for the transaction
          Execution,       \* executions and cancellations in progress (a bound)
          StepAttempts,    \* maxAttempts of the steps: 3, 5, 10, 1, 3 and 2
          NoExecution

\* validate_transaction, check_network_status, verify_transaction_exists,
\* validate_transaction_success, update_ledger_info; then, unless the workflow
\* is a standard one, the steps of its type, taken as one.
Validate == 1
Network == 2
Exists == 3
Succeeded == 4
LedgerInfo == 5
OfType == 6

Step == Validate .. OfType

ASSUME WorkflowAssumption == StepAttempts \in [Step -> Nat \ {0}]

VARIABLES
  txVerdict,    \* what the network has decided
  txStatus,     \* status of the row in transaction_status
  retryQueued,  \* RetryService has a timer for the transaction
  workflow,     \* the workflows, in activeWorkflows or not any more
  execution     \* calls between two awaits

txRow == <<txVerdict, txStatus, retryQueued>>

workflowVars == <<txVerdict, txStatus, retryQueued, workflow, execution>>

-----------------------------------------------------------------------------
WorkflowStatus == {"none", "pending", "running", "completed", "failed",
                   "cancelled"}

\* stellarTx: what verify_transaction_exists put into the shared context;
\* listed: the workflow is in activeWorkflows.
WorkflowEntry == [status : WorkflowStatus, currentStep : Step,
                  last : {LedgerInfo, OfType},
                  stellarTx : {"none", "success", "failed"}, listed : BOOLEAN]

NewWorkflow(last) == [status |-> "pending", currentStep |-> Validate,
                      last |-> last, stellarTx |-> "none", listed |-> TRUE]

ExecutionFrame == [pc : {"step", "confirm", "fail", "retry", "ending", "cancel"},
                   wf : Workflow, step : Step, attempt : Nat]

ASSUME ExecutionAssumption == NoExecution \notin ExecutionFrame

WorkflowInit ==
  /\ txVerdict = "pending" /\ txStatus = "pending" /\ retryQueued = FALSE
  /\ workflow = [w \in Workflow |->
                   [NewWorkflow(LedgerInfo) EXCEPT !.status = "none",
                                                   !.listed = FALSE]]
  /\ execution = [x \in Execution |-> NoExecution]

Runs(x, pc) == execution[x] # NoExecution /\ execution[x].pc = pc

WorkflowOf(x) == workflow[execution[x].wf]

MovesTo(x, pc) == execution' = [execution EXCEPT ![x].pc = pc]

\* External: the network decides.
NetworkDecides ==
  /\ txVerdict = "pending"
  /\ txVerdict' \in {"success", "failed"}
  /\ UNCHANGED <<txStatus, retryQueued, workflow, execution>>

CreateWorkflow(w) ==
  /\ workflow[w].status = "none"
  /\ \E last \in {LedgerInfo, OfType} :
       workflow' = [workflow EXCEPT ![w] = NewWorkflow(last)]
  /\ UNCHANGED <<txRow, execution>>

\* From the step the workflow has reached, whatever its status.
ExecuteWorkflow(x, w) ==
  /\ execution[x] = NoExecution /\ workflow[w].listed
  /\ workflow' = [workflow EXCEPT ![w].status = "running"]
  /\ execution' = [execution EXCEPT ![x] =
                     [pc |-> "step", wf |-> w, attempt |-> 1,
                      step |-> workflow[w].currentStep]]
  /\ UNCHANGED txRow

\* Mutant: the step looks at what the network answers, not at "successful".
PassesUnread(x) ==
  CASE execution[x].step = Exists -> txVerdict # "pending"
    [] OTHER                      -> TRUE

\* The steps that ask the network or the database may fail at any attempt.
Passes(x) ==
  CASE execution[x].step = Exists    -> txVerdict # "pending"
    [] execution[x].step = Succeeded -> WorkflowOf(x).stellarTx = "success"
    [] OTHER                         -> TRUE

MayFail(x) ==
  CASE execution[x].step = Validate  -> FALSE
    [] execution[x].step = Succeeded -> ~Passes(x)
    [] OTHER                         -> TRUE

\* After the last step the workflow is COMPLETED and the row is written.
StepPasses(x) ==
  LET w == execution[x].wf  i == execution[x].step
      seen == IF i = Exists THEN txVerdict ELSE workflow[w].stellarTx
  IN /\ Runs(x, "step") /\ Passes(x)
     /\ \/ /\ i < workflow[w].last
           /\ execution' = [execution EXCEPT ![x].step = i + 1,
                                             ![x].attempt = 1]
           /\ workflow' = [workflow EXCEPT ![w].currentStep = i + 1,
                                           ![w].stellarTx = seen]
        \/ /\ i = workflow[w].last
           /\ MovesTo(x, "confirm")
           /\ workflow' = [workflow EXCEPT ![w].status = "completed"]
  /\ UNCHANGED txRow

\* handleWorkflowFailure does nothing for a workflow another call deleted.
Fails(x) ==
  /\ workflow' = [workflow EXCEPT ![execution[x].wf].status = "failed"]
  /\ MovesTo(x, IF WorkflowOf(x).listed THEN "fail" ELSE "ending")

\* Mutant: the attempts are not counted.
AttemptFailsUncounted(x) ==
  /\ Runs(x, "step") /\ MayFail(x)
  /\ UNCHANGED workflowVars

\* The error of the last attempt ends the loop.
AttemptFails(x) ==
  /\ Runs(x, "step") /\ MayFail(x)
  /\ \/ /\ execution[x].attempt < StepAttempts[execution[x].step]
        /\ execution' = [execution EXCEPT ![x].attempt = @ + 1]
        /\ UNCHANGED workflow
     \/ /\ execution[x].attempt = StepAttempts[execution[x].step]
        /\ Fails(x)
  /\ UNCHANGED txRow

Confirm(x) ==
  /\ Runs(x, "confirm")
  /\ txStatus' = "confirmed"
  /\ MovesTo(x, "ending")
  /\ UNCHANGED <<txVerdict, retryQueued, workflow>>

ConfirmDbFails(x) ==
  /\ Runs(x, "confirm")
  /\ Fails(x)
  /\ UNCHANGED txRow

\* The UPDATE to FAILED, which may fail itself.  Unless the retries of the
\* entity are used up another one is scheduled, its timer first.
HandleWorkflowFailure(x) ==
  /\ Runs(x, "fail")
  /\ \/ txStatus' \in {"failed", txStatus} /\ MovesTo(x, "ending")
     \/ txStatus' = "failed" /\ MovesTo(x, "retry")
  /\ UNCHANGED <<txVerdict, retryQueued, workflow>>

\* scheduleRetry, which returns at once if one is queued, and the UPDATE of
\* updateTransactionForRetry.
ScheduleRetry(x) ==
  /\ Runs(x, "retry")
  /\ retryQueued' = TRUE
  /\ txStatus' \in IF retryQueued THEN {txStatus} ELSE {"retrying", txStatus}
  /\ MovesTo(x, "ending")
  /\ UNCHANGED <<txVerdict, workflow>>

\* executeRetry asks the network itself; any of its statements may fail.
ExecuteRetry ==
  /\ retryQueued /\ retryQueued' = FALSE
  /\ txStatus' \in {txStatus, "failed", "retrying"} \cup
                   IF txVerdict = "success" THEN {"confirmed"} ELSE {}
  /\ UNCHANGED <<txVerdict, workflow, execution>>

\* Mutant: a failed workflow is kept.
EndsIfCompleted(x) ==
  /\ Runs(x, "ending")
  /\ workflow' = [workflow EXCEPT ![execution[x].wf].listed =
                    @ /\ WorkflowOf(x).status # "completed"]
  /\ execution' = [execution EXCEPT ![x] = NoExecution]
  /\ UNCHANGED txRow

\* The alert is sent; finally the workflow is deleted.
ExecutionEnds(x) ==
  /\ Runs(x, "ending")
  /\ workflow' = [workflow EXCEPT ![execution[x].wf].listed = FALSE]
  /\ execution' = [execution EXCEPT ![x] = NoExecution]
  /\ UNCHANGED txRow

\* cancelWorkflow, also for each expired workflow.
CancelWorkflow(x, w) ==
  /\ execution[x] = NoExecution /\ workflow[w].listed
  /\ workflow' = [workflow EXCEPT ![w].status = "cancelled"]
  /\ execution' = [execution EXCEPT ![x] =
                     [pc |-> "cancel", wf |-> w, attempt |-> 1,
                      step |-> Validate]]
  /\ UNCHANGED txRow

CancelWrites(x) ==
  /\ Runs(x, "cancel")
  /\ \/ /\ txStatus' = "failed"
        /\ workflow' = [workflow EXCEPT ![execution[x].wf].listed = FALSE]
     \/ UNCHANGED <<txStatus, workflow>>
  /\ execution' = [execution EXCEPT ![x] = NoExecution]
  /\ UNCHANGED <<txVerdict, retryQueued>>

ExecutionStep(x) ==
  \/ StepPasses(x) \/ AttemptFails(x) \/ Confirm(x) \/ ConfirmDbFails(x)
  \/ HandleWorkflowFailure(x) \/ ScheduleRetry(x)
  \/ ExecutionEnds(x) \/ CancelWrites(x)

WorkflowNext ==
  \/ NetworkDecides \/ ExecuteRetry
  \/ \E w \in Workflow :
       \/ CreateWorkflow(w)
       \/ \E x \in Execution : ExecuteWorkflow(x, w) \/ CancelWorkflow(x, w)
  \/ \E x \in Execution : ExecutionStep(x)

\* Calls return and delays end.
WorkflowFairness == \A x \in Execution : WF_workflowVars(ExecutionStep(x))

WorkflowSpec == WorkflowInit /\ [][WorkflowNext]_workflowVars
                             /\ WorkflowFairness

-----------------------------------------------------------------------------
(* CONFIRMED is written of a transaction that succeeded only: an execution *)
(* that starts in the middle, where another one has brought the workflow,  *)
(* relies on what that one has read and tested.                            *)
WorkflowVerdict == txStatus = "confirmed" => txVerdict = "success"

(* A workflow that is in activeWorkflows and not waiting or cancelled has  *)
(* an execution that works on it: none is left behind.                     *)
RunningIsRun ==
  \A w \in Workflow :
    workflow[w].listed /\ workflow[w].status \in {"running", "completed", "failed"}
      => \E x \in Execution :
           execution[x] # NoExecution /\ execution[x].wf = w /\ ~Runs(x, "cancel")

(* An execution ends, whatever the others do to its workflow meanwhile.    *)
ExecutionIsOver ==
  \A x \in Execution : []<>(execution[x] = NoExecution)
=============================================================================
