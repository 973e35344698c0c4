--------------------------- MODULE ServicesProofs ---------------------------
(***************************************************************************)
(* What the circuit breaker, the pre-trade check, the transaction          *)
(* workflow, the fraud cases and the cross-border trades promise, for any  *)
(* values of the constants.                                                *)
(***************************************************************************)
EXTENDS Services, LogBufferProofs

-----------------------------------------------------------------------------
(* The circuit breaker.  A half-open circuit needs no counts: whatever     *)
(* closes or opens it sets them.                                           *)
BreakerInv ==
  /\ circuit \in {"closed", "open", "half_open"}
  /\ failureCount \in Nat /\ timeouts \in Nat /\ admitted \in Nat
  /\ OpenIsTimed

LEMMA BreakerInitInv == BreakerInit => BreakerInv
BY BreakerAssumption DEF BreakerInit, BreakerInv, OpenIsTimed

LEMMA BreakerStepInv == BreakerInv /\ [BreakerNext]_breakerVars => BreakerInv'
<1> SUFFICES ASSUME BreakerInv, [BreakerNext]_breakerVars
             PROVE  BreakerInv'
  OBVIOUS
<1> USE BreakerAssumption DEF BreakerInv, OpenIsTimed
<1>1. CASE CheckCircuit
  BY <1>1 DEF CheckCircuit
<1>2. CASE ReportSuccess
  BY <1>2 DEF ReportSuccess
<1>3. CASE ReportFailure
  BY <1>3 DEF ReportFailure, Open
<1>4. CASE TimeoutFires
  BY <1>4 DEF TimeoutFires
<1>5. CASE UNCHANGED breakerVars
  BY <1>5 DEF breakerVars
<1> QED
  BY <1>1, <1>2, <1>3, <1>4, <1>5 DEF BreakerNext

(* An open circuit has a timer that will end it and the failures that      *)
(* justify it, a closed one is below its threshold, whatever late reports  *)
(* and left-over timers come.                                              *)
THEOREM CircuitIsTimed == BreakerSpec => []OpenIsTimed
<1>1. BreakerInv => OpenIsTimed
  BY DEF BreakerInv
<1> QED
  BY <1>1, BreakerInitInv, BreakerStepInv, PTL DEF BreakerSpec

-----------------------------------------------------------------------------
(* The pre-trade check.                                                    *)
PreventionInv ==
  /\ rateCount \in [Trader -> Nat]
  /\ checking \in [Check -> SUBSET Trader]
  /\ RateOvershoot

\* The checks of a trader are some of the checks.
LEMMA CountingIsFinite ==
  ASSUME NEW S \in SUBSET Check
  PROVE  /\ IsFiniteSet(S)
         /\ Cardinality(S) \in Nat /\ Cardinality(Check) \in Nat
         /\ Cardinality(S) <= Cardinality(Check)
<1>1. IsFiniteSet(Check)
  BY PreventionAssumption
<1> QED
  BY <1>1, FS_Subset, FS_CardinalityType

LEMMA PreventionInitInv == PreventionInit => PreventionInv
<1> SUFFICES ASSUME PreventionInit PROVE PreventionInv
  OBVIOUS
<1>1. \A t \in Trader : Counting(t) = {}
  BY DEF PreventionInit, Counting, NoTrader
<1>2. Cardinality({}) = 0 /\ Cardinality(Check) \in Nat
  BY FS_EmptySet, CountingIsFinite
<1>3. RateOvershoot
  BY <1>1, <1>2, PreventionAssumption DEF PreventionInit, RateOvershoot
<1> QED
  BY <1>3 DEF PreventionInit, PreventionInv, NoTrader

\* Where no trade is counted and no check begins nothing grows.
LEMMA PreventionShrinks ==
  ASSUME PreventionInv,
         rateCount' \in [Trader -> Nat], checking' \in [Check -> SUBSET Trader],
         \A t \in Trader : rateCount'[t] <= rateCount[t],
         \A c \in Check : checking'[c] \subseteq checking[c]
  PROVE  PreventionInv'
<1> SUFFICES ASSUME NEW t \in Trader
             PROVE  rateCount'[t] + Cardinality(Counting(t)')
                      < RateLimit + Cardinality(Check)
  BY DEF PreventionInv, RateOvershoot
<1>1. Counting(t)' \subseteq Counting(t) /\ Counting(t) \subseteq Check
  BY DEF Counting
<1>2. Cardinality(Counting(t)') <= Cardinality(Counting(t))
  BY <1>1, CountingIsFinite, FS_Subset
<1>3. /\ Cardinality(Counting(t)') \in Nat /\ Cardinality(Counting(t)) \in Nat
      /\ Cardinality(Check) \in Nat
  BY <1>1, CountingIsFinite
<1> QED
  BY <1>2, <1>3, PreventionAssumption DEF PreventionInv, RateOvershoot

LEMMA AllowInv ==
  ASSUME PreventionInv, NEW c \in Check, Allow(c)
  PROVE  PreventionInv'
<1>1. /\ rateCount' \in [Trader -> Nat]
      /\ checking' \in [Check -> SUBSET Trader]
  BY DEF PreventionInv, Allow, NoTrader
<1> SUFFICES ASSUME NEW t \in Trader
             PROVE  rateCount'[t] + Cardinality(Counting(t)')
                      < RateLimit + Cardinality(Check)
  BY <1>1 DEF PreventionInv, RateOvershoot
<1>2. Counting(t) \subseteq Check
  BY DEF Counting
<1>3. Cardinality(Counting(t)) \in Nat /\ Cardinality(Check) \in Nat
  BY <1>2, CountingIsFinite
<1>4. rateCount[t] + Cardinality(Counting(t)) < RateLimit + Cardinality(Check)
  BY DEF PreventionInv, RateOvershoot
<1>5. CASE t \in checking[c]
  <2>1. rateCount'[t] = rateCount[t] + 1
    BY <1>5 DEF Allow
  <2>2. Counting(t)' = Counting(t) \ {c} /\ c \in Counting(t)
    BY <1>5 DEF Counting, Allow, PreventionInv, NoTrader
  <2>3. Cardinality(Counting(t)') = Cardinality(Counting(t)) - 1
    BY <1>2, <2>2, CountingIsFinite, FS_RemoveElement
  <2> QED
    BY <1>3, <1>4, <2>1, <2>3, PreventionAssumption DEF PreventionInv
<1>6. CASE t \notin checking[c]
  <2>1. rateCount'[t] = rateCount[t]
    BY <1>6 DEF Allow
  <2>2. Counting(t)' = Counting(t)
    BY <1>6 DEF Counting, Allow, PreventionInv, NoTrader
  <2> QED
    BY <1>4, <2>1, <2>2
<1> QED
  BY <1>5, <1>6

LEMMA PreTradeCheckInv ==
  ASSUME PreventionInv, NEW c \in Check, NEW t \in Trader, PreTradeCheck(c, t)
  PROVE  PreventionInv'
<1>1. CASE UNCHANGED checking
  BY <1>1, PreventionShrinks DEF PreTradeCheck, PreventionInv
<1>2. CASE ~IsRateLimited(t) /\ checking' = [checking EXCEPT ![c] = {t}]
  <2>1. rateCount' = rateCount /\ checking' \in [Check -> SUBSET Trader]
    BY <1>2 DEF PreTradeCheck, PreventionInv
  <2> SUFFICES ASSUME NEW u \in Trader
               PROVE  rateCount[u] + Cardinality(Counting(u)')
                        < RateLimit + Cardinality(Check)
    BY <2>1 DEF PreventionInv, RateOvershoot
  <2>2. Counting(u)' \subseteq Check /\ Counting(u) \subseteq Check
    BY DEF Counting
  <2>3. /\ Cardinality(Counting(u)') \in Nat /\ Cardinality(Check) \in Nat
        /\ Cardinality(Counting(u)') <= Cardinality(Check)
    BY <2>2, CountingIsFinite
  <2>4. CASE u = t
    BY <1>2, <2>3, <2>4, PreventionAssumption DEF IsRateLimited, PreventionInv
  <2>5. CASE u # t
    <3>1. Counting(u)' = Counting(u)
      BY <1>2, <2>5 DEF Counting, PreTradeCheck, PreventionInv, NoTrader
    <3> QED
      BY <3>1 DEF PreventionInv, RateOvershoot
  <2> QED
    BY <2>4, <2>5
<1> QED
  BY <1>1, <1>2 DEF PreTradeCheck

LEMMA PreventionStepInv ==
  PreventionInv /\ [PreventionNext]_preventionVars => PreventionInv'
<1> SUFFICES ASSUME PreventionInv, [PreventionNext]_preventionVars
             PROVE  PreventionInv'
  OBVIOUS
<1>0. rateCount \in [Trader -> Nat] /\ checking \in [Check -> SUBSET Trader]
  BY DEF PreventionInv
<1>1. CASE \E t \in Trader, c \in Check : PreTradeCheck(c, t)
  BY <1>1, PreTradeCheckInv
<1>2. CASE \E c \in Check : Allow(c)
  BY <1>2, AllowInv
<1>3. CASE \E c \in Check : Refuse(c)
  BY <1>0, <1>3, PreventionShrinks DEF Refuse, NoTrader
<1>4. CASE \E t \in Trader : MinutePasses(t)
  BY <1>0, <1>4, PreventionShrinks DEF MinutePasses
<1>5. CASE PreventionRestarts
  BY <1>0, <1>5, PreventionShrinks DEF PreventionRestarts, NoTrader
<1>6. CASE UNCHANGED <<rateCount, checking>>
  BY <1>0, <1>6, PreventionShrinks
<1> QED
  BY <1>1, <1>2, <1>3, <1>4, <1>5, <1>6
  DEF PreventionNext, preventionVars, BlockTrader, BlockExpires,
      UnblockTrader, Whitelists

(* Concurrent checks pass the limit together by less than their number.    *)
THEOREM OvershootIsBounded == PreventionSpec => []RateOvershoot
<1>1. PreventionInv => RateOvershoot
  BY DEF PreventionInv
<1> QED
  BY <1>1, PreventionInitInv, PreventionStepInv, PTL DEF PreventionSpec

-----------------------------------------------------------------------------
(* The transaction workflow.                                               *)
WorkflowTypeOK ==
  /\ txVerdict \in {"pending", "success", "failed"}
  /\ workflow \in [Workflow -> WorkflowEntry]
  /\ execution \in [Execution -> ExecutionFrame \cup {NoExecution}]

\* Whoever has read that the transaction succeeded, or is past the step that
\* looks at what was read, is right.
VerdictKnown ==
  /\ WorkflowVerdict
  /\ \A w \in Workflow :
       workflow[w].stellarTx = "success" \/ workflow[w].currentStep > Succeeded
         => txVerdict = "success"
  /\ \A x \in Execution :
       Runs(x, "confirm") \/ (Runs(x, "step") /\ execution[x].step > Succeeded)
         => txVerdict = "success"

WorkflowInv == WorkflowTypeOK /\ VerdictKnown /\ RunningIsRun

LEMMA WorkflowInitInv == WorkflowInit => WorkflowInv
<1> SUFFICES ASSUME WorkflowInit PROVE WorkflowInv
  OBVIOUS
<1> USE DEF Step, Validate, OfType, LedgerInfo, Succeeded
<1> DEFINE n == NewWorkflow(LedgerInfo)
           e == [n EXCEPT !.status = "none", !.listed = FALSE]
<1>1. n \in WorkflowEntry /\ n.currentStep = 1 /\ n.stellarTx = "none"
  BY DEF NewWorkflow, WorkflowEntry, WorkflowStatus
<1> HIDE DEF n
<1>2. /\ e \in WorkflowEntry /\ e.status = "none"
      /\ e.currentStep = 1 /\ e.stellarTx = "none"
  BY <1>1 DEF WorkflowEntry, WorkflowStatus
<1>3. workflow = [w \in Workflow |-> e] /\ \A w \in Workflow : workflow[w] = e
  BY DEF WorkflowInit, n
<1> HIDE DEF e
<1>4. WorkflowTypeOK
  BY <1>2, <1>3 DEF WorkflowInit, WorkflowTypeOK
<1>5. VerdictKnown
  <2>1. \A x \in Execution : execution[x] = NoExecution
    BY DEF WorkflowInit
  <2>2. WorkflowVerdict
    BY DEF WorkflowInit, WorkflowVerdict
  <2> QED
    BY <1>2, <1>3, <2>1, <2>2 DEF VerdictKnown, Runs
<1>6. RunningIsRun
  BY <1>2, <1>3 DEF RunningIsRun
<1> QED
  BY <1>4, <1>5, <1>6 DEF WorkflowInv

\* A frame that is no step of its own: what a call moves to.
LEMMA MovesInv ==
  ASSUME WorkflowInv, NEW x \in Execution, execution[x] # NoExecution,
         NEW f \in ExecutionFrame, f.wf = execution[x].wf,
         f.pc = "cancel" => execution[x].pc = "cancel",
         execution' = [execution EXCEPT ![x] = f], txVerdict' = txVerdict,
         f.pc = "confirm" \/ (f.pc = "step" /\ f.step > Succeeded)
           => txVerdict = "success",
         WorkflowVerdict',
         workflow' \in [Workflow -> WorkflowEntry],
         \A w \in Workflow :
           /\ \/ workflow'[w].status = workflow[w].status
              \/ w = execution[x].wf /\ execution[x].pc # "cancel"
           /\ workflow'[w].listed => workflow[w].listed
           /\ \/ workflow'[w].stellarTx = workflow[w].stellarTx
              \/ workflow'[w].stellarTx = txVerdict
           /\ \/ workflow'[w].currentStep = workflow[w].currentStep
              \/ workflow'[w].currentStep > Succeeded => txVerdict = "success"
  PROVE  WorkflowInv'
<1>1. /\ execution' \in [Execution -> ExecutionFrame \cup {NoExecution}]
      /\ execution'[x] = f /\ f # NoExecution
      /\ \A y \in Execution \ {x} : execution'[y] = execution[y]
  BY ExecutionAssumption DEF WorkflowInv, WorkflowTypeOK
<1>2. WorkflowTypeOK'
  BY <1>1 DEF WorkflowInv, WorkflowTypeOK
<1>3. VerdictKnown'
  BY <1>1 DEF WorkflowInv, VerdictKnown, Runs
<1>4. RunningIsRun'
  <2> SUFFICES ASSUME NEW w \in Workflow, workflow'[w].listed,
                      workflow'[w].status \in {"running", "completed", "failed"}
               PROVE  \E y \in Execution :
                        /\ execution'[y] # NoExecution /\ execution'[y].wf = w
                        /\ ~Runs(y, "cancel")'
    BY DEF RunningIsRun
  <2>1. CASE w = execution[x].wf /\ execution[x].pc # "cancel"
    BY <1>1, <2>1 DEF Runs
  <2>2. CASE ~(w = execution[x].wf /\ execution[x].pc # "cancel")
    <3>1. PICK y \in Execution :
            /\ execution[y] # NoExecution /\ execution[y].wf = w
            /\ ~Runs(y, "cancel")
      BY <2>2 DEF WorkflowInv, RunningIsRun
    <3>2. y # x
      BY <2>2, <3>1 DEF Runs
    <3> QED
      BY <1>1, <3>1, <3>2 DEF Runs
  <2> QED
    BY <2>1, <2>2
<1> QED
  BY <1>2, <1>3, <1>4 DEF WorkflowInv

LEMMA StepPassesInv ==
  ASSUME WorkflowInv, NEW x \in Execution, StepPasses(x)
  PROVE  WorkflowInv'
<1> DEFINE w == execution[x].wf
           i == execution[x].step
           seen == IF i = Exists THEN txVerdict ELSE workflow[w].stellarTx
<1>0. /\ execution[x] \in ExecutionFrame /\ execution[x] # NoExecution
      /\ execution[x].pc = "step" /\ w \in Workflow /\ i \in Step
      /\ workflow[w] \in WorkflowEntry
      /\ Passes(x) /\ txVerdict' = txVerdict /\ txStatus' = txStatus
  BY DEF StepPasses, Runs, WorkflowInv, WorkflowTypeOK, ExecutionFrame, txRow
<1> USE DEF Step, Validate, Exists, Succeeded, LedgerInfo, OfType
<1>1. i >= Succeeded => txVerdict = "success"
  <2>1. CASE i = Succeeded
    BY <1>0, <2>1 DEF Passes, WorkflowOf, WorkflowInv, VerdictKnown
  <2>2. CASE i # Succeeded
    BY <1>0, <2>2 DEF Runs, WorkflowInv, VerdictKnown
  <2> QED
    BY <2>1, <2>2
<1>2. WorkflowVerdict'
  BY <1>0 DEF WorkflowVerdict, WorkflowInv, VerdictKnown
<1>3. CASE /\ i < workflow[w].last
           /\ execution' = [execution EXCEPT ![x].step = i + 1,
                                             ![x].attempt = 1]
           /\ workflow' = [workflow EXCEPT ![w].currentStep = i + 1,
                                           ![w].stellarTx = seen]
  <2> DEFINE f == [execution[x] EXCEPT !.step = i + 1, !.attempt = 1]
             e == [workflow[w] EXCEPT !.currentStep = i + 1, !.stellarTx = seen]
  <2>1. i + 1 \in Step
    BY <1>0, <1>3 DEF WorkflowEntry
  <2>2. f \in ExecutionFrame /\ f.wf = w /\ f.pc = "step" /\ f.step = i + 1
    BY <1>0, <2>1 DEF ExecutionFrame
  <2>3. execution' = [execution EXCEPT ![x] = f]
    BY <1>3
  <2>4. seen \in {"none", "success", "failed"}
    BY <1>0 DEF Passes, WorkflowEntry, WorkflowInv, WorkflowTypeOK
  <2>5. /\ e \in WorkflowEntry /\ e.status = workflow[w].status
        /\ e.listed = workflow[w].listed /\ e.currentStep = i + 1
        /\ e.stellarTx = seen
    BY <1>0, <2>1, <2>4 DEF WorkflowEntry
  <2>6. workflow' = [workflow EXCEPT ![w] = e]
    BY <1>3
  <2>7. /\ workflow' \in [Workflow -> WorkflowEntry] /\ workflow'[w] = e
        /\ \A v \in Workflow \ {w} : workflow'[v] = workflow[v]
    BY <1>0, <2>5, <2>6 DEF WorkflowInv, WorkflowTypeOK
  <2>8. i + 1 > Succeeded => txVerdict = "success"
    BY <1>0, <1>1
  <2> HIDE DEF f, e
  <2> QED
    BY ZenonT(60), <1>0, <1>2, <2>2, <2>3, <2>5, <2>7, <2>8, MovesInv
<1>4. CASE /\ i = workflow[w].last /\ MovesTo(x, "confirm")
           /\ workflow' = [workflow EXCEPT ![w].status = "completed"]
  <2> DEFINE f == [execution[x] EXCEPT !.pc = "confirm"]
             e == [workflow[w] EXCEPT !.status = "completed"]
  <2>1. f \in ExecutionFrame /\ f.wf = w /\ f.pc = "confirm"
    BY <1>0 DEF ExecutionFrame
  <2>2. execution' = [execution EXCEPT ![x] = f]
    BY <1>4 DEF MovesTo
  <2>3. /\ e \in WorkflowEntry /\ e.listed = workflow[w].listed
        /\ e.currentStep = workflow[w].currentStep
        /\ e.stellarTx = workflow[w].stellarTx
    BY <1>0 DEF WorkflowEntry, WorkflowStatus
  <2>4. workflow' = [workflow EXCEPT ![w] = e]
    BY <1>4
  <2>5. /\ workflow' \in [Workflow -> WorkflowEntry] /\ workflow'[w] = e
        /\ \A v \in Workflow \ {w} : workflow'[v] = workflow[v]
    BY <1>0, <2>3, <2>4 DEF WorkflowInv, WorkflowTypeOK
  <2>6. txVerdict = "success"
    BY <1>0, <1>1, <1>4 DEF WorkflowEntry
  <2> HIDE DEF f, e
  <2> QED
    BY <1>0, <1>2, <2>1, <2>2, <2>3, <2>5, <2>6, MovesInv
<1> QED
  BY <1>3, <1>4 DEF StepPasses

\* What a call that is not over moves to with the workflows as they are.
LEMMA MovesOnlyInv ==
  ASSUME WorkflowInv, NEW x \in Execution, execution[x] # NoExecution,
         execution[x].pc # "cancel",
         NEW pc \in {"fail", "retry", "ending"},
         MovesTo(x, pc), UNCHANGED <<txVerdict, workflow>>, WorkflowVerdict'
  PROVE  WorkflowInv'
<1> DEFINE f == [execution[x] EXCEPT !.pc = pc]
<1>1. f \in ExecutionFrame /\ f.wf = execution[x].wf /\ f.pc = pc
  BY DEF WorkflowInv, WorkflowTypeOK, ExecutionFrame
<1>2. execution' = [execution EXCEPT ![x] = f]
  BY DEF MovesTo
<1>3. workflow' \in [Workflow -> WorkflowEntry]
  BY DEF WorkflowInv, WorkflowTypeOK
<1> HIDE DEF f
<1> QED
  BY <1>1, <1>2, <1>3, MovesInv

LEMMA FailsInv ==
  ASSUME WorkflowInv, NEW x \in Execution, execution[x] # NoExecution,
         execution[x].pc # "cancel", Fails(x), UNCHANGED txRow
  PROVE  WorkflowInv'
<1> DEFINE w == execution[x].wf
           pc == IF workflow[w].listed THEN "fail" ELSE "ending"
           f == [execution[x] EXCEPT !.pc = pc]
           e == [workflow[w] EXCEPT !.status = "failed"]
<1>1. /\ f \in ExecutionFrame /\ f.wf = w /\ f.pc \in {"fail", "ending"}
      /\ w \in Workflow
  BY DEF WorkflowInv, WorkflowTypeOK, ExecutionFrame
<1>2. execution' = [execution EXCEPT ![x] = f]
  BY DEF Fails, MovesTo, WorkflowOf
<1>3. /\ e \in WorkflowEntry /\ e.listed = workflow[w].listed
      /\ e.currentStep = workflow[w].currentStep
      /\ e.stellarTx = workflow[w].stellarTx
  BY <1>1 DEF WorkflowInv, WorkflowTypeOK, WorkflowEntry, WorkflowStatus
<1>4. workflow' = [workflow EXCEPT ![w] = e]
  BY DEF Fails
<1>5. /\ workflow' \in [Workflow -> WorkflowEntry] /\ workflow'[w] = e
      /\ \A v \in Workflow \ {w} : workflow'[v] = workflow[v]
  BY <1>1, <1>3, <1>4 DEF WorkflowInv, WorkflowTypeOK
<1>6. txVerdict' = txVerdict /\ WorkflowVerdict'
  BY DEF WorkflowInv, VerdictKnown, WorkflowVerdict, txRow
<1> HIDE DEF f, e
<1> QED
  BY <1>1, <1>2, <1>3, <1>5, <1>6, MovesInv

LEMMA AttemptFailsInv ==
  ASSUME WorkflowInv, NEW x \in Execution, AttemptFails(x)
  PROVE  WorkflowInv'
<1>0. execution[x] # NoExecution /\ execution[x].pc = "step"
  BY DEF AttemptFails, Runs
<1>1. CASE /\ execution' = [execution EXCEPT ![x].attempt = @ + 1]
           /\ UNCHANGED workflow
  <2> DEFINE f == [execution[x] EXCEPT !.attempt = @ + 1]
  <2>1. /\ f \in ExecutionFrame /\ f.wf = execution[x].wf /\ f.pc = "step"
        /\ f.step = execution[x].step
    BY <1>0 DEF WorkflowInv, WorkflowTypeOK, ExecutionFrame
  <2>2. execution' = [execution EXCEPT ![x] = f]
    BY <1>1
  <2>3. workflow' \in [Workflow -> WorkflowEntry] /\ workflow' = workflow
    BY <1>1 DEF WorkflowInv, WorkflowTypeOK
  <2>4. txVerdict' = txVerdict /\ WorkflowVerdict'
    BY DEF AttemptFails, WorkflowInv, VerdictKnown, WorkflowVerdict, txRow
  <2>5. f.step > Succeeded => txVerdict = "success"
    BY <1>0, <2>1 DEF WorkflowInv, VerdictKnown, Runs
  <2> HIDE DEF f
  <2> QED
    BY <1>0, <2>1, <2>2, <2>3, <2>4, <2>5, MovesInv
<1>2. CASE Fails(x)
  BY <1>0, <1>2, FailsInv DEF AttemptFails
<1> QED
  BY <1>1, <1>2 DEF AttemptFails

\* The writes of an execution: CONFIRMED is written of a success.
LEMMA ExecutionWritesInv ==
  ASSUME WorkflowInv, NEW x \in Execution,
         Confirm(x) \/ ConfirmDbFails(x) \/ HandleWorkflowFailure(x)
           \/ ScheduleRetry(x)
  PROVE  WorkflowInv'
<1>1. CASE Confirm(x)
  <2>1. txVerdict = "success" /\ txVerdict' = txVerdict
    BY <1>1 DEF Confirm, WorkflowInv, VerdictKnown
  <2>2. WorkflowVerdict'
    BY <2>1 DEF WorkflowVerdict
  <2> QED
    BY <1>1, <2>2, MovesOnlyInv DEF Confirm, Runs
<1>2. CASE ConfirmDbFails(x)
  BY <1>2, FailsInv DEF ConfirmDbFails, Runs
<1>3. CASE HandleWorkflowFailure(x)
  <2>1. WorkflowVerdict'
    BY <1>3 DEF HandleWorkflowFailure, WorkflowInv, VerdictKnown, WorkflowVerdict
  <2> QED
    BY <1>3, <2>1, MovesOnlyInv DEF HandleWorkflowFailure, Runs
<1>4. CASE ScheduleRetry(x)
  <2>1. WorkflowVerdict'
    BY <1>4 DEF ScheduleRetry, WorkflowInv, VerdictKnown, WorkflowVerdict
  <2> QED
    BY <1>4, <2>1, MovesOnlyInv DEF ScheduleRetry, Runs
<1> QED
  BY <1>1, <1>2, <1>3, <1>4

\* A call ends.  An execution leaves its workflow unlisted, a cancellation
\* owes its workflow nothing.
LEMMA EndsInv ==
  ASSUME WorkflowInv, NEW x \in Execution, execution[x] # NoExecution,
         execution' = [execution EXCEPT ![x] = NoExecution],
         txVerdict' = txVerdict, WorkflowVerdict',
         NEW l \in BOOLEAN,
         workflow' = [workflow EXCEPT ![execution[x].wf].listed = l],
         l => WorkflowOf(x).listed /\ Runs(x, "cancel")
  PROVE  WorkflowInv'
<1> DEFINE w == execution[x].wf
           e == [workflow[w] EXCEPT !.listed = l]
<1>1. /\ execution' \in [Execution -> ExecutionFrame \cup {NoExecution}]
      /\ execution'[x] = NoExecution
      /\ \A y \in Execution \ {x} : execution'[y] = execution[y]
  BY DEF WorkflowInv, WorkflowTypeOK
<1>2. w \in Workflow
  BY DEF WorkflowInv, WorkflowTypeOK, ExecutionFrame
<1>3. /\ e \in WorkflowEntry /\ e.listed = l /\ e.status = workflow[w].status
      /\ e.currentStep = workflow[w].currentStep
      /\ e.stellarTx = workflow[w].stellarTx
  BY <1>2 DEF WorkflowInv, WorkflowTypeOK, WorkflowEntry
<1>4. /\ workflow' \in [Workflow -> WorkflowEntry] /\ workflow'[w] = e
      /\ \A v \in Workflow \ {w} : workflow'[v] = workflow[v]
  <2>1. workflow' = [workflow EXCEPT ![w] = e]
    OBVIOUS
  <2> QED
    BY <1>2, <1>3, <2>1 DEF WorkflowInv, WorkflowTypeOK
<1> HIDE DEF e
<1>5. WorkflowTypeOK'
  BY <1>1, <1>4 DEF WorkflowInv, WorkflowTypeOK
<1>6. VerdictKnown'
  BY <1>1, <1>3, <1>4 DEF WorkflowInv, VerdictKnown, Runs
<1>7. RunningIsRun'
  <2> SUFFICES ASSUME NEW v \in Workflow, workflow'[v].listed,
                      workflow'[v].status \in {"running", "completed", "failed"}
               PROVE  \E y \in Execution :
                        /\ execution'[y] # NoExecution /\ execution'[y].wf = v
                        /\ ~Runs(y, "cancel")'
    BY DEF RunningIsRun
  <2>1. workflow[v].listed /\ workflow[v].status = workflow'[v].status
    BY <1>3, <1>4 DEF WorkflowOf
  <2>2. PICK y \in Execution :
          /\ execution[y] # NoExecution /\ execution[y].wf = v
          /\ ~Runs(y, "cancel")
    BY <2>1 DEF WorkflowInv, RunningIsRun
  <2>3. y # x
    BY <1>3, <1>4, <2>2
  <2> QED
    BY <1>1, <2>2, <2>3 DEF Runs
<1> QED
  BY <1>5, <1>6, <1>7 DEF WorkflowInv

\* A call begins, on a workflow that it sets RUNNING or CANCELLED.
LEMMA BeginsInv ==
  ASSUME WorkflowInv, NEW x \in Execution, execution[x] = NoExecution,
         NEW w \in Workflow, NEW f \in ExecutionFrame, f.wf = w,
         NEW st \in {"running", "cancelled"},
         f.pc = IF st = "running" THEN "step" ELSE "cancel",
         f.step \in {workflow[w].currentStep, Validate},
         execution' = [execution EXCEPT ![x] = f],
         workflow' = [workflow EXCEPT ![w].status = st], UNCHANGED txRow
  PROVE  WorkflowInv'
<1> DEFINE e == [workflow[w] EXCEPT !.status = st]
<1>1. /\ execution' \in [Execution -> ExecutionFrame \cup {NoExecution}]
      /\ execution'[x] = f /\ f # NoExecution
      /\ \A y \in Execution \ {x} : execution'[y] = execution[y]
  BY ExecutionAssumption DEF WorkflowInv, WorkflowTypeOK
<1>2. /\ e \in WorkflowEntry /\ e.listed = workflow[w].listed /\ e.status = st
      /\ e.currentStep = workflow[w].currentStep
      /\ e.stellarTx = workflow[w].stellarTx
  BY DEF WorkflowInv, WorkflowTypeOK, WorkflowEntry, WorkflowStatus
<1>3. /\ workflow' \in [Workflow -> WorkflowEntry] /\ workflow'[w] = e
      /\ \A v \in Workflow \ {w} : workflow'[v] = workflow[v]
  <2>1. workflow' = [workflow EXCEPT ![w] = e]
    OBVIOUS
  <2> QED
    BY <1>2, <2>1 DEF WorkflowInv, WorkflowTypeOK
<1> HIDE DEF e
<1>4. WorkflowTypeOK'
  BY <1>1, <1>3 DEF WorkflowInv, WorkflowTypeOK, txRow
<1>5. VerdictKnown'
  <2>1. f.pc = "step" /\ f.step > Succeeded => txVerdict = "success"
    BY DEF WorkflowInv, VerdictKnown, Validate, Succeeded
  <2>2. f.pc # "confirm"
    OBVIOUS
  <2>3. WorkflowVerdict'
    BY DEF WorkflowInv, VerdictKnown, WorkflowVerdict, txRow
  <2> QED
    BY <1>1, <1>2, <1>3, <2>1, <2>2, <2>3
    DEF WorkflowInv, VerdictKnown, Runs, txRow
<1>6. RunningIsRun'
  <2> SUFFICES ASSUME NEW v \in Workflow, workflow'[v].listed,
                      workflow'[v].status \in {"running", "completed", "failed"}
               PROVE  \E y \in Execution :
                        /\ execution'[y] # NoExecution /\ execution'[y].wf = v
                        /\ ~Runs(y, "cancel")'
    BY DEF RunningIsRun
  <2>1. CASE v = w
    BY <1>1, <1>2, <1>3, <2>1 DEF Runs
  <2>2. CASE v # w
    <3>1. PICK y \in Execution :
            /\ execution[y] # NoExecution /\ execution[y].wf = v
            /\ ~Runs(y, "cancel")
      BY <1>3, <2>2 DEF WorkflowInv, RunningIsRun
    <3> QED
      BY <1>1, <3>1 DEF Runs
  <2> QED
    BY <2>1, <2>2
<1> QED
  BY <1>4, <1>5, <1>6 DEF WorkflowInv

LEMMA CallsBeginInv ==
  ASSUME WorkflowInv, NEW x \in Execution, NEW w \in Workflow,
         ExecuteWorkflow(x, w) \/ CancelWorkflow(x, w)
  PROVE  WorkflowInv'
<1>0. workflow[w].currentStep \in Step /\ Validate \in Step
  BY DEF WorkflowInv, WorkflowTypeOK, WorkflowEntry, Step, Validate, OfType
<1>1. CASE ExecuteWorkflow(x, w)
  <2> DEFINE f == [pc |-> "step", wf |-> w, attempt |-> 1,
                   step |-> workflow[w].currentStep]
  <2>1. /\ f \in ExecutionFrame /\ f.wf = w /\ f.pc = "step"
        /\ f.step = workflow[w].currentStep
    BY <1>0 DEF ExecutionFrame
  <2>2. /\ execution[x] = NoExecution
        /\ execution' = [execution EXCEPT ![x] = f]
        /\ workflow' = [workflow EXCEPT ![w].status = "running"]
        /\ UNCHANGED txRow
    BY <1>1 DEF ExecuteWorkflow
  <2> HIDE DEF f
  <2> QED
    BY <2>1, <2>2, BeginsInv
<1>2. CASE CancelWorkflow(x, w)
  <2> DEFINE f == [pc |-> "cancel", wf |-> w, attempt |-> 1,
                   step |-> Validate]
  <2>1. /\ f \in ExecutionFrame /\ f.wf = w /\ f.pc = "cancel"
        /\ f.step = Validate
    BY <1>0 DEF ExecutionFrame
  <2>2. /\ execution[x] = NoExecution
        /\ execution' = [execution EXCEPT ![x] = f]
        /\ workflow' = [workflow EXCEPT ![w].status = "cancelled"]
        /\ UNCHANGED txRow
    BY <1>2 DEF CancelWorkflow
  <2> HIDE DEF f
  <2> QED
    BY <2>1, <2>2, BeginsInv
<1> QED
  BY <1>1, <1>2

LEMMA CallsEndInv ==
  ASSUME WorkflowInv, NEW x \in Execution, ExecutionEnds(x) \/ CancelWrites(x)
  PROVE  WorkflowInv'
<1>1. CASE ExecutionEnds(x)
  <2>1. txVerdict' = txVerdict /\ WorkflowVerdict'
    BY <1>1 DEF ExecutionEnds, txRow, WorkflowInv, VerdictKnown, WorkflowVerdict
  <2> QED
    BY <1>1, <2>1, EndsInv DEF ExecutionEnds, Runs
<1>2. CASE CancelWrites(x)
  <2> DEFINE w == execution[x].wf
  <2>1. txVerdict' = txVerdict /\ WorkflowVerdict' /\ Runs(x, "cancel")
    BY <1>2 DEF CancelWrites, WorkflowInv, VerdictKnown, WorkflowVerdict
  <2>2. w \in Workflow /\ workflow[w] \in WorkflowEntry
    BY <2>1 DEF Runs, WorkflowInv, WorkflowTypeOK, ExecutionFrame
  <2>3. workflow[w].listed \in BOOLEAN
    BY <2>2 DEF WorkflowEntry
  <2>4. CASE workflow' = [workflow EXCEPT ![w].listed = FALSE]
    BY <1>2, <2>1, <2>4, EndsInv DEF CancelWrites, Runs
  <2>5. CASE UNCHANGED workflow
    <3>1. [workflow[w] EXCEPT !.listed = workflow[w].listed] = workflow[w]
      BY <2>2 DEF WorkflowEntry
    <3>2. workflow' = [workflow EXCEPT ![w].listed = workflow[w].listed]
      BY <2>2, <2>5, <3>1 DEF WorkflowInv, WorkflowTypeOK
    <3> QED
      BY <1>2, <2>1, <2>3, <3>2, EndsInv DEF CancelWrites, Runs, WorkflowOf
  <2> QED
    BY <1>2, <2>4, <2>5 DEF CancelWrites
<1> QED
  BY <1>1, <1>2

LEMMA CreateWorkflowInv ==
  ASSUME WorkflowInv, NEW w \in Workflow, CreateWorkflow(w)
  PROVE  WorkflowInv'
<1>1. PICK last \in {LedgerInfo, OfType} :
        workflow' = [workflow EXCEPT ![w] = NewWorkflow(last)]
  BY DEF CreateWorkflow
<1> DEFINE e == NewWorkflow(last)
<1>2. /\ e \in WorkflowEntry /\ e.status = "pending"
      /\ e.currentStep = 1 /\ e.stellarTx = "none"
  BY DEF NewWorkflow, WorkflowEntry, WorkflowStatus, Step, Validate, OfType
<1> HIDE DEF e
<1>3. /\ workflow' \in [Workflow -> WorkflowEntry] /\ workflow'[w] = e
      /\ \A v \in Workflow \ {w} : workflow'[v] = workflow[v]
  BY <1>1, <1>2 DEF WorkflowInv, WorkflowTypeOK, e
<1>4. UNCHANGED <<txVerdict, txStatus, execution>>
  BY DEF CreateWorkflow, txRow
<1>5. WorkflowTypeOK'
  BY <1>3, <1>4 DEF WorkflowInv, WorkflowTypeOK
<1>6. VerdictKnown'
  BY <1>2, <1>3, <1>4
  DEF WorkflowInv, VerdictKnown, WorkflowVerdict, Runs, Succeeded
<1>7. RunningIsRun'
  BY <1>2, <1>3, <1>4 DEF WorkflowInv, RunningIsRun, Runs
<1> QED
  BY <1>5, <1>6, <1>7 DEF WorkflowInv

LEMMA WorkflowStepInv ==
  WorkflowInv /\ [WorkflowNext]_workflowVars => WorkflowInv'
<1> SUFFICES ASSUME WorkflowInv, [WorkflowNext]_workflowVars
             PROVE  WorkflowInv'
  OBVIOUS
<1>1. CASE NetworkDecides
  BY <1>1 DEF NetworkDecides, WorkflowInv, WorkflowTypeOK, VerdictKnown,
              WorkflowVerdict, RunningIsRun, Runs
<1>2. CASE ExecuteRetry
  BY <1>2 DEF ExecuteRetry, WorkflowInv, WorkflowTypeOK, VerdictKnown,
              WorkflowVerdict, RunningIsRun, Runs
<1>3. CASE \E w \in Workflow : CreateWorkflow(w)
  BY <1>3, CreateWorkflowInv
<1>4. CASE \E w \in Workflow, x \in Execution :
             ExecuteWorkflow(x, w) \/ CancelWorkflow(x, w)
  BY <1>4, CallsBeginInv
<1>5. CASE \E x \in Execution : StepPasses(x) \/ AttemptFails(x)
  BY <1>5, StepPassesInv, AttemptFailsInv
<1>6. CASE \E x \in Execution :
             Confirm(x) \/ ConfirmDbFails(x) \/ HandleWorkflowFailure(x)
               \/ ScheduleRetry(x)
  BY <1>6, ExecutionWritesInv
<1>7. CASE \E x \in Execution : ExecutionEnds(x) \/ CancelWrites(x)
  BY <1>7, CallsEndInv
<1>8. CASE UNCHANGED workflowVars
  BY <1>8 DEF workflowVars, WorkflowInv, WorkflowTypeOK, VerdictKnown,
              WorkflowVerdict, RunningIsRun, Runs
<1> QED
  BY <1>1, <1>2, <1>3, <1>4, <1>5, <1>6, <1>7, <1>8
  DEF WorkflowNext, ExecutionStep

(* Executions that share a workflow write CONFIRMED of a success only.     *)
THEOREM WorkflowIsRight == WorkflowSpec => []WorkflowVerdict
<1>1. WorkflowInv => WorkflowVerdict
  BY DEF WorkflowInv, VerdictKnown
<1> QED
  BY <1>1, WorkflowInitInv, WorkflowStepInv, PTL DEF WorkflowSpec

(* No workflow is left in activeWorkflows without a call that works on it. *)
THEOREM WorkflowIsRun == WorkflowSpec => []RunningIsRun
<1>1. WorkflowInv => RunningIsRun
  BY DEF WorkflowInv
<1> QED
  BY <1>1, WorkflowInitInv, WorkflowStepInv, PTL DEF WorkflowSpec

-----------------------------------------------------------------------------
(* Fraud cases.  What a call holds: FraudGood, over the table C and the    *)
(* trades D that are done.  A call that is about to insert a case holds a  *)
(* trade without one; one that is about to report holds the severity of    *)
(* the row, which no handler changes.                                      *)
Owned(f) == IF f.pc \in {"analyse", "save"} THEN f.trade \cup Queue(f.batch)
                                            ELSE Queue(f.batch)

FraudGood(f, C, D) ==
  /\ NoRepeat(f.batch)
  /\ f.pc \in {"analyse", "save"} =>
       \E t \in Trade : f.trade = {t} /\ t \notin Queue(f.batch)
  /\ f.pc \notin {"analyse", "save"} => f.trade \subseteq D
  /\ f.pc = "save" => f.copy \in Case /\ ~f.copy.regulatoryReported
  /\ f.pc = "sar" => \E t \in Trade : /\ f.trade = {t} /\ C[t] # NoCase
                                      /\ f.copy \in Case
                                      /\ f.copy.severity = C[t].severity
  /\ \A t \in f.todo : t \in Trade /\ C[t].severity = "critical"

CaseGood(t, r, D) ==
  /\ r # NoCase => t \in D
  /\ r.regulatoryReported => r.sar /\ r.severity = "critical"

FraudTypeOK ==
  /\ fraudCase \in [Trade -> Case \cup {NoCase}]
  /\ pendingTrades \in Seq(Trade)
  /\ fraudCall \in [FraudCall -> FraudFrame]
  /\ tradeDone \subseteq Trade

CasesGood == \A t \in Trade : CaseGood(t, fraudCase[t], tradeDone)

CallsGood == \A k \in FraudCall : FraudGood(fraudCall[k], fraudCase, tradeDone)

\* TradeAnalysedOnce without the counting.
InOnePlace ==
  /\ NoRepeat(pendingTrades)
  /\ \A k \in FraudCall :
       /\ Owned(fraudCall[k]) \cap tradeDone = {}
       /\ Owned(fraudCall[k]) \cap Queue(pendingTrades) = {}
       /\ \A j \in FraudCall \ {k} :
            Owned(fraudCall[j]) \cap Owned(fraudCall[k]) = {}
  /\ tradeDone \cap Queue(pendingTrades) = {}

FraudInv == FraudTypeOK /\ CasesGood /\ CallsGood /\ InOnePlace

-----------------------------------------------------------------------------
(* Sequences without repetition.                                           *)
LEMMA CountNoRepeat ==
  ASSUME NEW S, NEW s \in Seq(S), NoRepeat(s)
  PROVE  Cardinality(Queue(s)) = Len(s)
<1>1. Len(s) \in Nat /\ DOMAIN s = 1..Len(s) /\ s = [i \in 1..Len(s) |-> s[i]]
  OBVIOUS
<1>2. s \in [1..Len(s) -> Queue(s)]
  BY <1>1 DEF Queue
<1>3. s \in Bijection(1..Len(s), Queue(s))
  BY <1>1, <1>2 DEF Bijection, Injection, IsInjective, Surjection, Queue, NoRepeat
<1> QED
  BY <1>1, <1>3, FS_CountingElements DEF ExistsBijection

LEMMA HeadTailFacts ==
  ASSUME NEW S, NEW s \in Seq(S), NoRepeat(s), s # <<>>
  PROVE  /\ Head(s) \in S /\ Tail(s) \in Seq(S) /\ NoRepeat(Tail(s))
         /\ Head(s) \notin Queue(Tail(s))
         /\ Queue(s) = {Head(s)} \cup Queue(Tail(s))
<1>1. /\ Len(s) \in Nat /\ Len(s) > 0 /\ DOMAIN s = 1..Len(s)
      /\ Head(s) = s[1] /\ Tail(s) \in Seq(S) /\ Len(Tail(s)) = Len(s) - 1
      /\ DOMAIN Tail(s) = 1 .. Len(s) - 1
      /\ \A i \in 1 .. Len(s) - 1 : Tail(s)[i] = s[i + 1]
      /\ Head(s) \in S
  OBVIOUS
<1>2. NoRepeat(Tail(s))
  BY <1>1 DEF NoRepeat
<1>3. Head(s) \notin Queue(Tail(s))
  BY <1>1 DEF Queue, NoRepeat
<1>4. Queue(s) = {Head(s)} \cup Queue(Tail(s))
  <2>1. \A i \in 1..Len(s) : i = 1 \/ (i - 1 \in 1 .. Len(s) - 1 /\ Tail(s)[i - 1] = s[i])
    BY <1>1
  <2>2. \A i \in 1 .. Len(s) - 1 : i + 1 \in 1..Len(s)
    BY <1>1
  <2>3. Queue(s) \subseteq {Head(s)} \cup Queue(Tail(s))
    <3> SUFFICES ASSUME NEW i \in 1..Len(s)
                 PROVE  s[i] \in {Head(s)} \cup Queue(Tail(s))
      BY <1>1 DEF Queue
    <3> QED
      BY <1>1, <2>1 DEF Queue
  <2>4. Queue(Tail(s)) \subseteq Queue(s) /\ Head(s) \in Queue(s)
    BY <1>1, <2>2 DEF Queue
  <2> QED
    BY <2>3, <2>4
<1> QED
  BY <1>1, <1>2, <1>3, <1>4

LEMMA SpliceFacts ==
  ASSUME NEW S, NEW s \in Seq(S), NoRepeat(s),
         NEW n \in Nat, 0 < n, n <= Len(s)
  PROVE  /\ SubSeq(s, 1, n) \in Seq(S) /\ SubSeq(s, 1, n) # <<>>
         /\ SubSeq(s, n + 1, Len(s)) \in Seq(S)
         /\ NoRepeat(SubSeq(s, 1, n)) /\ NoRepeat(SubSeq(s, n + 1, Len(s)))
         /\ Queue(SubSeq(s, 1, n)) \subseteq Queue(s)
         /\ Queue(SubSeq(s, n + 1, Len(s))) \subseteq Queue(s)
         /\ Queue(SubSeq(s, 1, n)) \cap Queue(SubSeq(s, n + 1, Len(s))) = {}
<1> DEFINE a == SubSeq(s, 1, n)
           b == SubSeq(s, n + 1, Len(s))
<1>1. /\ Len(s) \in Nat /\ DOMAIN s = 1..Len(s) /\ n \in Nat /\ n <= Len(s)
      /\ \A i \in 1..Len(s) : s[i] \in S
  OBVIOUS
<1>2. /\ a \in Seq(S) /\ Len(a) = n /\ DOMAIN a = 1..n
      /\ \A i \in 1..n : a[i] = s[i] /\ i \in 1..Len(s)
  BY <1>1
<1>0. PICK r \in Nat : r = Len(s) - n
  <2>1. Len(s) - n \in Nat
    BY <1>1
  <2> QED
    BY <2>1
<1>3. /\ b \in Seq(S) /\ DOMAIN b = 1..r
      /\ \A i \in 1..r : b[i] = s[n + i] /\ n + i \in 1..Len(s)
  <2>1. CASE n = Len(s)
    BY <1>0, <1>1, <2>1
  <2>2. CASE n < Len(s)
    <3>1. n + 1 \in 1..Len(s) /\ Len(s) - (n + 1) + 1 = r
      BY <1>0, <1>1, <2>2
    <3>2. \A i \in 1..r : n + 1 + i - 1 = n + i /\ n + i \in 1..Len(s)
      BY <1>0, <1>1
    <3>3. b \in Seq(S) /\ DOMAIN b = 1..r
      BY <1>0, <1>1, <3>1
    <3>4. \A i \in 1..r : b[i] = s[n + i]
      BY <1>0, <1>1, <3>1, <3>2
    <3> HIDE DEF b
    <3> QED
      BY <3>2, <3>3, <3>4
  <2>3. n = Len(s) \/ n < Len(s)
    <3>1. \A m \in Nat : n <= m => n = m \/ n < m
      OBVIOUS
    <3> QED
      BY <1>1, <3>1
  <2> QED
    BY <2>1, <2>2, <2>3
<1> HIDE DEF a, b
<1>4. a # <<>>
  BY <1>2
<1>5. NoRepeat(a)
  BY <1>1, <1>2 DEF NoRepeat
<1>6. NoRepeat(b)
  <2> SUFFICES ASSUME NEW i \in 1..r, NEW j \in 1..r, b[i] = b[j]
               PROVE  i = j
    BY <1>3 DEF NoRepeat
  <2>1. /\ n + i \in 1..Len(s) /\ n + j \in 1..Len(s)
        /\ s[n + i] = s[n + j]
    BY <1>3
  <2>2. n + i = n + j
    BY <1>1, <2>1 DEF NoRepeat
  <2> QED
    BY <1>1, <2>2
<1>7. Queue(a) \subseteq Queue(s) /\ Queue(b) \subseteq Queue(s)
  <2>1. \A i \in 1..n : a[i] \in Queue(s)
    BY <1>1, <1>2 DEF Queue
  <2>2. \A i \in 1..r : b[i] \in Queue(s)
    BY <1>1, <1>3 DEF Queue
  <2> QED
    BY <1>2, <1>3, <2>1, <2>2 DEF Queue
<1>8. Queue(a) \cap Queue(b) = {}
  <2> SUFFICES ASSUME NEW i \in 1..n, NEW j \in 1..r, a[i] = b[j]
               PROVE  FALSE
    BY <1>2, <1>3 DEF Queue
  <2>1. s[i] = s[n + j] /\ i # n + j
    BY <1>0, <1>1, <1>2, <1>3
  <2> QED
    BY <1>1, <1>2, <1>3, <2>1 DEF NoRepeat
<1> QED
  BY <1>2, <1>3, <1>4, <1>5, <1>6, <1>7, <1>8 DEF a, b

\* A queue has the entries of its sequence.
LEMMA QueueAppend ==
  ASSUME NEW S, NEW s \in Seq(S), NEW e \in S, e \notin Queue(s), NoRepeat(s)
  PROVE  /\ Append(s, e) \in Seq(S) /\ NoRepeat(Append(s, e))
         /\ Queue(Append(s, e)) = Queue(s) \cup {e}
BY AppendFacts DEF Queue, Entries

-----------------------------------------------------------------------------
(* A step changes one call, adds to the trades that are done only what     *)
(* that call no longer holds, and gives it trades from the queue or trades *)
(* that nobody has submitted.                                              *)
CasesEvolve ==
  \A t \in Trade : fraudCase[t] # NoCase =>
    /\ fraudCase'[t] # NoCase
    /\ fraudCase'[t].severity = fraudCase[t].severity

LEMMA FraudGoodKept ==
  ASSUME FraudTypeOK, CasesEvolve, tradeDone \subseteq tradeDone',
         NEW f, FraudGood(f, fraudCase, tradeDone)
  PROVE  FraudGood(f, fraudCase', tradeDone')
<1>1. \A t \in Trade : fraudCase[t].severity = "critical" =>
        fraudCase'[t].severity = "critical"
  <2>1. NoCase.severity # "critical"
    BY DEF NoCase
  <2> QED
    BY <2>1 DEF CasesEvolve
<1> QED
  BY <1>1 DEF FraudGood, CasesEvolve

LEMMA FraudStepKeeps ==
  ASSUME FraudInv, FraudTypeOK', CasesGood', CasesEvolve, NEW k \in FraudCall,
         \A j \in FraudCall \ {k} : fraudCall'[j] = fraudCall[j],
         FraudGood(fraudCall'[k], fraudCase', tradeDone'),
         NoRepeat(pendingTrades'),
         Queue(pendingTrades') \subseteq Queue(pendingTrades),
         tradeDone \subseteq tradeDone',
         \A t \in tradeDone' : \/ t \in tradeDone
                               \/ /\ t \in Owned(fraudCall[k])
                                  /\ t \notin Owned(fraudCall'[k]),
         \A t \in Owned(fraudCall'[k]) :
           \/ t \in Owned(fraudCall[k])
           \/ t \in Queue(pendingTrades) /\ t \notin Queue(pendingTrades')
           \/ t \notin Submitted
  PROVE  FraudInv'
<1>1. CallsGood'
  BY FraudGoodKept DEF FraudInv, CallsGood
<1>2. \A j \in FraudCall : \A t \in Owned(fraudCall[j]) : t \in Submitted
  BY DEF Submitted, Analysing, Owned
<1>3. \A t \in tradeDone \cup Queue(pendingTrades) : t \in Submitted
  BY DEF Submitted
<1>4. InOnePlace
  BY DEF FraudInv
<1>5. ASSUME NEW t \in Owned(fraudCall'[k])
      PROVE  /\ t \notin tradeDone' /\ t \notin Queue(pendingTrades')
             /\ \A j \in FraudCall \ {k} : t \notin Owned(fraudCall[j])
  BY <1>2, <1>3, <1>4, <1>5 DEF InOnePlace
<1>6. ASSUME NEW j \in FraudCall \ {k}
      PROVE  /\ Owned(fraudCall'[j]) \cap tradeDone' = {}
             /\ Owned(fraudCall'[j]) \cap Queue(pendingTrades') = {}
  BY <1>4, <1>6 DEF InOnePlace
<1>7. tradeDone' \cap Queue(pendingTrades') = {}
  BY <1>4 DEF InOnePlace
<1>8. ASSUME NEW i \in FraudCall, NEW j \in FraudCall \ {i}
      PROVE  Owned(fraudCall'[j]) \cap Owned(fraudCall'[i]) = {}
  <2>1. CASE i # k /\ j # k
    BY <1>4, <1>8, <2>1 DEF InOnePlace
  <2>2. CASE i = k
    BY <1>5, <1>8, <2>2
  <2>3. CASE j = k
    BY <1>5, <1>8, <2>3
  <2> QED
    BY <2>1, <2>2, <2>3
<1>9. InOnePlace'
  BY <1>5, <1>6, <1>7, <1>8 DEF InOnePlace
<1> QED
  BY <1>1, <1>9 DEF FraudInv

\* The same where the row and the queue stay.
LEMMA FraudCallKeeps ==
  ASSUME FraudInv, NEW k \in FraudCall, NEW f \in FraudFrame, Sets(k, f),
         UNCHANGED <<fraudCase, pendingTrades>>,
         tradeDone \subseteq tradeDone', tradeDone' \subseteq Trade,
         FraudGood(f, fraudCase, tradeDone'),
         \A t \in tradeDone' : \/ t \in tradeDone
                               \/ /\ t \in Owned(fraudCall[k])
                                  /\ t \notin Owned(f),
         \A t \in Owned(f) : t \in Owned(fraudCall[k]) \/ t \notin Submitted
  PROVE  FraudInv'
<1>1. /\ fraudCall' \in [FraudCall -> FraudFrame] /\ fraudCall'[k] = f
      /\ \A j \in FraudCall \ {k} : fraudCall'[j] = fraudCall[j]
  BY DEF FraudInv, FraudTypeOK, Sets
<1>2. FraudTypeOK' /\ CasesGood' /\ CasesEvolve
  BY <1>1 DEF FraudInv, FraudTypeOK, CasesGood, CaseGood, CasesEvolve
<1>3. NoRepeat(pendingTrades')
  BY DEF FraudInv, InOnePlace
<1> QED
  BY <1>1, <1>2, <1>3, FraudStepKeeps

\* A frame that holds no trade.
LEMMA IdleFrame ==
  /\ FreeCall \in FraudFrame /\ FreeCall.pc = "free" /\ Owned(FreeCall) = {}
  /\ \A C, D : FraudGood(FreeCall, C, D)
<1>1. Queue(<<>>) = {} /\ NoRepeat(<<>>) /\ <<>> \in Seq(Trade)
  BY DEF Queue, NoRepeat
<1>2. FreeCall \in FraudFrame
  BY <1>1 DEF FreeCall, FraudFrame
<1> QED
  BY <1>1, <1>2 DEF FreeCall, Owned, FraudGood

\* The frame that analyses the head of a batch.
LEMMA AnalysesFrame ==
  ASSUME NEW s \in Seq(Trade), NoRepeat(s), s # <<>>
  PROVE  /\ Analyses(s) \in FraudFrame /\ Owned(Analyses(s)) = Queue(s)
         /\ \A C, D : FraudGood(Analyses(s), C, D)
<1>1. /\ Head(s) \in Trade /\ Tail(s) \in Seq(Trade) /\ NoRepeat(Tail(s))
      /\ Head(s) \notin Queue(Tail(s))
      /\ Queue(s) = {Head(s)} \cup Queue(Tail(s))
  BY HeadTailFacts
<1> DEFINE f == Analyses(s)
<1>2. /\ f \in FraudFrame /\ f.pc = "analyse" /\ f.trade = {Head(s)}
      /\ f.batch = Tail(s) /\ f.todo = {}
  BY <1>1 DEF Analyses, FreeCall, FraudFrame
<1> HIDE DEF f
<1>3. Owned(f) = Queue(s) /\ \A C, D : FraudGood(f, C, D)
  BY <1>1, <1>2 DEF Owned, FraudGood
<1> QED
  BY <1>2, <1>3 DEF f

\* The frame NextTrade leaves.
LEMMA NextFrame ==
  ASSUME FraudInv, NEW k \in FraudCall
  PROVE  \E f \in FraudFrame :
           /\ NextTrade(k) <=> Sets(k, f)
           /\ Owned(f) = Queue(fraudCall[k].batch)
           /\ \A C, D : FraudGood(f, C, D)
<1>1. fraudCall[k].batch \in Seq(Trade) /\ NoRepeat(fraudCall[k].batch)
  BY DEF FraudInv, FraudTypeOK, FraudFrame, CallsGood, FraudGood
<1>2. CASE fraudCall[k].batch = <<>>
  <2>1. Queue(<<>>) = {}
    BY DEF Queue
  <2> QED
    BY <1>2, <2>1, IdleFrame DEF NextTrade
<1>3. CASE fraudCall[k].batch # <<>>
  BY <1>1, <1>3, AnalysesFrame DEF NextTrade
<1> QED
  BY <1>2, <1>3

LEMMA FraudFacts ==
  ASSUME FraudInv, NEW k \in FraudCall
  PROVE  /\ fraudCall[k] \in FraudFrame /\ fraudCall[k].batch \in Seq(Trade)
         /\ fraudCall[k].todo \subseteq Trade
         /\ FraudGood(fraudCall[k], fraudCase, tradeDone)
         /\ tradeDone \subseteq Trade
BY DEF FraudInv, FraudTypeOK, FraudFrame, CallsGood

\* No report is taken back.
ReportKept == \A t \in Trade : fraudCase[t].regulatoryReported =>
                                 fraudCase'[t].regulatoryReported

\* A handler that writes the row of one trade.
LEMMA CaseWritten ==
  ASSUME FraudInv, NEW t \in Trade, NEW r \in Case,
         fraudCase' = [fraudCase EXCEPT ![t] = r],
         t \in tradeDone', tradeDone \subseteq tradeDone',
         r.regulatoryReported => r.sar /\ r.severity = "critical",
         fraudCase[t] # NoCase => /\ r.severity = fraudCase[t].severity
                                  /\ fraudCase[t].regulatoryReported
                                       => r.regulatoryReported
  PROVE  /\ fraudCase' \in [Trade -> Case \cup {NoCase}]
         /\ CasesGood' /\ CasesEvolve /\ ReportKept
<1>1. fraudCase \in [Trade -> Case \cup {NoCase}] /\ CasesGood
  BY DEF FraudInv, FraudTypeOK
<1>2. fraudCase'[t] = r /\ \A u \in Trade : u # t => fraudCase'[u] = fraudCase[u]
  BY <1>1
<1>3. r # NoCase /\ ~NoCase.regulatoryReported
  BY DEF Case, NoCase, FraudCaseStatus
<1> QED
  BY <1>1, <1>2, <1>3 DEF CasesGood, CaseGood, CasesEvolve, ReportKept

\* A handler that leaves the rows.
LEMMA CasesStay ==
  ASSUME FraudInv, UNCHANGED fraudCase, tradeDone \subseteq tradeDone'
  PROVE  CasesGood' /\ CasesEvolve /\ ReportKept
BY DEF FraudInv, CasesGood, CaseGood, CasesEvolve, ReportKept

-----------------------------------------------------------------------------
(* The steps of the monitor.                                               *)
LEMMA IncomingKeeps ==
  ASSUME FraudInv, NEW k \in FraudCall, NEW t \in Trade,
         AnalyzeIncomingTrade(k, t)
  PROVE  FraudInv'
<1>1. <<t>> \in Seq(Trade) /\ NoRepeat(<<t>>) /\ <<t>> # <<>> /\ Queue(<<t>>) = {t}
  BY DEF NoRepeat, Queue
<1>2. /\ Analyses(<<t>>) \in FraudFrame /\ Owned(Analyses(<<t>>)) = {t}
      /\ FraudGood(Analyses(<<t>>), fraudCase, tradeDone)
  BY <1>1, AnalysesFrame
<1>3. /\ t \notin Submitted /\ Sets(k, Analyses(<<t>>))
      /\ UNCHANGED <<fraudCase, pendingTrades, tradeDone>>
  BY DEF AnalyzeIncomingTrade, Begins
<1> QED
  BY <1>2, <1>3, FraudCallKeeps, FraudFacts

LEMMA EnqueueKeeps ==
  ASSUME FraudInv, NEW t \in Trade, EnqueuePendingTrade(t)
  PROVE  FraudInv'
<1>1. /\ t \notin Submitted /\ UNCHANGED <<fraudCase, fraudCall, tradeDone>>
      /\ pendingTrades' = Append(pendingTrades, t)
  BY DEF EnqueuePendingTrade
<1>2. /\ t \notin tradeDone /\ t \notin Queue(pendingTrades)
      /\ \A k \in FraudCall : t \notin Owned(fraudCall[k])
  BY <1>1 DEF Submitted, Analysing, Owned
<1>3. /\ pendingTrades' \in Seq(Trade) /\ NoRepeat(pendingTrades')
      /\ Queue(pendingTrades') = Queue(pendingTrades) \cup {t}
  BY <1>1, <1>2, QueueAppend DEF FraudInv, FraudTypeOK, InOnePlace
<1>4. FraudTypeOK' /\ CasesGood' /\ CallsGood'
  BY <1>1, <1>3 DEF FraudInv, FraudTypeOK, CasesGood, CallsGood
<1>5. InOnePlace'
  BY <1>1, <1>2, <1>3 DEF FraudInv, InOnePlace
<1> QED
  BY <1>4, <1>5 DEF FraudInv

LEMMA CycleKeeps ==
  ASSUME FraudInv, NEW k \in FraudCall, MonitoringCycle(k)
  PROVE  FraudInv'
<1> DEFINE P == pendingTrades
           n == IF Len(P) < BatchSize THEN Len(P) ELSE BatchSize
           a == SubSeq(P, 1, n)
<1>1. /\ P \in Seq(Trade) /\ NoRepeat(P) /\ P # <<>>
      /\ Len(P) \in Nat /\ Len(P) > 0 /\ BatchSize \in Nat /\ BatchSize > 0
  BY FraudAssumption DEF MonitoringCycle, FraudInv, FraudTypeOK, InOnePlace
<1>2. n \in Nat /\ 0 < n /\ n <= Len(P)
  BY <1>1
<1>3. /\ Sets(k, Analyses(a)) /\ P' = SubSeq(P, n + 1, Len(P))
      /\ UNCHANGED <<fraudCase, tradeDone>>
  BY DEF MonitoringCycle, Begins
<1> HIDE DEF n
<1>4. /\ a \in Seq(Trade) /\ a # <<>> /\ NoRepeat(a)
      /\ P' \in Seq(Trade) /\ NoRepeat(P')
      /\ Queue(a) \subseteq Queue(P) /\ Queue(P') \subseteq Queue(P)
      /\ Queue(a) \cap Queue(P') = {}
  BY <1>1, <1>2, <1>3, SpliceFacts
<1> HIDE DEF a
<1>5. /\ Analyses(a) \in FraudFrame /\ Owned(Analyses(a)) = Queue(a)
      /\ FraudGood(Analyses(a), fraudCase', tradeDone')
  BY <1>4, AnalysesFrame
<1>6. /\ fraudCall' \in [FraudCall -> FraudFrame] /\ fraudCall'[k] = Analyses(a)
      /\ \A j \in FraudCall \ {k} : fraudCall'[j] = fraudCall[j]
  BY <1>3, <1>5 DEF FraudInv, FraudTypeOK, Sets
<1>7. FraudTypeOK' /\ CasesGood' /\ CasesEvolve
  BY <1>3, <1>4, <1>6, CasesStay DEF FraudInv, FraudTypeOK
<1> QED
  BY <1>3, <1>4, <1>5, <1>6, <1>7, FraudStepKeeps

\* The analysis of a trade ends, by its verdict or by an error.
LEMMA TradeEnds ==
  ASSUME FraudInv, NEW k \in FraudCall, NextTrade(k),
         tradeDone' = tradeDone \cup fraudCall[k].trade,
         UNCHANGED <<fraudCase, pendingTrades>>
  PROVE  FraudInv'
<1>1. PICK f \in FraudFrame : /\ Sets(k, f)
                              /\ Owned(f) = Queue(fraudCall[k].batch)
                              /\ \A C, D : FraudGood(f, C, D)
  BY NextFrame
<1> DEFINE g == fraudCall[k]
<1>2. g.trade \subseteq Trade /\ Owned(f) \subseteq Owned(g)
  BY <1>1, FraudFacts DEF FraudFrame, Owned
<1>4. ASSUME NEW t \in g.trade
      PROVE  t \in tradeDone \/ (t \in Owned(g) /\ t \notin Owned(f))
  <2>1. CASE g.pc \in {"analyse", "save"}
    <3>1. t \notin Queue(g.batch)
      BY <2>1, FraudFacts DEF FraudGood
    <3>2. t \in Owned(g)
      BY <2>1 DEF Owned
    <3> QED
      BY <1>1, <3>1, <3>2
  <2>2. CASE g.pc \notin {"analyse", "save"}
    BY <2>2, FraudFacts DEF FraudGood
  <2> QED
    BY <2>1, <2>2
<1>3. tradeDone' \subseteq Trade
  BY <1>2, FraudFacts
<1> QED
  BY <1>1, <1>2, <1>3, <1>4, FraudCallKeeps

LEMMA SuspiciousKeeps ==
  ASSUME FraudInv, NEW k \in FraudCall, Suspicious(k)
  PROVE  FraudInv'
<1>1. /\ fraudCall[k].pc = "analyse"
      /\ UNCHANGED <<fraudCase, pendingTrades, tradeDone>>
  BY DEF Suspicious, Working
<1>2. PICK s \in FraudSeverity :
        Sets(k, [fraudCall[k] EXCEPT !.pc = "save", !.copy =
                   [status |-> "open", severity |-> s,
                    regulatoryReported |-> FALSE, sar |-> FALSE]])
  BY DEF Suspicious
<1> DEFINE c == [status |-> "open", severity |-> s,
                 regulatoryReported |-> FALSE, sar |-> FALSE]
           f == [fraudCall[k] EXCEPT !.pc = "save", !.copy = c]
<1>3. c \in Case /\ ~c.regulatoryReported
  BY DEF Case, FraudCaseStatus
<1> HIDE DEF c
<1>4. /\ f \in FraudFrame /\ f.pc = "save" /\ f.copy = c
      /\ f.batch = fraudCall[k].batch /\ f.trade = fraudCall[k].trade
      /\ f.todo = fraudCall[k].todo
  BY <1>3, FraudFacts DEF FraudFrame
<1>5. Sets(k, f)
  BY <1>2 DEF c
<1> HIDE DEF f
<1>6. FraudGood(f, fraudCase, tradeDone) /\ Owned(f) = Owned(fraudCall[k])
  BY <1>1, <1>3, <1>4, FraudFacts DEF FraudGood, Owned
<1> QED
  BY <1>1, <1>4, <1>5, <1>6, FraudFacts, FraudCallKeeps

LEMMA CreateKeeps ==
  ASSUME FraudInv, NEW k \in FraudCall, CreateFraudCase(k)
  PROVE  FraudInv' /\ ReportKept
<1> DEFINE g == fraudCall[k]
           f == [g EXCEPT !.pc = "sar"]
<1>1. /\ g.pc = "save" /\ Sets(k, f) /\ tradeDone' = tradeDone \cup g.trade
      /\ UNCHANGED pendingTrades /\ g \in FraudFrame
  BY FraudFacts DEF CreateFraudCase, Working
<1>2. PICK t \in Trade : g.trade = {t} /\ t \notin Queue(g.batch)
  BY <1>1, FraudFacts DEF FraudGood
<1>3. /\ g.copy \in Case /\ ~g.copy.regulatoryReported
      /\ fraudCase' = [fraudCase EXCEPT ![t] = g.copy]
  BY <1>1, <1>2, FraudFacts DEF FraudGood, CreateFraudCase
<1>4. t \in Owned(g) /\ t \notin tradeDone
  BY <1>1, <1>2 DEF FraudInv, InOnePlace, Owned
<1>5. fraudCase[t] = NoCase
  BY <1>4 DEF FraudInv, CasesGood, CaseGood
<1>6. /\ fraudCase' \in [Trade -> Case \cup {NoCase}]
      /\ CasesGood' /\ CasesEvolve /\ ReportKept
  BY <1>1, <1>2, <1>3, <1>5, CaseWritten
<1>7. /\ f \in FraudFrame /\ f.pc = "sar" /\ f.copy = g.copy
      /\ f.batch = g.batch /\ f.trade = g.trade /\ f.todo = g.todo
  BY <1>1 DEF FraudFrame
<1>8. /\ fraudCall' \in [FraudCall -> FraudFrame] /\ fraudCall'[k] = f
      /\ \A j \in FraudCall \ {k} : fraudCall'[j] = fraudCall[j]
  BY <1>1, <1>7 DEF FraudInv, FraudTypeOK, Sets
<1>9. /\ fraudCase'[t] = g.copy /\ fraudCase'[t] # NoCase
      /\ tradeDone' \subseteq Trade
  BY <1>1, <1>2, <1>3, FraudFacts
  DEF FraudInv, FraudTypeOK, Case, NoCase, FraudCaseStatus
<1>10. FraudTypeOK'
  BY <1>1, <1>6, <1>8, <1>9 DEF FraudInv, FraudTypeOK
<1> HIDE DEF f
<1>11. FraudGood(g, fraudCase', tradeDone')
  BY <1>1, <1>6, FraudGoodKept, FraudFacts DEF FraudInv
<1>12. FraudGood(f, fraudCase', tradeDone')
  BY <1>1, <1>2, <1>3, <1>7, <1>9, <1>11 DEF FraudGood
<1>13. Owned(f) = Queue(g.batch) /\ Owned(g) = {t} \cup Queue(g.batch)
  BY <1>1, <1>2, <1>7 DEF Owned
<1>14. NoRepeat(pendingTrades')
  BY <1>1 DEF FraudInv, InOnePlace
<1>15. FraudInv'
  BY <1>1, <1>2, <1>6, <1>8, <1>10, <1>12, <1>13, <1>14, FraudStepKeeps
<1> QED
  BY <1>6, <1>15

-----------------------------------------------------------------------------
(* The steps of the reports and of the crons.                              *)
LEMMA SarKeeps ==
  ASSUME FraudInv, NEW k \in FraudCall, GenerateSAR(k)
  PROVE  FraudInv' /\ ReportKept
<1> DEFINE g == fraudCall[k]
           r(t) == Filed(t, g.copy)
<1>1. /\ g.pc = "sar" /\ Continues(k) /\ g \in FraudFrame
      /\ UNCHANGED <<pendingTrades, tradeDone>>
  BY FraudFacts DEF GenerateSAR, Working
<1>2. PICK t \in Trade : /\ g.trade = {t} /\ fraudCase[t] # NoCase
                         /\ g.copy \in Case
                         /\ g.copy.severity = fraudCase[t].severity
  BY <1>1, FraudFacts DEF FraudGood
<1>3. fraudCase[t] \in Case /\ t \in tradeDone
  BY <1>2 DEF FraudInv, FraudTypeOK, CasesGood, CaseGood
<1>4. fraudCase' = [fraudCase EXCEPT ![t] = r(t)]
  BY <1>2 DEF GenerateSAR
<1>5. /\ r(t) \in Case /\ r(t).sar /\ r(t).severity = fraudCase[t].severity
      /\ r(t).regulatoryReported <=> g.copy.severity = "critical"
  BY <1>2, <1>3 DEF Filed, Case, FraudCaseStatus
<1> HIDE DEF r
<1>6. fraudCase[t].regulatoryReported => fraudCase[t].severity = "critical"
  BY DEF FraudInv, CasesGood, CaseGood
<1>7. /\ fraudCase' \in [Trade -> Case \cup {NoCase}]
      /\ CasesGood' /\ CasesEvolve /\ ReportKept
  <2>1. /\ r(t).regulatoryReported => r(t).sar /\ r(t).severity = "critical"
        /\ fraudCase[t].regulatoryReported => r(t).regulatoryReported
    BY <1>2, <1>5, <1>6
  <2>2. t \in tradeDone' /\ tradeDone \subseteq tradeDone'
    BY <1>1, <1>3
  <2> QED
    BY <1>4, <1>5, <2>1, <2>2, CaseWritten
<1>8. \E f \in FraudFrame : /\ Sets(k, f) /\ Owned(f) \subseteq Queue(g.batch)
                            /\ FraudGood(f, fraudCase, tradeDone)
  <2>1. CASE g.todo # {}
    <3> DEFINE f == [FreeCall EXCEPT !.pc = "sweep", !.todo = g.todo]
    <3>1. /\ f \in FraudFrame /\ f.pc = "sweep" /\ f.batch = <<>>
          /\ f.trade = {} /\ f.todo = g.todo
      BY FraudFacts, IdleFrame DEF FraudFrame, FreeCall
    <3>2. Sets(k, f)
      BY <1>1, <2>1 DEF Continues
    <3> HIDE DEF f
    <3>3. Queue(<<>>) = {} /\ NoRepeat(<<>>)
      BY DEF Queue, NoRepeat
    <3>4. Owned(f) = {} /\ FraudGood(f, fraudCase, tradeDone)
      BY <3>1, <3>3, FraudFacts DEF Owned, FraudGood
    <3> QED
      BY <3>1, <3>2, <3>4
  <2>2. CASE g.todo = {}
    BY <1>1, <2>2, NextFrame DEF Continues
  <2> QED
    BY <2>1, <2>2
<1>9. PICK f \in FraudFrame : /\ Sets(k, f) /\ Owned(f) \subseteq Queue(g.batch)
                              /\ FraudGood(f, fraudCase, tradeDone)
  BY <1>8
<1>10. /\ fraudCall' \in [FraudCall -> FraudFrame] /\ fraudCall'[k] = f
       /\ \A j \in FraudCall \ {k} : fraudCall'[j] = fraudCall[j]
  BY <1>9 DEF FraudInv, FraudTypeOK, Sets
<1>11. FraudTypeOK' /\ NoRepeat(pendingTrades')
  BY <1>1, <1>7, <1>10 DEF FraudInv, FraudTypeOK, InOnePlace
<1>12. FraudGood(f, fraudCase', tradeDone')
  BY <1>1, <1>7, <1>9, FraudGoodKept DEF FraudInv
<1>13. Owned(f) \subseteq Owned(g)
  BY <1>1, <1>9 DEF Owned
<1>14. FraudInv'
  BY <1>1, <1>7, <1>10, <1>11, <1>12, <1>13, FraudStepKeeps
<1> QED
  BY <1>7, <1>14

\* A free call begins with a frame that holds no trade to analyse.
LEMMA BeginsKeeps ==
  ASSUME FraudInv, NEW k \in FraudCall, NEW f \in FraudFrame, Sets(k, f),
         UNCHANGED <<fraudCase, pendingTrades, tradeDone>>,
         Owned(f) = {}, FraudGood(f, fraudCase, tradeDone)
  PROVE  FraudInv'
<1>1. tradeDone' \subseteq Trade
  BY FraudFacts
<1> QED
  BY <1>1, FraudCallKeeps

\* The frame of a call that has cases to handle.
LEMMA ListFrame ==
  ASSUME FraudInv, NEW pc \in {"sweep", "escalate"}, NEW L \in SUBSET Trade,
         \A t \in L : fraudCase[t].severity = "critical"
  PROVE  LET f == [FreeCall EXCEPT !.pc = pc, !.todo = L]
         IN f \in FraudFrame /\ Owned(f) = {} /\ FraudGood(f, fraudCase, tradeDone)
<1> DEFINE f == [FreeCall EXCEPT !.pc = pc, !.todo = L]
<1>1. /\ f \in FraudFrame /\ f.pc = pc /\ f.batch = <<>>
      /\ f.trade = {} /\ f.todo = L
  BY IdleFrame DEF FraudFrame, FreeCall
<1> HIDE DEF f
<1>2. Queue(<<>>) = {} /\ NoRepeat(<<>>)
  BY DEF Queue, NoRepeat
<1>3. Owned(f) = {} /\ FraudGood(f, fraudCase, tradeDone)
  BY <1>1, <1>2 DEF Owned, FraudGood
<1> QED
  BY <1>1, <1>3 DEF f

LEMMA SarByIdKeeps ==
  ASSUME FraudInv, NEW k \in FraudCall, NEW t \in Trade, GenerateSARById(k, t)
  PROVE  FraudInv'
<1> DEFINE f == [FreeCall EXCEPT !.pc = "sar", !.trade = {t},
                                 !.copy = fraudCase[t]]
<1>1. /\ fraudCase[t] # NoCase /\ Sets(k, f)
      /\ UNCHANGED <<fraudCase, pendingTrades, tradeDone>>
  BY DEF GenerateSARById, Begins
<1>2. fraudCase[t] \in Case /\ t \in tradeDone
  BY <1>1 DEF FraudInv, FraudTypeOK, CasesGood, CaseGood
<1>3. /\ f \in FraudFrame /\ f.pc = "sar" /\ f.batch = <<>>
      /\ f.trade = {t} /\ f.todo = {} /\ f.copy = fraudCase[t]
  BY <1>2, IdleFrame DEF FraudFrame, FreeCall
<1> HIDE DEF f
<1>4. Queue(<<>>) = {} /\ NoRepeat(<<>>)
  BY DEF Queue, NoRepeat
<1>5. Owned(f) = {} /\ FraudGood(f, fraudCase, tradeDone)
  BY <1>1, <1>2, <1>3, <1>4 DEF Owned, FraudGood
<1> QED
  BY <1>1, <1>3, <1>5, BeginsKeeps

LEMMA SweepKeeps ==
  ASSUME FraudInv, NEW k \in FraudCall, DailySarSweep(k)
  PROVE  FraudInv'
<1> DEFINE L == {t \in Trade : Unclosed(t) /\ ~fraudCase[t].regulatoryReported}
           f == [FreeCall EXCEPT !.pc = "sweep", !.todo = L]
<1>1. Sets(k, f) /\ UNCHANGED <<fraudCase, pendingTrades, tradeDone>>
  BY DEF DailySarSweep, Begins
<1>2. L \in SUBSET Trade /\ \A t \in L : fraudCase[t].severity = "critical"
  BY DEF Unclosed
<1> HIDE DEF L
<1>3. f \in FraudFrame /\ Owned(f) = {} /\ FraudGood(f, fraudCase, tradeDone)
  BY <1>2, ListFrame
<1> QED
  BY <1>1, <1>3, BeginsKeeps

LEMMA HourlyKeeps ==
  ASSUME FraudInv, NEW k \in FraudCall, HourlyEscalation(k)
  PROVE  FraudInv'
<1> DEFINE L == {t \in Trade : Unclosed(t)}
           f == [FreeCall EXCEPT !.pc = "escalate", !.todo = L]
<1>1. Sets(k, f) /\ UNCHANGED <<fraudCase, pendingTrades, tradeDone>>
  BY DEF HourlyEscalation, Begins
<1>2. L \in SUBSET Trade /\ \A t \in L : fraudCase[t].severity = "critical"
  BY DEF Unclosed
<1> HIDE DEF L
<1>3. f \in FraudFrame /\ Owned(f) = {} /\ FraudGood(f, fraudCase, tradeDone)
  BY <1>2, ListFrame
<1> QED
  BY <1>1, <1>3, BeginsKeeps

LEMMA SweepNextKeeps ==
  ASSUME FraudInv, NEW k \in FraudCall, NEW t \in Trade, SweepNext(k, t)
  PROVE  FraudInv'
<1> DEFINE g == fraudCall[k]
           c == [status |-> "open", severity |-> "critical",
                 regulatoryReported |-> FALSE, sar |-> FALSE]
           f == [g EXCEPT !.pc = "sar", !.trade = {t}, !.todo = @ \ {t},
                          !.copy = c]
<1>1. /\ g.pc = "sweep" /\ t \in g.todo /\ Sets(k, f)
      /\ UNCHANGED <<fraudCase, pendingTrades, tradeDone>>
  BY DEF SweepNext, Working
<1>2. c \in Case /\ c.severity = "critical"
  BY DEF Case, FraudCaseStatus, FraudSeverity
<1> HIDE DEF c
<1>3. /\ f \in FraudFrame /\ f.pc = "sar" /\ f.batch = g.batch
      /\ f.trade = {t} /\ f.todo = g.todo \ {t} /\ f.copy = c
  BY <1>2, FraudFacts DEF FraudFrame
<1> HIDE DEF f
<1>4. fraudCase[t].severity = "critical" /\ fraudCase[t] # NoCase
  <2>1. fraudCase[t].severity = "critical"
    BY <1>1, FraudFacts DEF FraudGood
  <2>2. NoCase.severity # "critical"
    BY DEF NoCase
  <2> QED
    BY <2>1, <2>2
<1>5. t \in tradeDone
  BY <1>4 DEF FraudInv, CasesGood, CaseGood
<1>6. Owned(f) = Owned(g)
  BY <1>1, <1>3 DEF Owned
<1>7. FraudGood(f, fraudCase, tradeDone)
  BY <1>1, <1>2, <1>3, <1>4, <1>5, FraudFacts DEF FraudGood
<1>8. tradeDone' \subseteq Trade
  BY <1>1, FraudFacts
<1> QED
  BY <1>1, <1>3, <1>6, <1>7, <1>8, FraudCallKeeps

LEMMA EscalateKeeps ==
  ASSUME FraudInv, NEW k \in FraudCall, NEW t \in Trade, Escalate(k, t)
  PROVE  FraudInv' /\ ReportKept
<1> DEFINE g == fraudCall[k]
           rest == g.todo \ {t}
           f == IF rest = {} THEN FreeCall ELSE [g EXCEPT !.todo = rest]
           r == [fraudCase[t] EXCEPT !.status = "escalated"]
<1>1. /\ g.pc = "escalate" /\ t \in g.todo /\ Sets(k, f) /\ g \in FraudFrame
      /\ UNCHANGED <<pendingTrades, tradeDone>>
  BY FraudFacts DEF Escalate, Working
<1>2. fraudCase[t].severity = "critical" /\ fraudCase[t] # NoCase
  <2>1. fraudCase[t].severity = "critical"
    BY <1>1, FraudFacts DEF FraudGood
  <2>2. NoCase.severity # "critical"
    BY DEF NoCase
  <2> QED
    BY <2>1, <2>2
<1>3. /\ fraudCase[t] \in Case /\ t \in tradeDone
      /\ fraudCase[t].regulatoryReported => fraudCase[t].sar
  BY <1>2 DEF FraudInv, FraudTypeOK, CasesGood, CaseGood
<1>4. /\ r \in Case /\ r.sar = fraudCase[t].sar
      /\ r.severity = fraudCase[t].severity
      /\ r.regulatoryReported = fraudCase[t].regulatoryReported
  BY <1>3 DEF Case, FraudCaseStatus
<1>5. fraudCase' = [fraudCase EXCEPT ![t] = r]
  BY DEF Escalate
<1> HIDE DEF r
<1>6. /\ fraudCase' \in [Trade -> Case \cup {NoCase}]
      /\ CasesGood' /\ CasesEvolve /\ ReportKept
  BY <1>1, <1>2, <1>3, <1>4, <1>5, CaseWritten
<1>7. /\ f \in FraudFrame /\ Owned(f) \subseteq Owned(g)
      /\ FraudGood(f, fraudCase, tradeDone)
  <2>1. CASE rest = {}
    BY <2>1, IdleFrame
  <2>2. CASE rest # {}
    <3>1. /\ f \in FraudFrame /\ f.pc = g.pc /\ f.batch = g.batch
          /\ f.trade = g.trade /\ f.todo \subseteq g.todo /\ f.copy = g.copy
      BY <1>1, <2>2 DEF FraudFrame
    <3> HIDE DEF f
    <3>2. Owned(f) = Owned(g) /\ FraudGood(f, fraudCase, tradeDone)
      BY <1>1, <3>1, FraudFacts DEF Owned, FraudGood
    <3> QED
      BY <3>1, <3>2
  <2> QED
    BY <2>1, <2>2
<1> HIDE DEF f
<1>8. /\ fraudCall' \in [FraudCall -> FraudFrame] /\ fraudCall'[k] = f
      /\ \A j \in FraudCall \ {k} : fraudCall'[j] = fraudCall[j]
  BY <1>1, <1>7 DEF FraudInv, FraudTypeOK, Sets
<1>9. FraudTypeOK' /\ NoRepeat(pendingTrades')
  BY <1>1, <1>6, <1>8 DEF FraudInv, FraudTypeOK, InOnePlace
<1>10. FraudGood(f, fraudCase', tradeDone')
  BY <1>1, <1>6, <1>7, FraudGoodKept DEF FraudInv
<1>11. FraudInv'
  BY <1>1, <1>6, <1>7, <1>8, <1>9, <1>10, FraudStepKeeps
<1> QED
  BY <1>6, <1>11

LEMMA UpdateKeeps ==
  ASSUME FraudInv, NEW t \in Trade, NEW st \in InvestigatorSets, UpdateCase(t, st)
  PROVE  FraudInv' /\ ReportKept
<1> DEFINE r == [fraudCase[t] EXCEPT !.status = st]
<1>1. /\ fraudCase[t] # NoCase /\ fraudCase' = [fraudCase EXCEPT ![t] = r]
      /\ UNCHANGED <<pendingTrades, fraudCall, tradeDone>>
  BY DEF UpdateCase
<1>2. /\ fraudCase[t] \in Case /\ t \in tradeDone
      /\ fraudCase[t].regulatoryReported =>
           fraudCase[t].sar /\ fraudCase[t].severity = "critical"
  BY <1>1 DEF FraudInv, FraudTypeOK, CasesGood, CaseGood
<1>3. /\ r \in Case /\ r.sar = fraudCase[t].sar
      /\ r.severity = fraudCase[t].severity
      /\ r.regulatoryReported = fraudCase[t].regulatoryReported
  BY <1>2, FraudAssumption DEF Case
<1> HIDE DEF r
<1>4. /\ fraudCase' \in [Trade -> Case \cup {NoCase}]
      /\ CasesGood' /\ CasesEvolve /\ ReportKept
  BY <1>1, <1>2, <1>3, CaseWritten
<1>5. FraudTypeOK' /\ InOnePlace'
  BY <1>1, <1>4 DEF FraudInv, FraudTypeOK, InOnePlace
<1>6. CallsGood'
  BY <1>1, <1>4, FraudGoodKept DEF FraudInv, CallsGood
<1> QED
  BY <1>4, <1>5, <1>6 DEF FraudInv

LEMMA FraudStopKeeps ==
  ASSUME FraudInv, FraudStop
  PROVE  FraudInv'
<1>1. /\ tradeDone' = Submitted /\ pendingTrades' = <<>> /\ UNCHANGED fraudCase
      /\ fraudCall' = [k \in FraudCall |-> FreeCall]
  BY DEF FraudStop
<1>2. Submitted \subseteq Trade
  <2>1. \A k \in FraudCall : Analysing(k) \subseteq Trade
    BY FraudFacts DEF Analysing, FraudFrame, Queue
  <2>2. Queue(pendingTrades) \subseteq Trade /\ tradeDone \subseteq Trade
    BY DEF FraudInv, FraudTypeOK, Queue
  <2> QED
    BY <2>1, <2>2 DEF Submitted
<1>3. tradeDone \subseteq tradeDone'
  BY <1>1 DEF Submitted
<1>4. Queue(<<>>) = {} /\ NoRepeat(<<>>) /\ <<>> \in Seq(Trade)
  BY DEF Queue, NoRepeat
<1>5. FraudTypeOK'
  BY <1>1, <1>2, <1>4, IdleFrame DEF FraudInv, FraudTypeOK
<1>6. CasesGood'
  BY <1>1, <1>3, CasesStay
<1>7. CallsGood' /\ InOnePlace'
  BY <1>1, <1>4, IdleFrame DEF CallsGood, InOnePlace
<1> QED
  BY <1>5, <1>6, <1>7 DEF FraudInv

-----------------------------------------------------------------------------
(* Every step keeps the invariant and takes no report back.                *)
LEMMA FraudInitGood ==
  ASSUME FraudInit PROVE FraudInv
<1>1. Queue(<<>>) = {} /\ NoRepeat(<<>>) /\ <<>> \in Seq(Trade)
  BY DEF Queue, NoRepeat
<1>2. FraudTypeOK
  BY <1>1, IdleFrame DEF FraudInit, FraudTypeOK
<1>3. CasesGood
  BY DEF FraudInit, CasesGood, CaseGood, NoCase
<1>4. CallsGood /\ InOnePlace
  BY <1>1, IdleFrame DEF FraudInit, CallsGood, InOnePlace
<1> QED
  BY <1>2, <1>3, <1>4 DEF FraudInv

LEMMA FraudNextKeeps ==
  ASSUME FraudInv, FraudNext
  PROVE  FraudInv' /\ ReportKept
<1>1. ASSUME UNCHANGED fraudCase PROVE ReportKept
  BY <1>1 DEF ReportKept
<1>2. ASSUME NEW k \in FraudCall, FraudStep(k)
      PROVE  FraudInv' /\ ReportKept
  <2>1. CASE NotSuspicious(k)
    BY <1>1, <2>1, TradeEnds DEF NotSuspicious
  <2>2. CASE Suspicious(k)
    BY <1>1, <2>2, SuspiciousKeeps DEF Suspicious
  <2>3. CASE CreateFraudCase(k)
    BY <2>3, CreateKeeps
  <2>4. CASE GenerateSAR(k)
    BY <2>4, SarKeeps
  <2>5. CASE \E t \in Trade : SweepNext(k, t)
    <3>1. UNCHANGED fraudCase
      BY <2>5 DEF SweepNext
    <3> QED
      BY <1>1, <2>5, <3>1, SweepNextKeeps
  <2>6. CASE \E t \in Trade : Escalate(k, t)
    BY <2>6, EscalateKeeps
  <2> QED
    BY <1>2, <2>1, <2>2, <2>3, <2>4, <2>5, <2>6 DEF FraudStep
<1>3. ASSUME NEW k \in FraudCall, FraudDbError(k)
      PROVE  FraudInv' /\ ReportKept
  BY <1>1, <1>3, TradeEnds DEF FraudDbError
<1>4. ASSUME NEW k \in FraudCall,
             MonitoringCycle(k) \/ DailySarSweep(k) \/ HourlyEscalation(k)
      PROVE  FraudInv' /\ ReportKept
  <2>1. UNCHANGED fraudCase
    BY <1>4 DEF MonitoringCycle, DailySarSweep, HourlyEscalation
  <2> QED
    BY <1>1, <1>4, <2>1, CycleKeeps, SweepKeeps, HourlyKeeps
<1>5. ASSUME NEW k \in FraudCall, NEW t \in Trade,
             AnalyzeIncomingTrade(k, t) \/ GenerateSARById(k, t)
      PROVE  FraudInv' /\ ReportKept
  <2>1. UNCHANGED fraudCase
    BY <1>5 DEF AnalyzeIncomingTrade, GenerateSARById
  <2> QED
    BY <1>1, <1>5, <2>1, IncomingKeeps, SarByIdKeeps
<1>6. ASSUME NEW t \in Trade, EnqueuePendingTrade(t)
      PROVE  FraudInv' /\ ReportKept
  BY <1>1, <1>6, EnqueueKeeps DEF EnqueuePendingTrade
<1>7. ASSUME NEW t \in Trade, NEW st \in InvestigatorSets, UpdateCase(t, st)
      PROVE  FraudInv' /\ ReportKept
  BY <1>7, UpdateKeeps
<1>8. CASE FraudStop
  BY <1>1, <1>8, FraudStopKeeps DEF FraudStop
<1> QED
  BY <1>2, <1>3, <1>4, <1>5, <1>6, <1>7, <1>8 DEF FraudNext

LEMMA FraudStutter ==
  ASSUME FraudInv, UNCHANGED fraudVars
  PROVE  FraudInv' /\ ReportKept
<1>1. UNCHANGED <<fraudCase, pendingTrades, fraudCall, tradeDone>>
  BY DEF fraudVars
<1>2. FraudTypeOK' /\ CasesGood' /\ CallsGood' /\ InOnePlace'
  BY <1>1 DEF FraudInv, FraudTypeOK, CasesGood, CallsGood, InOnePlace
<1> QED
  BY <1>1, <1>2 DEF FraudInv, ReportKept

LEMMA AnalysedOnce == FraudInv => TradeAnalysedOnce
<1> SUFFICES ASSUME FraudInv PROVE TradeAnalysedOnce
  OBVIOUS
<1>1. \A k \in FraudCall : Analysing(k) = Owned(fraudCall[k])
  BY DEF Analysing, Owned
<1>2. Cardinality(Queue(pendingTrades)) = Len(pendingTrades)
  BY CountNoRepeat DEF FraudInv, FraudTypeOK, InOnePlace
<1> QED
  BY <1>1, <1>2 DEF FraudInv, InOnePlace, TradeAnalysedOnce

LEMMA FraudInvariance == FraudSpec => []FraudInv
<1>1. FraudInit => FraudInv
  BY FraudInitGood
<1>2. FraudInv /\ [FraudNext]_fraudVars => FraudInv'
  BY FraudNextKeeps, FraudStutter
<1> QED
  BY <1>1, <1>2, PTL DEF FraudSpec

\* However cycles and incoming trades overlap, and whatever fails, a trade is
\* in the queue, in the hands of one call or done (TradeAnalysedOnce).
THEOREM TradesAnalysedOnce == FraudSpec => []TradeAnalysedOnce
BY FraudInvariance, AnalysedOnce, PTL

\* No handler, from however old a copy, takes a report to the regulator back,
\* and only a critical case with a SAR has one (ReportStands).
THEOREM ReportsStand == FraudSpec => ReportStands
<1> DEFINE Stands == \A t \in Trade :
              /\ fraudCase[t].regulatoryReported => fraudCase[t].regulatoryReported'
              /\ fraudCase'[t].regulatoryReported =>
                   fraudCase'[t].sar /\ fraudCase'[t].severity = "critical"
<1>1. FraudInv /\ FraudInv' /\ FraudNext => Stands
  <2> SUFFICES ASSUME FraudInv, FraudInv', FraudNext PROVE Stands
    OBVIOUS
  <2>1. ReportKept
    BY FraudNextKeeps
  <2>2. CasesGood'
    BY DEF FraudInv
  <2> QED
    BY <2>1, <2>2 DEF ReportKept, CasesGood, CaseGood
<1>2. FraudInv /\ FraudInv' /\ [FraudNext]_fraudVars => [Stands]_fraudVars
  BY <1>1
<1>3. [][FraudNext]_fraudVars /\ []FraudInv => [][Stands]_fraudVars
  BY <1>2, PTL
<1> QED
  BY <1>3, FraudInvariance, PTL DEF FraudSpec, ReportStands

-----------------------------------------------------------------------------
(* Cross-border trades.  A call past its INSERT is the one that inserted   *)
(* the row, and rows are never deleted: that call is the only one.         *)
BorderGood(f, R) ==
  /\ f.pc # "free" => \E t \in TradeId : f.id = {t}
  /\ f.pc = "free" => f.id = {}
  /\ f.pc = "insert" => f.copy = Inserted
  /\ f.pc = "finish" => f.copy \in BorderRow
  /\ f.pc = "cancel" => f.copy \in BorderRow /\ f.copy.status = "cancelled"
  /\ f.pc \in {"check", "finish", "cancel"} =>
       \A t \in f.id : R[t] # NoBorderRow

BorderTypeOK ==
  /\ borderRow \in [TradeId -> BorderRow \cup {NoBorderRow}]
  /\ borderCall \in [BorderCall -> BorderFrame]

OneProcesses ==
  \A t \in TradeId : \A c, d \in Processing(t) : c = d

BorderInv ==
  /\ BorderTypeOK
  /\ \A c \in BorderCall : BorderGood(borderCall[c], borderRow)
  /\ OneProcesses

CancelKept ==
  \A t \in TradeId : borderRow[t].status = "cancelled" /\ Processing(t) = {}
                       => borderRow'[t].status = "cancelled"

LEMMA BorderRows ==
  /\ Inserted \in BorderRow /\ NoBorderRow \notin BorderRow
  /\ NoBorderRow.status = "absent"
  /\ \A r \in BorderRow : r # NoBorderRow /\ [r EXCEPT !.status = "cancelled"] \in BorderRow
  /\ NoBorderCall \in BorderFrame /\ NoBorderCall.pc = "free"
BY DEF Inserted, BorderRow, NoBorderRow, NoBorderCall, BorderFrame

LEMMA BorderFacts ==
  ASSUME BorderInv, NEW c \in BorderCall
  PROVE  /\ borderCall[c] \in BorderFrame
         /\ BorderGood(borderCall[c], borderRow)
         /\ borderCall[c].pc \in {"free", "insert", "check", "finish", "cancel"}
BY DEF BorderInv, BorderTypeOK, BorderFrame

\* A step that changes one call and one row.
LEMMA BorderStepKeeps ==
  ASSUME BorderInv, NEW c \in BorderCall, NEW f \in BorderFrame,
         borderCall' = [borderCall EXCEPT ![c] = f],
         BorderGood(f, borderRow'),
         borderRow' \in [TradeId -> BorderRow \cup {NoBorderRow}],
         \A t \in TradeId : borderRow[t] # NoBorderRow => borderRow'[t] # NoBorderRow,
         f.pc \in {"check", "finish"} =>
           \A t \in f.id : \/ c \in Processing(t)
                           \/ Processing(t) = {}
  PROVE  BorderInv'
<1>1. /\ borderCall' \in [BorderCall -> BorderFrame] /\ borderCall'[c] = f
      /\ \A d \in BorderCall \ {c} : borderCall'[d] = borderCall[d]
  BY DEF BorderInv, BorderTypeOK
<1>2. BorderTypeOK'
  BY <1>1 DEF BorderTypeOK
<1>3. ASSUME NEW d \in BorderCall PROVE BorderGood(borderCall'[d], borderRow')
  <2>1. CASE d = c
    BY <1>1, <2>1
  <2>2. CASE d # c
    BY <1>1, <2>2, BorderFacts DEF BorderGood
  <2> QED
    BY <2>1, <2>2
<1>4. OneProcesses'
  <2> SUFFICES ASSUME NEW t \in TradeId, NEW d \in Processing(t)',
                      NEW e \in Processing(t)'
               PROVE  d = e
    BY DEF OneProcesses
  <2>1. d \in BorderCall /\ e \in BorderCall
    BY DEF Processing
  <2>2. d # c => d \in Processing(t)
    BY <1>1, <2>1 DEF Processing
  <2>3. e # c => e \in Processing(t)
    BY <1>1, <2>1 DEF Processing
  <2>4. c \in Processing(t)' => c \in Processing(t) \/ Processing(t) = {}
    BY <1>1 DEF Processing
  <2>5. \A x, y \in Processing(t) : x = y
    BY DEF BorderInv, OneProcesses
  <2> QED
    BY <2>1, <2>2, <2>3, <2>4, <2>5
<1> QED
  BY <1>2, <1>3, <1>4 DEF BorderInv

\* A call that returns leaves the invariant to the row it wrote.
LEMMA ReturnKeeps ==
  ASSUME BorderInv, NEW c \in BorderCall, BorderReturns(c),
         borderRow' \in [TradeId -> BorderRow \cup {NoBorderRow}],
         \A t \in TradeId : borderRow[t] # NoBorderRow => borderRow'[t] # NoBorderRow
  PROVE  BorderInv'
<1>1. /\ NoBorderCall \in BorderFrame /\ NoBorderCall.pc = "free"
      /\ BorderGood(NoBorderCall, borderRow')
  BY BorderRows DEF NoBorderCall, BorderGood
<1> QED
  BY <1>1, BorderStepKeeps DEF BorderReturns

LEMMA WriteFacts ==
  ASSUME BorderInv, NEW t \in TradeId, NEW r \in BorderRow, Writes(t, r)
  PROVE  /\ borderRow' \in [TradeId -> BorderRow \cup {NoBorderRow}]
         /\ borderRow'[t] = r /\ r # NoBorderRow
         /\ \A u \in TradeId : u # t => borderRow'[u] = borderRow[u]
         /\ \A u \in TradeId : borderRow[u] # NoBorderRow => borderRow'[u] # NoBorderRow
BY BorderRows DEF BorderInv, BorderTypeOK, Writes

\* A call begins on one trade.
LEMMA BorderBeginKeeps ==
  ASSUME BorderInv, NEW c \in BorderCall, NEW t \in TradeId,
         NEW pc \in {"insert", "cancel"}, NEW copy \in BorderRow,
         BorderBegins(c, pc, t, copy),
         pc = "insert" => copy = Inserted,
         pc = "cancel" => copy.status = "cancelled" /\ borderRow[t] # NoBorderRow
  PROVE  BorderInv' /\ CancelKept
<1> DEFINE f == [pc |-> pc, id |-> {t}, copy |-> copy]
<1>1. /\ f \in BorderFrame /\ BorderGood(f, borderRow)
      /\ f.pc \notin {"check", "finish"}
  BY DEF BorderFrame, BorderGood
<1>2. /\ borderCall' = [borderCall EXCEPT ![c] = f] /\ UNCHANGED borderRow
      /\ borderRow \in [TradeId -> BorderRow \cup {NoBorderRow}]
  BY DEF BorderBegins, BorderInv, BorderTypeOK
<1> HIDE DEF f
<1>3. BorderInv'
  BY <1>1, <1>2, BorderStepKeeps
<1> QED
  BY <1>2, <1>3 DEF CancelKept

LEMMA CallsBegin ==
  ASSUME BorderInv, NEW c \in BorderCall, NEW t \in TradeId,
         \/ ProcessTransaction(c, t) \/ RetryFailedTransaction(c, t)
         \/ CancelTransaction(c, t)
  PROVE  BorderInv' /\ CancelKept
<1>1. CASE ProcessTransaction(c, t)
  BY <1>1, BorderRows, BorderBeginKeeps DEF ProcessTransaction
<1>2. CASE RetryFailedTransaction(c, t)
  BY <1>2, BorderRows, BorderBeginKeeps DEF RetryFailedTransaction
<1>3. CASE CancelTransaction(c, t)
  <2> DEFINE copy == [borderRow[t] EXCEPT !.status = "cancelled"]
  <2>1. borderRow[t] # NoBorderRow /\ borderRow[t] \in BorderRow
    BY <1>3, BorderRows DEF CancelTransaction, BorderInv, BorderTypeOK
  <2>2. copy \in BorderRow /\ copy.status = "cancelled"
    BY <2>1 DEF BorderRow
  <2>3. BorderBegins(c, "cancel", t, copy)
    BY <1>3 DEF CancelTransaction
  <2> HIDE DEF copy
  <2> QED
    BY <2>1, <2>2, <2>3, BorderBeginKeeps
<1> QED
  BY <1>1, <1>2, <1>3

LEMMA InsertKeeps ==
  ASSUME BorderInv, NEW c \in BorderCall, BorderInserts(c)
  PROVE  BorderInv' /\ CancelKept
<1> DEFINE g == borderCall[c]
           f == [g EXCEPT !.pc = "check"]
<1>1. g.pc = "insert" /\ g.copy = Inserted /\ g \in BorderFrame
  BY BorderFacts DEF BorderInserts, Handles, BorderGood
<1>2. PICK t \in TradeId : g.id = {t}
  BY <1>1, BorderFacts DEF BorderGood
<1>3. Inserts(c, t)
  BY <1>2 DEF BorderInserts
<1>4. CASE borderRow[t] = NoBorderRow /\ Writes(t, g.copy) /\
           borderCall' = [borderCall EXCEPT ![c].pc = "check"]
  <2>1. /\ f \in BorderFrame /\ f.pc = "check" /\ f.id = {t}
        /\ borderCall' = [borderCall EXCEPT ![c] = f]
    BY <1>1, <1>2, <1>4 DEF BorderFrame
  <2> HIDE DEF f
  <2>2. /\ borderRow' \in [TradeId -> BorderRow \cup {NoBorderRow}]
        /\ borderRow'[t] # NoBorderRow
        /\ \A u \in TradeId : u # t => borderRow'[u] = borderRow[u]
        /\ \A u \in TradeId : borderRow[u] # NoBorderRow => borderRow'[u] # NoBorderRow
    BY <1>1, <1>4, WriteFacts, BorderRows
  <2>3. BorderGood(f, borderRow')
    BY <2>1, <2>2 DEF BorderGood
  <2>4. Processing(t) = {}
    BY <1>4, BorderFacts DEF Processing, BorderGood
  <2>5. BorderInv'
    BY <2>1, <2>2, <2>3, <2>4, BorderStepKeeps
  <2>6. CancelKept
    BY <1>4, <2>2, BorderRows DEF CancelKept
  <2> QED
    BY <2>5, <2>6
<1>5. CASE BorderReturns(c) /\ UNCHANGED borderRow
  <2>1. borderRow' \in [TradeId -> BorderRow \cup {NoBorderRow}]
    BY <1>5 DEF BorderInv, BorderTypeOK
  <2> QED
    BY <1>5, <2>1, ReturnKeeps DEF CancelKept
<1> QED
  BY <1>3, <1>4, <1>5 DEF Inserts

LEMMA CheckKeeps ==
  ASSUME BorderInv, NEW c \in BorderCall, ChecksAnswer(c)
  PROVE  BorderInv' /\ CancelKept
<1> DEFINE g == borderCall[c]
<1>1. g.pc = "check" /\ g \in BorderFrame /\ UNCHANGED borderRow
  BY BorderFacts DEF ChecksAnswer, Handles
<1>2. PICK comp \in {"pending_review", "compliant", "non_compliant"},
           cust \in {"approved", "refused"} :
        borderCall' = [borderCall EXCEPT ![c].pc = "finish", ![c].copy =
          [compliance |-> comp, customs |-> cust,
           status |-> IF comp = "non_compliant" \/ cust = "refused"
                        THEN "failed" ELSE "completed"]]
  BY DEF ChecksAnswer
<1> DEFINE r == [compliance |-> comp, customs |-> cust,
                 status |-> IF comp = "non_compliant" \/ cust = "refused"
                              THEN "failed" ELSE "completed"]
<1>8. /\ r \in BorderRow
      /\ borderCall' = [borderCall EXCEPT ![c].pc = "finish", ![c].copy = r]
  BY <1>2 DEF BorderRow
<1> HIDE DEF r
<1> DEFINE f == [g EXCEPT !.pc = "finish", !.copy = r]
<1>3. /\ f \in BorderFrame /\ f.pc = "finish" /\ f.id = g.id /\ f.copy = r
      /\ borderCall' = [borderCall EXCEPT ![c] = f]
  BY <1>1, <1>8 DEF BorderFrame, BorderInv, BorderTypeOK
<1> HIDE DEF f
<1>4. BorderGood(f, borderRow')
  BY <1>1, <1>3, <1>8, BorderFacts DEF BorderGood
<1>5. \A t \in f.id : c \in Processing(t)
  BY <1>1, <1>3 DEF Processing
<1>6. borderRow' \in [TradeId -> BorderRow \cup {NoBorderRow}]
  BY <1>1 DEF BorderInv, BorderTypeOK
<1>7. BorderInv'
  BY <1>1, <1>3, <1>4, <1>5, <1>6, BorderStepKeeps
<1> QED
  BY <1>1, <1>7 DEF CancelKept

LEMMA FinishKeeps ==
  ASSUME BorderInv, NEW c \in BorderCall, BorderFinishes(c) \/ CancelSaves(c)
  PROVE  BorderInv' /\ CancelKept
<1> DEFINE g == borderCall[c]
<1>1. g.pc \in {"finish", "cancel"} /\ BorderReturns(c) /\ g.copy \in BorderRow
  BY BorderFacts DEF BorderFinishes, CancelSaves, Handles, BorderGood
<1>2. PICK t \in TradeId : g.id = {t} /\ borderRow[t] \in BorderRow
  BY <1>1, BorderFacts DEF BorderGood, BorderInv, BorderTypeOK
<1>3. \E r \in BorderRow : /\ Writes(t, r)
                           /\ g.pc = "cancel" => r.status = "cancelled"
  <2>1. CASE BorderFinishes(c)
    BY <1>1, <1>2, <2>1 DEF BorderFinishes, Handles
  <2>2. CASE CancelSaves(c)
    <3>1. g.pc = "cancel" /\ g.copy.status = "cancelled"
      BY <2>2, BorderFacts DEF CancelSaves, Handles, BorderGood
    <3>2. /\ [borderRow[t] EXCEPT !.status = "cancelled"] \in BorderRow
          /\ [borderRow[t] EXCEPT !.status = "cancelled"].status = "cancelled"
      BY <1>2 DEF BorderRow
    <3>3. \E r \in {g.copy, [borderRow[t] EXCEPT !.status = "cancelled"]} :
            Writes(t, r)
      BY <1>2, <2>2 DEF CancelSaves
    <3> QED
      BY <1>1, <3>1, <3>2, <3>3
  <2> QED
    BY <2>1, <2>2
<1>4. PICK r \in BorderRow : /\ Writes(t, r)
                             /\ g.pc = "cancel" => r.status = "cancelled"
  BY <1>3
<1>5. /\ borderRow' \in [TradeId -> BorderRow \cup {NoBorderRow}]
      /\ borderRow'[t] = r
      /\ \A u \in TradeId : u # t => borderRow'[u] = borderRow[u]
      /\ \A u \in TradeId : borderRow[u] # NoBorderRow => borderRow'[u] # NoBorderRow
  BY <1>4, WriteFacts
<1>6. BorderInv'
  BY <1>1, <1>5, ReturnKeeps
<1>7. g.pc = "finish" => c \in Processing(t)
  BY <1>2 DEF Processing
<1>8. CancelKept
  BY <1>1, <1>4, <1>5, <1>7 DEF CancelKept
<1> QED
  BY <1>6, <1>8

LEMMA BorderNextKeeps ==
  ASSUME BorderInv, BorderNext
  PROVE  BorderInv' /\ CancelKept
<1>1. ASSUME NEW c \in BorderCall, BorderFails(c) PROVE BorderInv' /\ CancelKept
  <2>1. /\ BorderReturns(c) /\ UNCHANGED borderRow
        /\ borderRow' \in [TradeId -> BorderRow \cup {NoBorderRow}]
    BY <1>1 DEF BorderFails, BorderInv, BorderTypeOK
  <2> QED
    BY <2>1, ReturnKeeps DEF CancelKept
<1> QED
  BY <1>1, InsertKeeps, CheckKeeps, FinishKeeps, CallsBegin DEF BorderNext

LEMMA AtMostOne ==
  ASSUME NEW S, \A x, y \in S : x = y
  PROVE  Cardinality(S) <= 1
<1>1. CASE S = {}
  BY <1>1, FS_EmptySet
<1>2. CASE S # {}
  <2>1. PICK x : x \in S
    BY <1>2
  <2>2. S = {x}
    BY <2>1
  <2> QED
    BY <2>2, FS_Singleton
<1> QED
  BY <1>1, <1>2

LEMMA BorderInvariance == BorderSpec => []BorderInv
<1>1. BorderInit => BorderInv
  <2> SUFFICES ASSUME BorderInit PROVE BorderInv
    OBVIOUS
  <2>1. BorderTypeOK
    BY BorderRows DEF BorderInit, BorderTypeOK
  <2>2. \A c \in BorderCall : borderCall[c].pc = "free" /\ borderCall[c].id = {}
    BY DEF BorderInit, NoBorderCall
  <2> QED
    BY <2>1, <2>2 DEF BorderInv, BorderGood, OneProcesses, Processing
<1>2. BorderInv /\ [BorderNext]_borderVars => BorderInv'
  <2> SUFFICES ASSUME BorderInv, [BorderNext]_borderVars PROVE BorderInv'
    OBVIOUS
  <2>1. CASE BorderNext
    BY <2>1, BorderNextKeeps
  <2>2. CASE UNCHANGED borderVars
    BY <2>2 DEF borderVars, BorderInv, BorderTypeOK, OneProcesses, Processing
  <2> QED
    BY <2>1, <2>2
<1> QED
  BY <1>1, <1>2, PTL DEF BorderSpec

\* However many clients process, retry and cancel a trade, the call that
\* inserted its row is the only one that writes past a cancellation, and
\* afterwards a cancelled trade stays cancelled (CancellationStands).
THEOREM CancelledStays == BorderSpec => CancellationStands
<1> DEFINE Stands == \A t \in TradeId :
              /\ Cardinality(Processing(t)') <= 1
              /\ borderRow[t].status = "cancelled" /\ Processing(t) = {}
                   => borderRow'[t].status = "cancelled"
<1>1. BorderInv /\ BorderInv' /\ BorderNext => Stands
  <2> SUFFICES ASSUME BorderInv, BorderInv', BorderNext PROVE Stands
    OBVIOUS
  <2>1. CancelKept
    BY BorderNextKeeps
  <2>2. \A t \in TradeId : Cardinality(Processing(t)') <= 1
    <3> TAKE t \in TradeId
    <3>1. \A x, y \in Processing(t)' : x = y
      BY DEF BorderInv, OneProcesses
    <3> QED
      BY <3>1, AtMostOne
  <2> QED
    BY <2>1, <2>2 DEF CancelKept
<1>2. BorderInv /\ BorderInv' /\ [BorderNext]_borderVars => [Stands]_borderVars
  BY <1>1
<1>3. [][BorderNext]_borderVars /\ []BorderInv => [][Stands]_borderVars
  BY <1>2, PTL
<1> QED
  BY <1>3, BorderInvariance, PTL DEF BorderSpec, CancellationStands
=============================================================================
