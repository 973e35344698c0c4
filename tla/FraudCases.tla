----------------------------- MODULE FraudCases -----------------------------
(***************************************************************************)
(* Fraud cases (src/src/fraud): RealTimeMonitorService analyses trades,    *)
(* one by one or from a queue, opens a case for a suspicious one and has   *)
(* SuspiciousActivityService file a report (SAR); two crons and the        *)
(* investigators change the same rows, some from copies they listed.  What *)
(* the scores say is left open: a trade is suspicious from 0.65 on, which  *)
(* makes its case HIGH, or CRITICAL from 0.85 on.                          *)
(***************************************************************************)
EXTENDS Integers, Sequences, FiniteSets

CONSTANTS Trade,
          FraudCall,        \* handlers in progress (a bound)
          BatchSize,        \* trades of one monitoring cycle: 100
          InvestigatorSets, \* statuses investigators choose (a bound)
          MaxFraudFaults    \* failing statements and stops (a bound)

FraudCaseStatus == {"open", "investigating", "resolved", "false_positive",
                    "escalated", "regulatory_reported"}

ASSUME FraudAssumption ==
  /\ IsFiniteSet(FraudCall) /\ InvestigatorSets \subseteq FraudCaseStatus
  /\ BatchSize \in Nat \ {0} /\ MaxFraudFaults \in Nat

VARIABLES
  fraudCase,      \* the table fraud_cases, one row per trade at most
  pendingTrades,  \* the queue of the monitor
  fraudCall,      \* handlers between two awaits
  tradeDone,      \* trades whose analysis is over
  fraudFaults

fraudVars == <<fraudCase, pendingTrades, fraudCall, tradeDone, fraudFaults>>

-----------------------------------------------------------------------------
FraudSeverity == {"high", "critical"}

Case == [status : FraudCaseStatus, severity : FraudSeverity,
         regulatoryReported : BOOLEAN, sar : BOOLEAN]

NoCase == [status |-> "none", severity |-> "none",
           regulatoryReported |-> FALSE, sar |-> FALSE]

\* batch: trades still to analyse; todo: cases still to handle; trade, copy:
\* those at hand.
FraudFrame == [pc : {"free", "analyse", "save", "sar", "sweep", "escalate"},
               batch : Seq(Trade), todo : SUBSET Trade,
               trade : SUBSET Trade, copy : Case \cup {NoCase}]

FreeCall == [pc |-> "free", batch |-> <<>>, todo |-> {}, trade |-> {},
             copy |-> NoCase]

FraudInit ==
  /\ fraudCase = [t \in Trade |-> NoCase]
  /\ pendingTrades = <<>>
  /\ fraudCall = [k \in FraudCall |-> FreeCall]
  /\ tradeDone = {}
  /\ fraudFaults = 0

FraudFault == fraudFaults < MaxFraudFaults /\ fraudFaults' = fraudFaults + 1

Queue(s) == {s[i] : i \in DOMAIN s}

\* The trades a call has to analyse; its case may be on the way already.
Analysing(k) == IF fraudCall[k].pc \in {"analyse", "save"}
                  THEN fraudCall[k].trade \cup Queue(fraudCall[k].batch)
                  ELSE Queue(fraudCall[k].batch)

Submitted == tradeDone \cup Queue(pendingTrades) \cup
             UNION {Analysing(k) : k \in FraudCall}

Sets(k, f) == fraudCall' = [fraudCall EXCEPT ![k] = f]

Begins(k, f) == fraudCall[k].pc = "free" /\ Sets(k, f)

Working(k, pc) == fraudCall[k].pc = pc

Unclosed(t) == fraudCase[t].severity = "critical" /\ fraudCase[t].status = "open"

-----------------------------------------------------------------------------
(* RealTimeMonitorService.                                                 *)

Analyses(batch) == [FreeCall EXCEPT !.pc = "analyse", !.trade = {Head(batch)},
                                    !.batch = Tail(batch)]

AnalyzeIncomingTrade(k, t) ==
  /\ t \notin Submitted
  /\ Begins(k, Analyses(<<t>>))
  /\ UNCHANGED <<fraudCase, pendingTrades, tradeDone, fraudFaults>>

EnqueuePendingTrade(t) ==
  /\ t \notin Submitted
  /\ pendingTrades' = Append(pendingTrades, t)
  /\ UNCHANGED <<fraudCase, fraudCall, tradeDone, fraudFaults>>

\* Mutant: slice instead of splice.
CycleSlices(k) ==
  /\ pendingTrades # <<>>
  /\ LET n == IF Len(pendingTrades) < BatchSize THEN Len(pendingTrades)
              ELSE BatchSize
     IN Begins(k, Analyses(SubSeq(pendingTrades, 1, n)))
  /\ UNCHANGED <<fraudCase, pendingTrades, tradeDone, fraudFaults>>

\* A cycle does not wait for the one before.
MonitoringCycle(k) ==
  /\ pendingTrades # <<>>
  /\ LET n == IF Len(pendingTrades) < BatchSize THEN Len(pendingTrades)
              ELSE BatchSize
     IN /\ Begins(k, Analyses(SubSeq(pendingTrades, 1, n)))
        /\ pendingTrades' = SubSeq(pendingTrades, n + 1, Len(pendingTrades))
  /\ UNCHANGED <<fraudCase, tradeDone, fraudFaults>>

\* The analysis of one trade returns; the rest of its batch is next.
NextTrade(k) ==
  Sets(k, IF fraudCall[k].batch = <<>> THEN FreeCall
          ELSE Analyses(fraudCall[k].batch))

NotSuspicious(k) ==
  /\ Working(k, "analyse")
  /\ NextTrade(k)
  /\ tradeDone' = tradeDone \cup fraudCall[k].trade
  /\ UNCHANGED <<fraudCase, pendingTrades, fraudFaults>>

Suspicious(k) ==
  /\ Working(k, "analyse")
  /\ \E s \in FraudSeverity :
       Sets(k, [fraudCall[k] EXCEPT !.pc = "save", !.copy =
                  [status |-> "open", severity |-> s,
                   regulatoryReported |-> FALSE, sar |-> FALSE]])
  /\ UNCHANGED <<fraudCase, pendingTrades, tradeDone, fraudFaults>>

\* createFraudCase; its SAR is filed at once.
CreateFraudCase(k) ==
  /\ Working(k, "save")
  /\ \E t \in fraudCall[k].trade :
       fraudCase' = [fraudCase EXCEPT ![t] = fraudCall[k].copy]
  /\ Sets(k, [fraudCall[k] EXCEPT !.pc = "sar"])
  /\ tradeDone' = tradeDone \cup fraudCall[k].trade
  /\ UNCHANGED <<pendingTrades, fraudFaults>>

-----------------------------------------------------------------------------
(* SuspiciousActivityService.                                              *)

\* Mutant: a report only if there was none, written all the same.
FiledOnce(t, copy) ==
  [fraudCase[t] EXCEPT
     !.sar = TRUE,
     !.regulatoryReported = copy.severity = "critical" /\
                            ~copy.regulatoryReported,
     !.status = copy.status]

\* The UPDATE of generateSAR, from the copy it was given.
Filed(t, copy) ==
  [fraudCase[t] EXCEPT
     !.sar = TRUE,
     !.regulatoryReported = copy.severity = "critical",
     !.status = IF copy.severity = "critical" THEN "regulatory_reported"
                ELSE copy.status]

\* Within a loop the next case, or trade, follows.
Continues(k) ==
  IF fraudCall[k].todo # {}
    THEN Sets(k, [FreeCall EXCEPT !.pc = "sweep", !.todo = fraudCall[k].todo])
    ELSE NextTrade(k)

GenerateSAR(k) ==
  /\ Working(k, "sar")
  /\ \E t \in fraudCall[k].trade :
       fraudCase' = [fraudCase EXCEPT ![t] = Filed(t, fraudCall[k].copy)]
  /\ Continues(k)
  /\ UNCHANGED <<pendingTrades, tradeDone, fraudFaults>>

GenerateSARById(k, t) ==
  /\ fraudCase[t] # NoCase
  /\ Begins(k, [FreeCall EXCEPT !.pc = "sar", !.trade = {t},
                                !.copy = fraudCase[t]])
  /\ UNCHANGED <<fraudCase, pendingTrades, tradeDone, fraudFaults>>

\* The columns of a listed copy that are used are those of the query.
DailySarSweep(k) ==
  LET unreported == {t \in Trade : Unclosed(t) /\
                                   ~fraudCase[t].regulatoryReported}
  IN /\ unreported # {}
     /\ Begins(k, [FreeCall EXCEPT !.pc = "sweep", !.todo = unreported])
     /\ UNCHANGED <<fraudCase, pendingTrades, tradeDone, fraudFaults>>

SweepNext(k, t) ==
  /\ Working(k, "sweep") /\ t \in fraudCall[k].todo
  /\ Sets(k, [fraudCall[k] EXCEPT
                !.pc = "sar", !.trade = {t}, !.todo = @ \ {t},
                !.copy = [status |-> "open", severity |-> "critical",
                          regulatoryReported |-> FALSE, sar |-> FALSE]])
  /\ UNCHANGED <<fraudCase, pendingTrades, tradeDone, fraudFaults>>

\* Mutant: cases that were escalated before.
HourlyEscalationAgain(k) ==
  /\ \E t \in Trade : fraudCase[t].status = "escalated"
  /\ Begins(k, [FreeCall EXCEPT
                  !.pc = "escalate",
                  !.todo = {t \in Trade : fraudCase[t].status = "escalated"}])
  /\ UNCHANGED <<fraudCase, pendingTrades, tradeDone, fraudFaults>>

\* hourlyEscalation, of RealTimeMonitorService.
HourlyEscalation(k) ==
  LET critical == {t \in Trade : Unclosed(t)} IN
  /\ critical # {}
  /\ Begins(k, [FreeCall EXCEPT !.pc = "escalate", !.todo = critical])
  /\ UNCHANGED <<fraudCase, pendingTrades, tradeDone, fraudFaults>>

Escalate(k, t) ==
  /\ Working(k, "escalate") /\ t \in fraudCall[k].todo
  /\ fraudCase' = [fraudCase EXCEPT ![t].status = "escalated"]
  /\ LET rest == fraudCall[k].todo \ {t} IN
     Sets(k, IF rest = {} THEN FreeCall ELSE [fraudCall[k] EXCEPT !.todo = rest])
  /\ UNCHANGED <<pendingTrades, tradeDone, fraudFaults>>

\* updateCase: an investigator may set any status.
UpdateCase(t, st) ==
  /\ fraudCase[t] # NoCase
  /\ fraudCase' = [fraudCase EXCEPT ![t].status = st]
  /\ UNCHANGED <<pendingTrades, fraudCall, tradeDone, fraudFaults>>

-----------------------------------------------------------------------------
(* A statement fails.  A batch goes on with the next trade, everything     *)
(* else ends there, the loops of the crons included.                       *)
FraudDbError(k) ==
  /\ fraudCall[k].pc \in {"save", "sar", "escalate"}
  /\ FraudFault
  /\ NextTrade(k)
  /\ tradeDone' = tradeDone \cup fraudCall[k].trade
  /\ UNCHANGED <<fraudCase, pendingTrades>>

\* The process ends, with its calls and its queue.
FraudStop ==
  /\ FraudFault
  /\ tradeDone' = Submitted
  /\ fraudCall' = [k \in FraudCall |-> FreeCall]
  /\ pendingTrades' = <<>>
  /\ UNCHANGED fraudCase

FraudStep(k) ==
  \/ NotSuspicious(k) \/ Suspicious(k) \/ CreateFraudCase(k) \/ GenerateSAR(k)
  \/ \E t \in Trade : SweepNext(k, t) \/ Escalate(k, t)

FraudNext ==
  \/ \E k \in FraudCall :
       \/ FraudStep(k) \/ FraudDbError(k)
       \/ MonitoringCycle(k) \/ DailySarSweep(k) \/ HourlyEscalation(k)
       \/ \E t \in Trade : AnalyzeIncomingTrade(k, t) \/ GenerateSARById(k, t)
  \/ \E t \in Trade : \/ EnqueuePendingTrade(t)
                      \/ \E st \in InvestigatorSets : UpdateCase(t, st)
  \/ FraudStop

\* Statements return, and the crons run whenever a slot is free again.
EscalationFairness ==
  /\ \A k \in FraudCall : WF_fraudVars(FraudStep(k))
  /\ SF_fraudVars(\E k \in FraudCall : HourlyEscalation(k))

FraudFairness ==
  /\ EscalationFairness
  /\ SF_fraudVars(\E k \in FraudCall : MonitoringCycle(k))
  /\ SF_fraudVars(\E k \in FraudCall : DailySarSweep(k))

FraudSpec == FraudInit /\ [][FraudNext]_fraudVars /\ FraudFairness

-----------------------------------------------------------------------------
(* Cycles overlap, and a trade is analysed once all the same: it is in the *)
(* queue, in the hands of one call or done.                                *)
TradeAnalysedOnce ==
  /\ Cardinality(Queue(pendingTrades)) = Len(pendingTrades)
  /\ \A k \in FraudCall :
       /\ Analysing(k) \cap (tradeDone \cup Queue(pendingTrades)) = {}
       /\ \A j \in FraudCall \ {k} : Analysing(j) \cap Analysing(k) = {}
  /\ tradeDone \cap Queue(pendingTrades) = {}

(* The report to the regulator is never taken back, and there is one only  *)
(* of a critical case that has a SAR.                                      *)
ReportStands ==
  [][\A t \in Trade :
       /\ fraudCase[t].regulatoryReported => fraudCase[t].regulatoryReported'
       /\ fraudCase'[t].regulatoryReported =>
            fraudCase'[t].sar /\ fraudCase'[t].severity = "critical"]_fraudVars

(* A critical case does not stay open, whatever fails.                     *)
CriticalIsAttended == \A t \in Trade : []<>~Unclosed(t)

(* suspicious-activity.service.ts:287 "Daily SAR summary sweep -           *)
(* auto-report all unprocessed CRITICAL cases": a critical case that no    *)
(* investigator has touched comes to be reported.                          *)
CriticalIsReported ==
  \A t \in Trade :
    fraudCase[t].severity = "critical" ~>
      \/ fraudCase[t].regulatoryReported
      \/ fraudCase[t].status \in {"investigating", "resolved",
                                  "false_positive", "regulatory_reported"}
=============================================================================
