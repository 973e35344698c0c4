------------------------------ MODULE Services ------------------------------
(***************************************************************************)
(* The services of the application that keep maps, timers and tables of    *)
(* their own.  Where no variable is shared, a behaviour of all of them is  *)
(* any interleaving of behaviours of each, and it is enough to explore     *)
(* them one at a time: focus names what acts, the rest stays in its        *)
(* initial state.  The table contracts is shared, by the listeners of      *)
(* ContractService and by DeployerService: under "contracts" both act on   *)
(* it, under "deployments" more deployments overlap with no listener.      *)
(***************************************************************************)
EXTENDS CircuitBreaker, LogBuffer, FraudCases, FraudPrevention,
        ContractEvents, CrossBorder, TxWorkflow

CONSTANTS MaxLoad,         \* polls and deployments in progress or failed,
                           \* where both act (a bound)
          MaxListenedRows  \* rows of the table, where both act (a bound)

ASSUME ServicesAssumption == MaxLoad \in Nat /\ MaxListenedRows \in Nat

VARIABLE focus

Service == {"breaker", "log", "cases", "prevention", "contracts",
            "deployments", "border", "workflow"}

vars == <<focus, breakerVars, logVars, fraudVars, preventionVars,
          contractVars, borderVars, workflowVars>>

ServicesInit ==
  /\ focus \in Service
  /\ BreakerInit /\ LogInit /\ FraudInit /\ PreventionInit
  /\ ContractInit /\ BorderInit /\ WorkflowInit

BreakerStep ==
  /\ focus = "breaker" /\ BreakerNext
  /\ UNCHANGED <<focus, logVars, fraudVars, preventionVars, contractVars,
                 borderVars, workflowVars>>

LogStep ==
  /\ focus = "log" /\ LogNext
  /\ UNCHANGED <<focus, breakerVars, fraudVars, preventionVars, contractVars,
                 borderVars, workflowVars>>

CasesStep ==
  /\ focus = "cases" /\ FraudNext
  /\ UNCHANGED <<focus, breakerVars, logVars, preventionVars, contractVars,
                 borderVars, workflowVars>>

PreventionStep ==
  /\ focus = "prevention" /\ PreventionNext
  /\ UNCHANGED <<focus, breakerVars, logVars, fraudVars, contractVars,
                 borderVars, workflowVars>>

\* The bounds of the listeners and deployments together: one deployment at a
\* time, few rows, little at work.
Polling == {p \in Poll : poll[p].pc # "free"}

InProgress == {d \in Deployment : ~Deploying(d, "free")}

LightlyLoaded ==
  /\ Cardinality(InProgress) <= 1
  /\ Len(contracts) + Cardinality(Pending) <= MaxListenedRows
  /\ Cardinality(Polling) + Cardinality(InProgress) + pollFaults + deployFaults
       <= MaxLoad

ContractsStep ==
  /\ focus = "contracts" /\ ContractNext /\ LightlyLoaded'
  /\ UNCHANGED <<focus, breakerVars, logVars, fraudVars, preventionVars,
                 borderVars, workflowVars>>

DeploymentsStep ==
  /\ focus = "deployments" /\ RegistryNext
  /\ UNCHANGED <<focus, breakerVars, logVars, fraudVars, preventionVars,
                 listenerVars, borderVars, workflowVars>>

BorderStep ==
  /\ focus = "border" /\ BorderNext
  /\ UNCHANGED <<focus, breakerVars, logVars, fraudVars, preventionVars,
                 contractVars, workflowVars>>

WorkflowStep ==
  /\ focus = "workflow" /\ WorkflowNext
  /\ UNCHANGED <<focus, breakerVars, logVars, fraudVars, preventionVars,
                 contractVars, borderVars>>

ServicesNext ==
  \/ BreakerStep \/ LogStep \/ CasesStep \/ PreventionStep
  \/ ContractsStep \/ DeploymentsStep \/ BorderStep \/ WorkflowStep

\* What each service is promised; none of these actions is enabled in the
\* initial state of a service that rests.
ServicesFairness ==
  /\ BreakerFairness /\ LogFairness /\ EscalationFairness
  /\ ContractFairness /\ WorkflowFairness

ServicesSpec == ServicesInit /\ [][ServicesNext]_vars /\ ServicesFairness
=============================================================================
