--------------------------- MODULE CircuitBreaker ---------------------------
(***************************************************************************)
(* The circuit breaker of the gateway                                      *)
(* (src/src/gateway/circuit-breaker/circuit-breaker.service.ts).  A        *)
(* request is let through by checkCircuit and reports its outcome later,   *)
(* when the circuit may have changed.  Every failure at or beyond the      *)
(* threshold sets a timer of 30 s and nothing ever clears one, so timers   *)
(* of earlier periods fire into later ones.                                *)
(***************************************************************************)
EXTENDS Integers

CONSTANTS Threshold,      \* failures that open the circuit: 5
          MaxAdmitted,    \* requests in progress (a bound)
          MaxFailures,    \* failures in a row (a bound)
          MaxTimeouts     \* timers set and not fired (a bound)

ASSUME BreakerAssumption ==
  /\ Threshold \in Nat \ {0}
  /\ MaxAdmitted \in Nat /\ MaxFailures \in Nat /\ MaxTimeouts \in Nat

VARIABLES
  circuit,        \* CircuitBreakerService.state
  failureCount,
  timeouts,       \* timers that will set HALF_OPEN
  admitted        \* requests between checkCircuit and their report

breakerVars == <<circuit, failureCount, timeouts, admitted>>

BreakerInit ==
  /\ circuit = "closed" /\ failureCount = 0
  /\ timeouts = 0 /\ admitted = 0

\* Anything but an open circuit lets every request through.
CheckCircuit ==
  /\ circuit # "open" /\ admitted < MaxAdmitted
  /\ admitted' = admitted + 1
  /\ UNCHANGED <<circuit, failureCount, timeouts>>

\* Mutant: the count survives a success.
ReportSuccessOnly ==
  /\ admitted > 0
  /\ admitted' = admitted - 1
  /\ circuit' = "closed"
  /\ UNCHANGED <<failureCount, timeouts>>

ReportSuccess ==
  /\ admitted > 0
  /\ admitted' = admitted - 1
  /\ failureCount' = 0
  /\ circuit' = "closed"
  /\ UNCHANGED timeouts

\* Mutant: a timer for the failure that reaches the threshold only.
OpenOnce ==
  /\ circuit' = "open"
  /\ timeouts' = IF failureCount' = Threshold THEN timeouts + 1 ELSE timeouts

Open ==
  /\ circuit' = "open"
  /\ timeouts < MaxTimeouts /\ timeouts' = timeouts + 1

ReportFailure ==
  /\ admitted > 0
  /\ admitted' = admitted - 1
  /\ failureCount < MaxFailures /\ failureCount' = failureCount + 1
  /\ \/ failureCount' >= Threshold /\ Open
     \/ failureCount' < Threshold /\ UNCHANGED <<circuit, timeouts>>

\* Whatever the state is by then, a closed circuit included.
TimeoutFires ==
  /\ timeouts > 0
  /\ timeouts' = timeouts - 1
  /\ circuit' = "half_open"
  /\ UNCHANGED <<failureCount, admitted>>

BreakerNext == CheckCircuit \/ ReportSuccess \/ ReportFailure \/ TimeoutFires

\* Timers fire.
BreakerFairness == WF_breakerVars(TimeoutFires)

BreakerSpec == BreakerInit /\ [][BreakerNext]_breakerVars /\ BreakerFairness

-----------------------------------------------------------------------------
(* Late reports and left-over timers leave no lasting damage: a closed     *)
(* circuit has the whole or a part of its threshold before it, and an open *)
(* one, however it was opened again, has failures that justify it and a    *)
(* timer that will end it.                                                 *)
OpenIsTimed ==
  /\ circuit = "closed" => failureCount < Threshold
  /\ circuit = "open" => failureCount >= Threshold /\ timeouts > 0

(* Requests get through again: an open circuit does not stay open.         *)
BreakerReopens == []<>(circuit # "open")
=============================================================================
