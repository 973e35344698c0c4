------------------------------ MODULE TxRecord ------------------------------
(***************************************************************************)
(* What the monitor promises a client who reads a row of transaction_status*)
(* through GET /monitoring/transactions/:hash, whatever replica polls,     *)
(* retries, times out or crashes.  A record starts PENDING, leaves PENDING *)
(* for good, and is never deleted.  Each later write says TIMEOUT or what  *)
(* the network decided, and keeps the count of retries within the limit    *)
(* the client asked for.  It does NOT promise that CONFIRMED is the last   *)
(* word: the code does not keep that promise (see ConfirmedIsFinal).       *)
(***************************************************************************)
EXTENDS Naturals

CONSTANTS Tx, RetryLimit

VARIABLES ledger, status, retryCount, maxRetries

rvars == <<ledger, status, retryCount, maxRetries>>

Init == /\ ledger = [t \in Tx |-> "unknown"]
        /\ status = [t \in Tx |-> "absent"]
        /\ retryCount = [t \in Tx |-> 0]
        /\ maxRetries = [t \in Tx |-> 0]

Decide(t) ==
  /\ ledger[t] = "unknown"
  /\ \E v \in {"success", "failed"} : ledger' = [ledger EXCEPT ![t] = v]
  /\ UNCHANGED <<status, retryCount, maxRetries>>

Submit(t) ==
  /\ status[t] = "absent"
  /\ status' = [status EXCEPT ![t] = "pending"]
  /\ \E limit \in RetryLimit : maxRetries' = [maxRetries EXCEPT ![t] = limit]
  /\ UNCHANGED <<ledger, retryCount>>

\* What a replica may write of a transaction, given the network's verdict.
Truthful(t) == CASE ledger[t] = "success" -> {"timeout", "confirmed"}
                 [] ledger[t] = "failed"  -> {"timeout", "failed", "retrying"}
                 [] OTHER                 -> {"timeout"}

Write(t) ==
  /\ status[t] # "absent"
  /\ \E s \in Truthful(t) : status' = [status EXCEPT ![t] = s]
  /\ \E n \in 0..maxRetries[t] : retryCount' = [retryCount EXCEPT ![t] = n]
  /\ UNCHANGED <<ledger, maxRetries>>

Next == \E t \in Tx : Decide(t) \/ Submit(t) \/ Write(t)

Spec == Init /\ [][Next]_rvars
=============================================================================
