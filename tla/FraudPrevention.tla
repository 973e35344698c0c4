--------------------------- MODULE FraudPrevention ---------------------------
(***************************************************************************)
(* The pre-trade check                                                     *)
(* (src/src/fraud/prevention/fraud-prevention.service.ts).  preTradeCheck  *)
(* looks at the whitelist, the blocklist, the trades of the last minute    *)
(* and the score at once, awaits the number of open cases and only then    *)
(* counts the trade, while other checks of the same trader go on.  Clocks  *)
(* and scores are left open.                                               *)
(***************************************************************************)
EXTENDS Integers, FiniteSets

CONSTANTS Trader,
          Check,         \* checks in progress (a bound)
          RateLimit      \* trades a minute: 60

ASSUME PreventionAssumption == IsFiniteSet(Check) /\ RateLimit \in Nat \ {0}

VARIABLES
  whitelist,
  blocked,       \* per trader: no entry, one for a time, one for ever, one past
  rateCount,     \* per trader: timestamps of the last minute
  checking       \* per check: its trader, while the cases are counted

preventionVars == <<whitelist, blocked, rateCount, checking>>

Blocklist == {"none", "timed", "for_ever", "expired"}

\* At most one trader.
NoTrader == {}

PreventionInit ==
  /\ whitelist = {}
  /\ blocked = [t \in Trader |-> "none"]
  /\ rateCount = [t \in Trader |-> 0]
  /\ checking = [c \in Check |-> NoTrader]

\* Mutant: one trade more.
IsRateLimitedLate(t) == rateCount[t] > RateLimit

\* checkRateLimit
IsRateLimited(t) == rateCount[t] >= RateLimit

\* The part of preTradeCheck before its await.  An expired entry is deleted.
\* A check that is answered at once, by the whitelist, by the score, by the
\* value or by the counterparty, leaves nothing else behind.
PreTradeCheck(c, t) ==
  /\ checking[c] = NoTrader
  /\ t \notin whitelist /\ blocked[t] \in {"none", "expired"}
  /\ blocked' = [blocked EXCEPT ![t] = "none"]
  /\ \/ ~IsRateLimited(t) /\ checking' = [checking EXCEPT ![c] = {t}]
     \/ UNCHANGED checking
  /\ UNCHANGED <<whitelist, rateCount>>

\* Few open cases: the trade is counted and allowed.
Allow(c) ==
  /\ checking[c] # NoTrader
  /\ rateCount' = [t \in Trader |->
                     IF t \in checking[c] THEN rateCount[t] + 1
                                          ELSE rateCount[t]]
  /\ checking' = [checking EXCEPT ![c] = NoTrader]
  /\ UNCHANGED <<whitelist, blocked>>

\* Too many open cases, or the count fails.
Refuse(c) ==
  /\ checking[c] # NoTrader
  /\ checking' = [checking EXCEPT ![c] = NoTrader]
  /\ UNCHANGED <<whitelist, blocked, rateCount>>

MinutePasses(t) ==
  /\ rateCount[t] > 0
  /\ \E n \in 0 .. rateCount[t] - 1 : rateCount' = [rateCount EXCEPT ![t] = n]
  /\ UNCHANGED <<whitelist, blocked, checking>>

\* blockTrader replaces whatever entry there is.
BlockTrader(t) ==
  /\ \E b \in {"timed", "for_ever"} : blocked' = [blocked EXCEPT ![t] = b]
  /\ UNCHANGED <<whitelist, rateCount, checking>>

BlockExpires(t) ==
  /\ blocked[t] = "timed"
  /\ blocked' = [blocked EXCEPT ![t] = "expired"]
  /\ UNCHANGED <<whitelist, rateCount, checking>>

UnblockTrader(t) ==
  /\ blocked[t] # "none"
  /\ blocked' = [blocked EXCEPT ![t] = "none"]
  /\ UNCHANGED <<whitelist, rateCount, checking>>

\* addToWhitelist, removeFromWhitelist
Whitelists(t) ==
  /\ whitelist' \in {whitelist \cup {t}, whitelist \ {t}}
  /\ UNCHANGED <<blocked, rateCount, checking>>

\* All of it lives in the process.
PreventionRestarts ==
  /\ whitelist' = {} /\ blocked' = [t \in Trader |-> "none"]
  /\ rateCount' = [t \in Trader |-> 0] /\ checking' = [c \in Check |-> NoTrader]

PreventionNext ==
  \/ \E t \in Trader : \/ BlockTrader(t) \/ BlockExpires(t) \/ UnblockTrader(t)
                       \/ Whitelists(t) \/ MinutePasses(t)
                       \/ \E c \in Check : PreTradeCheck(c, t)
  \/ \E c \in Check : Allow(c) \/ Refuse(c)
  \/ PreventionRestarts

PreventionSpec == PreventionInit /\ [][PreventionNext]_preventionVars

-----------------------------------------------------------------------------
(* The limit is passed together by checks in flight, and by no more than   *)
(* those: the trades counted within a minute and the checks that may still *)
(* count one stay below the limit and the number of concurrent checks.     *)
Counting(t) == {c \in Check : t \in checking[c]}

RateOvershoot ==
  \A t \in Trader :
    rateCount[t] + Cardinality(Counting(t)) < RateLimit + Cardinality(Check)
=============================================================================
