----------------------------- MODULE CrossBorder -----------------------------
(***************************************************************************)
(* TransactionProcessorService                                             *)
(* (src/src/cross-border/transactions/transaction-processor.service.ts):   *)
(* a cross-border trade is inserted, checked and saved again from the copy *)
(* that was inserted, while clients retry and cancel it.  transactionId is *)
(* unique, and a retry inserts a row like any other.  What the checks say  *)
(* is left open.                                                           *)
(***************************************************************************)
EXTENDS Integers, FiniteSets

CONSTANTS TradeId,
          BorderCall,      \* calls in progress (a bound)
          MaxBorderFaults  \* failing statements and stops (a bound)

ASSUME BorderAssumption == MaxBorderFaults \in Nat

VARIABLES
  borderRow,     \* the table cross_border_transactions
  borderCall,    \* calls between two awaits
  borderFaults

borderVars == <<borderRow, borderCall, borderFaults>>

BorderRow == [status : {"processing", "completed", "failed", "cancelled"},
              compliance : {"pending_review", "compliant", "non_compliant"},
              customs : {"none", "approved", "refused"}]

Inserted == [status |-> "processing", compliance |-> "pending_review",
             customs |-> "none"]

NoBorderRow == [Inserted EXCEPT !.status = "absent"]

BorderFrame == [pc : {"free", "insert", "check", "finish", "cancel"},
                id : SUBSET TradeId, copy : BorderRow \cup {NoBorderRow}]

NoBorderCall == [pc |-> "free", id |-> {}, copy |-> NoBorderRow]

BorderInit ==
  /\ borderRow = [t \in TradeId |-> NoBorderRow]
  /\ borderCall = [c \in BorderCall |-> NoBorderCall]
  /\ borderFaults = 0

Handles(c, pc) == borderCall[c].pc = pc

BorderBegins(c, pc, t, copy) ==
  /\ Handles(c, "free")
  /\ borderCall' = [borderCall EXCEPT ![c] =
                      [pc |-> pc, id |-> {t}, copy |-> copy]]
  /\ UNCHANGED <<borderRow, borderFaults>>

BorderReturns(c) == borderCall' = [borderCall EXCEPT ![c] = NoBorderCall]

Writes(t, r) == borderRow' = [borderRow EXCEPT ![t] = r]

ProcessTransaction(c, t) == BorderBegins(c, "insert", t, Inserted)

\* From the columns of the row, by the same processTransaction.
RetryFailedTransaction(c, t) ==
  /\ borderRow[t].status = "failed"
  /\ BorderBegins(c, "insert", t, Inserted)

\* Mutant: save takes a row with this transactionId over.
InsertsOrUpdates(c, t) ==
  /\ Writes(t, borderCall[c].copy)
  /\ borderCall' = [borderCall EXCEPT ![c].pc = "check"]

\* The entity is new: an INSERT, which the unique index refuses the second
\* time. The call then answers with the error.
Inserts(c, t) ==
  \/ /\ borderRow[t] = NoBorderRow
     /\ Writes(t, borderCall[c].copy)
     /\ borderCall' = [borderCall EXCEPT ![c].pc = "check"]
  \/ /\ borderRow[t] # NoBorderRow
     /\ BorderReturns(c)
     /\ UNCHANGED borderRow

BorderInserts(c) ==
  /\ Handles(c, "insert")
  /\ \E t \in borderCall[c].id : Inserts(c, t)
  /\ UNCHANGED borderFaults

\* A failed compliance check or a refused clearance makes it FAILED.
ChecksAnswer(c) ==
  /\ Handles(c, "check")
  /\ \E comp \in {"pending_review", "compliant", "non_compliant"},
        cust \in {"approved", "refused"} :
       borderCall' = [borderCall EXCEPT ![c].pc = "finish", ![c].copy =
         [compliance |-> comp, customs |-> cust,
          status |-> IF comp = "non_compliant" \/ cust = "refused"
                       THEN "failed" ELSE "completed"]]
  /\ UNCHANGED <<borderRow, borderFaults>>

BorderFinishes(c) ==
  /\ Handles(c, "finish")
  /\ \E t \in borderCall[c].id : Writes(t, borderCall[c].copy)
  /\ BorderReturns(c)
  /\ UNCHANGED borderFaults

CancelTransaction(c, t) ==
  /\ borderRow[t].status \in {"processing", "failed"}
  /\ BorderBegins(c, "cancel", t, [borderRow[t] EXCEPT !.status = "cancelled"])

\* save compares the copy with the row it reads first, and writes what is
\* different: the status alone, or all the row has got meanwhile.
CancelSaves(c) ==
  /\ Handles(c, "cancel")
  /\ \E t \in borderCall[c].id :
       \E r \in {borderCall[c].copy, [borderRow[t] EXCEPT !.status = "cancelled"]} :
         Writes(t, r)
  /\ BorderReturns(c)
  /\ UNCHANGED borderFaults

\* A check throws, a statement fails or the process ends: the row stays.
BorderFails(c) ==
  /\ ~Handles(c, "free")
  /\ borderFaults < MaxBorderFaults /\ borderFaults' = borderFaults + 1
  /\ BorderReturns(c)
  /\ UNCHANGED borderRow

BorderNext ==
  \E c \in BorderCall :
    \/ BorderInserts(c) \/ ChecksAnswer(c) \/ BorderFinishes(c)
    \/ CancelSaves(c) \/ BorderFails(c)
    \/ \E t \in TradeId : \/ ProcessTransaction(c, t) \/ CancelTransaction(c, t)
                          \/ RetryFailedTransaction(c, t)

BorderSpec == BorderInit /\ [][BorderNext]_borderVars

-----------------------------------------------------------------------------
(* A cancellation is overwritten only by the processing that was under way *)
(* at the time: there is one such call at most, and afterwards a cancelled *)
(* trade stays cancelled, whoever retries or processes it again from what  *)
(* was read before.                                                        *)
Processing(t) ==
  {c \in BorderCall : borderCall[c].pc \in {"check", "finish"} /\
                      t \in borderCall[c].id}

CancellationStands ==
  [][\A t \in TradeId :
       /\ Cardinality(Processing(t)') <= 1
       /\ borderRow[t].status = "cancelled" /\ Processing(t) = {}
            => borderRow'[t].status = "cancelled"]_borderVars
=============================================================================
