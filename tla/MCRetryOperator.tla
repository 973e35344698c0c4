-------------------------- MODULE MCRetryOperator --------------------------
(***************************************************************************)
(* RetryOperator with symmetry: no definition tells one transaction, one   *)
(* call slot or one timer slot from another, so permuting them is sound    *)
(* for invariants.                                                         *)
(***************************************************************************)
EXTENDS RetryOperator, FiniteSets, TLC

Symmetry == Permutations(Tx) \cup Permutations(Call)
                             \cup Permutations(Timer)

\* A bound: faults happen while there is one transaction, and a second one
\* is created only where none did.
FaultsAlone ==
  faults.stops + faults.db > 0 =>
    Cardinality({t \in Tx : row[t].status # "absent"}) <= 1

(* What no step looks at: the entity of a timer that is over, alerted, and *)
(* the ledgerSequence of a row or of an entity read from one.              *)
Seen(e) == [e EXCEPT !.ledgerSequence = FALSE]

SeenCall(f) == IF "ent" \in DOMAIN f THEN [f EXCEPT !.ent = Seen(@)]
               ELSE [f EXCEPT !.ents = [t \in Tx |-> Seen(@[t])]]

SeenTimer(k) == IF FreeTimer(k) THEN NoTimer
                ELSE [timer[k] EXCEPT !.ent = Seen(@)]

View == <<ledger, aged, up, memory, faults,
          [t \in Tx |-> Seen(row[t])],
          [c \in Call |-> SeenCall(call[c])],
          [k \in Timer |-> SeenTimer(k)]>>
=============================================================================
