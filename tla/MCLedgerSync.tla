---------------------------- MODULE MCLedgerSync ----------------------------
(* LedgerSync for TLC: the slots for handlers are interchangeable.         *)
EXTENDS LedgerSync, TLC

Slots == Permutations(Task)
=============================================================================
