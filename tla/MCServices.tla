----------------------------- MODULE MCServices -----------------------------
(***************************************************************************)
(* Services for TLC: fewer attempts than the code has, more than one where *)
(* a step may fail; two types, one of them with a contract in the          *)
(* configuration, a contract with events and one without.                  *)
(***************************************************************************)
EXTENDS Services

FewAttempts == <<1, 2, 2, 1, 1, 1>>

MCTypes == {"token", "escrow"}
MCIds == {"C1", "C2"}
MCDeploy == {<<"token", "C1">>, <<"escrow", "C2">>}
MCConfigured == [t \in MCTypes |-> IF t = "token" THEN {"C2"} ELSE {}]
MCRequest == {<<"token", 0>>, <<"token", 1>>}
MCEventContract == {"C1"}
=============================================================================
