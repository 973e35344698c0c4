-------------------------- MODULE ContractRegistry --------------------------
(***************************************************************************)
(* The rows of the table contracts of one network, as DeployerService      *)
(* (src/src/contracts/deployer/deployer.service.ts) writes them.  A        *)
(* deployment looks for an active row of its type, deactivates it and      *)
(* saves its own, in three statements without a transaction; an upgrade    *)
(* reads the row it replaces before, whatever its type, and retires it     *)
(* afterwards.  Deployments, of any replica, overlap.                      *)
(***************************************************************************)
EXTENDS Integers, Sequences, FiniteSets

CONSTANTS ContractType, ContractId,
          DeployRequest,   \* types and contracts that are deployed (a bound)
          Deployment,      \* deployments in progress (a bound)
          MaxContracts,    \* rows (a bound)
          MaxDeployFaults  \* deployments that fail midway (a bound)

ASSUME RegistryAssumption ==
  /\ DeployRequest \subseteq ContractType \X ContractId
  /\ MaxContracts \in Nat /\ MaxDeployFaults \in Nat

VARIABLES
  contracts,     \* the rows, in the order of insertion
  deployment,    \* deployments between two awaits
  orphaned,      \* rows deactivated by deployments that then failed
  retyped,       \* rows retired by upgrades to another type
  deployFaults

registryVars == <<contracts, deployment, orphaned, retyped, deployFaults>>

Registered == DOMAIN contracts

\* lastProcessedLedger: 0 is null.  updatedAt: the place of an active row in
\* the order of the column; nothing looks at that of an inactive one.
ContractRow == [contractType : ContractType, contractId : ContractId,
                isActive : BOOLEAN, lastProcessedLedger : Nat, updatedAt : Nat]

Times(rows, S) == {rows[i].updatedAt : i \in {j \in S : rows[j].isActive}}

\* The rows of S are written: they are the latest now, the others close up.
Touch(rows, S) ==
  LET rest == Times(rows, DOMAIN rows \ S) IN
  [i \in DOMAIN rows |-> [rows[i] EXCEPT !.updatedAt =
     IF ~rows[i].isActive THEN 0
     ELSE IF i \in S THEN Cardinality(rest) + 1
     ELSE Cardinality({u \in rest : u <= @})]]

OfId(c) == {i \in Registered : contracts[i].contractId = c}

Active(t) == {i \in Registered : /\ contracts[i].contractType = t
                                 /\ contracts[i].isActive}

\* The request; existing: the row an upgrade replaces; active: the row to
\* deactivate, and ledger: the cursor in the entity that was read; 0 is none.
DeployFrame == [pc : {"find", "deactivate", "save", "retire", "relink"},
                contractType : ContractType, contractId : ContractId,
                existing : Nat, active : Nat, ledger : Nat]

NewDeployment(t, c, existing) ==
  [pc |-> "find", contractType |-> t, contractId |-> c,
   existing |-> existing, active |-> 0, ledger |-> 0]

NoDeployment == [pc |-> "free"]

RegistryInit ==
  /\ contracts = <<>>
  /\ deployment = [d \in Deployment |-> NoDeployment]
  /\ orphaned = {} /\ retyped = {} /\ deployFaults = 0

Deploying(d, pc) == deployment[d].pc = pc

\* The bound of the table: every deployment that begins may save its row.
Pending == {d \in Deployment :
              deployment[d].pc \in {"find", "deactivate", "save"}}

RoomForRow == Len(contracts) + Cardinality(Pending) < MaxContracts

\* The first free slot.
FreeSlot(d) == /\ Deploying(d, "free")
               /\ d = CHOOSE e \in Deployment : Deploying(e, "free")

\* The network has accepted the transaction: the answer names the contract.
DeployContract(d, t, c) ==
  /\ FreeSlot(d) /\ RoomForRow
  /\ deployment' = [deployment EXCEPT ![d] = NewDeployment(t, c, 0)]
  /\ UNCHANGED <<contracts, orphaned, retyped, deployFaults>>

\* Row i is any of the previousContractId, an inactive one too; the request
\* names the type and the contract of the new row.
UpgradeContract(d, i, t, c) ==
  /\ FreeSlot(d) /\ RoomForRow
  /\ deployment' = [deployment EXCEPT ![d] = NewDeployment(t, c, i)]
  /\ UNCHANGED <<contracts, orphaned, retyped, deployFaults>>

\* findOne, in no order.
FindActive(d) ==
  LET f == deployment[d] IN
  /\ Deploying(d, "find")
  /\ \/ \E i \in Active(f.contractType) :
          deployment' = [deployment EXCEPT ![d] =
            [f EXCEPT !.pc = "deactivate", !.active = i,
                      !.ledger = contracts[i].lastProcessedLedger]]
     \/ /\ Active(f.contractType) = {}
        /\ deployment' = [deployment EXCEPT ![d].pc = "save"]
  /\ UNCHANGED <<contracts, orphaned, retyped, deployFaults>>

\* The whole entity is saved, with the cursor it was read with.
Deactivate(d) ==
  LET f == deployment[d] IN
  /\ Deploying(d, "deactivate")
  /\ contracts' = Touch([contracts EXCEPT ![f.active] =
       [@ EXCEPT !.isActive = FALSE, !.lastProcessedLedger = f.ledger]], {})
  /\ deployment' = [deployment EXCEPT ![d].pc = "save"]
  /\ UNCHANGED <<orphaned, retyped, deployFaults>>

SaveContract(d) ==
  LET f == deployment[d]
      new == [contractType |-> f.contractType, contractId |-> f.contractId,
              isActive |-> TRUE, lastProcessedLedger |-> 0, updatedAt |-> 0]
  IN /\ Deploying(d, "save")
     /\ contracts' = Touch(Append(contracts, new), {Len(contracts) + 1})
     /\ deployment' = [deployment EXCEPT ![d] =
                         IF f.existing = 0 THEN NoDeployment
                         ELSE [f EXCEPT !.pc = "retire"]]
     /\ UNCHANGED <<orphaned, retyped, deployFaults>>

\* The UPDATE of the rows of S; isActive: request.activate === false, which
\* the client chooses.
Retires(d, S) ==
  LET f == deployment[d] IN
  /\ Deploying(d, "retire")
  /\ \E keep \in BOOLEAN :
       contracts' = Touch([i \in Registered |->
         IF i \in S THEN [contracts[i] EXCEPT !.isActive = keep]
         ELSE contracts[i]], S)
  /\ deployment' = [deployment EXCEPT ![d].pc = "relink"]
  /\ retyped' = IF contracts[f.existing].contractType = f.contractType
                  THEN retyped ELSE retyped \cup {f.existing}
  /\ UNCHANGED <<orphaned, deployFaults>>

\* Mutant: the rows are selected by contractId, which an upgrade may keep.
RetireById(d) ==
  Retires(d, OfId(contracts[deployment[d].existing].contractId))

Retire(d) == Retires(d, {deployment[d].existing})

\* The UPDATE of previousContractId makes the rows of the contract the latest.
Relink(d) ==
  /\ Deploying(d, "relink")
  /\ contracts' = Touch(contracts, OfId(deployment[d].contractId))
  /\ deployment' = [deployment EXCEPT ![d] = NoDeployment]
  /\ UNCHANGED <<orphaned, retyped, deployFaults>>

\* A statement fails or the process ends.
DeployFails(d) ==
  /\ ~Deploying(d, "free")
  /\ deployFaults < MaxDeployFaults /\ deployFaults' = deployFaults + 1
  /\ deployment' = [deployment EXCEPT ![d] = NoDeployment]
  /\ orphaned' = IF Deploying(d, "save")
                   THEN orphaned \cup ({deployment[d].active} \ {0})
                   ELSE orphaned
  /\ UNCHANGED <<contracts, retyped>>

RegistryNext ==
  \E d \in Deployment :
    \/ FindActive(d) \/ Deactivate(d) \/ SaveContract(d) \/ Retire(d)
    \/ Relink(d) \/ DeployFails(d)
    \/ \E q \in DeployRequest :
         \/ DeployContract(d, q[1], q[2])
         \/ \E i \in Registered : UpgradeContract(d, i, q[1], q[2])

-----------------------------------------------------------------------------
\* The contract of a type that was registered last.
Newest(t) ==
  {i \in Registered : /\ contracts[i].contractType = t
                      /\ \A j \in Registered :
                           contracts[j].contractType = t => j <= i}

(* However deployments and upgrades overlap, the contract of a type that   *)
(* was registered last is active.  Only a deployment that is about to save *)
(* its own row, or that failed before it did, or an upgrade that named it  *)
(* as its predecessor and registered a contract of another type, may have  *)
(* left it inactive.                                                       *)
NewestIsActive ==
  \A t \in ContractType : \A i \in Newest(t) :
    \/ contracts[i].isActive
    \/ i \in orphaned \cup retyped
    \/ \E d \in Deployment : Deploying(d, "save") /\ deployment[d].active = i
=============================================================================
