------------------------ MODULE ContractEventsProofs ------------------------
(***************************************************************************)
(* What deployments, upgrades and listeners keep of the table contracts    *)
(* they share, for any number of each, any size of a page and any events:  *)
(* the newest contract of a type is active, and no cursor skips an event.  *)
(* The invariant says what a deployment and a poll know between two        *)
(* awaits: which row they are about to change, and that the cursor they    *)
(* hold is one below which every event has been dealt with.                *)
(***************************************************************************)
EXTENDS ContractEvents, TLAPS, FiniteSetTheorems, WellFoundedInduction

-----------------------------------------------------------------------------
(* The table.                                                              *)

\* The statements of a table of the same rows change neither their types nor
\* their contracts.
SameRows(old, new) ==
  /\ new \in Seq(ContractRow) /\ Len(new) = Len(old)
  /\ \A i \in 1..Len(old) : /\ new[i].contractType = old[i].contractType
                            /\ new[i].contractId = old[i].contractId

\* updatedAt is all that Touch changes.
LEMMA TouchFacts ==
  ASSUME NEW rows \in Seq(ContractRow), NEW S
  PROVE  /\ SameRows(rows, Touch(rows, S))
         /\ \A i \in 1..Len(rows) :
              /\ Touch(rows, S)[i].isActive = rows[i].isActive
              /\ Touch(rows, S)[i].lastProcessedLedger
                   = rows[i].lastProcessedLedger
<1> DEFINE D == 1..Len(rows)
           J == {j \in D \ S : rows[j].isActive}
           rest == Times(rows, D \ S)
           at(i) == IF ~rows[i].isActive THEN 0
                    ELSE IF i \in S THEN Cardinality(rest) + 1
                    ELSE Cardinality({u \in rest : u <= rows[i].updatedAt})
<1>1. D = DOMAIN rows /\ \A i \in D : rows[i] \in ContractRow
  OBVIOUS
<1>2. IsFiniteSet(rest)
  <2>1. IsFiniteSet(D)
    BY FS_Interval
  <2>2. IsFiniteSet(J)
    BY <2>1, FS_Subset
  <2> DEFINE time == [i \in J |-> rows[i].updatedAt]
  <2>3. time \in Surjection(J, {time[i] : i \in J})
    BY DEF Surjection
  <2>4. {time[i] : i \in J} = {rows[i].updatedAt : i \in J}
    OBVIOUS
  <2> HIDE DEF time, J
  <2>5. IsFiniteSet({time[i] : i \in J})
    BY <2>2, <2>3, FS_Surjection
  <2> QED
    BY <2>4, <2>5 DEF Times, J
<1>3. \A i \in D : at(i) \in Nat
  <2> SUFFICES ASSUME NEW i \in D PROVE at(i) \in Nat
    OBVIOUS
  <2>1. Cardinality(rest) \in Nat
    BY <1>2, FS_CardinalityType
  <2>2. Cardinality({u \in rest : u <= rows[i].updatedAt}) \in Nat
    <3>1. {u \in rest : u <= rows[i].updatedAt} \subseteq rest
      OBVIOUS
    <3> QED
      BY <1>2, <3>1, FS_Subset, FS_CardinalityType
  <2> HIDE DEF rest
  <2> QED
    BY <2>1, <2>2
<1>4. Touch(rows, S) = [i \in D |-> [rows[i] EXCEPT !.updatedAt = at(i)]]
  BY <1>1 DEF Touch
<1> HIDE DEF at
<1>5. \A i \in D : [rows[i] EXCEPT !.updatedAt = at(i)] \in ContractRow
  BY <1>1, <1>3 DEF ContractRow
<1>6. /\ Touch(rows, S) \in Seq(ContractRow) /\ Len(Touch(rows, S)) = Len(rows)
      /\ \A i \in D : Touch(rows, S)[i] = [rows[i] EXCEPT !.updatedAt = at(i)]
  <2>1. /\ Touch(rows, S) \in [1..Len(rows) -> ContractRow]
        /\ \A i \in D : Touch(rows, S)[i] = [rows[i] EXCEPT !.updatedAt = at(i)]
    BY <1>4, <1>5, Zenon
  <2>2. Len(rows) \in Nat
    OBVIOUS
  <2> QED
    BY <2>1, <2>2
<1>7. \A i \in D :
        /\ Touch(rows, S)[i].contractType = rows[i].contractType
        /\ Touch(rows, S)[i].contractId = rows[i].contractId
        /\ Touch(rows, S)[i].isActive = rows[i].isActive
        /\ Touch(rows, S)[i].lastProcessedLedger = rows[i].lastProcessedLedger
  BY <1>1, <1>6 DEF ContractRow
<1> QED
  BY <1>6, <1>7 DEF SameRows

\* What a deployment knows of the rows it will change.
FrameGood(f, rows) ==
  /\ f.pc \in {"find", "deactivate", "save"} => f.existing \in 0..Len(rows)
  /\ f.pc = "find" => f.active = 0
  /\ f.pc = "deactivate" => f.active # 0
  /\ f.pc \in {"deactivate", "save"} /\ f.active # 0 =>
       /\ f.active \in 1..Len(rows)
       /\ rows[f.active].contractType = f.contractType
  /\ f.pc = "retire" =>
       /\ f.existing \in 1..Len(rows)
       /\ \E j \in 1..Len(rows) : /\ j > f.existing
                                  /\ rows[j].contractType = f.contractType

TableInv ==
  /\ contracts \in Seq(ContractRow)
  /\ deployment \in [Deployment -> DeployFrame \cup {NoDeployment}]
  /\ \A d \in Deployment : FrameGood(deployment[d], contracts)
  /\ NewestIsActive

LEMMA FreeFacts ==
  ASSUME NEW rows
  PROVE  /\ NoDeployment.pc = "free" /\ FrameGood(NoDeployment, rows)
         /\ \A f \in DeployFrame : f.pc # "free"
BY DEF NoDeployment, FrameGood, DeployFrame

LEMMA FrameStays ==
  ASSUME NEW f \in DeployFrame \cup {NoDeployment},
         NEW old \in Seq(ContractRow), NEW new, SameRows(old, new),
         FrameGood(f, old)
  PROVE  FrameGood(f, new)
BY DEF FrameGood, SameRows

LEMMA SameNewest ==
  ASSUME TableInv, SameRows(contracts, contracts'), NEW t \in ContractType
  PROVE  Newest(t)' = Newest(t) /\ Newest(t) \subseteq 1..Len(contracts)
BY DEF TableInv, SameRows, Newest, Registered

\* A step of deployment d, whose frame becomes f, makes no newest row inactive
\* that it does not account for.
Accounts(d, f) ==
  /\ orphaned \subseteq orphaned' /\ retyped \subseteq retyped'
  /\ \A t \in ContractType : \A i \in Newest(t) :
       contracts[i].isActive \/ (Deploying(d, "save") /\ deployment[d].active = i)
         => \/ contracts'[i].isActive
            \/ i \in orphaned' \cup retyped'
            \/ f.pc = "save" /\ f.active = i

LEMMA DeployStepKeeps ==
  ASSUME TableInv, NEW d \in Deployment,
         NEW f \in DeployFrame \cup {NoDeployment},
         deployment' = [deployment EXCEPT ![d] = f],
         SameRows(contracts, contracts'), FrameGood(f, contracts'), Accounts(d, f)
  PROVE  TableInv'
<1>1. /\ contracts \in Seq(ContractRow) /\ contracts' \in Seq(ContractRow)
      /\ Len(contracts') = Len(contracts)
  BY DEF TableInv, SameRows
<1>2. /\ deployment' \in [Deployment -> DeployFrame \cup {NoDeployment}]
      /\ deployment'[d] = f
      /\ \A e \in Deployment \ {d} : deployment'[e] = deployment[e]
  BY DEF TableInv
<1>3. ASSUME NEW e \in Deployment PROVE FrameGood(deployment'[e], contracts')
  <2>1. CASE e = d
    BY <1>2, <2>1
  <2>2. CASE e # d
    BY <1>1, <1>2, <2>2, FrameStays DEF TableInv
  <2> QED
    BY <2>1, <2>2
<1>4. ASSUME NEW t \in ContractType, NEW i \in Newest(t)
      PROVE  \/ contracts'[i].isActive
             \/ i \in orphaned' \cup retyped'
             \/ \E e \in Deployment : Deploying(e, "save")' /\ deployment'[e].active = i
  <2>1. \/ contracts[i].isActive
        \/ i \in orphaned \cup retyped
        \/ \E e \in Deployment : Deploying(e, "save") /\ deployment[e].active = i
    BY DEF TableInv, NewestIsActive
  <2>2. CASE contracts[i].isActive \/ (Deploying(d, "save") /\ deployment[d].active = i)
    <3>1. \/ contracts'[i].isActive
          \/ i \in orphaned' \cup retyped'
          \/ f.pc = "save" /\ f.active = i
      BY <2>2 DEF Accounts
    <3> QED
      BY <1>2, <3>1 DEF Deploying
  <2>3. CASE i \in orphaned \cup retyped
    BY <2>3 DEF Accounts
  <2>4. ASSUME NEW e \in Deployment \ {d}, Deploying(e, "save"),
               deployment[e].active = i
        PROVE  Deploying(e, "save")' /\ deployment'[e].active = i
    BY <1>2, <2>4 DEF Deploying
  <2> QED
    BY <2>1, <2>2, <2>3, <2>4
<1>5. NewestIsActive'
  BY <1>4, SameNewest DEF NewestIsActive
<1> QED
  BY <1>1, <1>2, <1>3, <1>5 DEF TableInv

\* A step that leaves the table alone.
LEMMA DeployMovesKeeps ==
  ASSUME TableInv, NEW d \in Deployment,
         NEW f \in DeployFrame \cup {NoDeployment},
         deployment' = [deployment EXCEPT ![d] = f],
         FrameGood(f, contracts), UNCHANGED <<contracts, retyped>>,
         orphaned \subseteq orphaned',
         Deploying(d, "save") => deployment[d].active \in orphaned' \cup {0}
  PROVE  TableInv'
<1>1. SameRows(contracts, contracts') /\ FrameGood(f, contracts')
  BY DEF SameRows, TableInv
<1>2. \A t \in ContractType : \A i \in Newest(t) : i # 0
  BY <1>1, SameNewest
<1>3. Accounts(d, f)
  BY <1>2 DEF Accounts
<1> QED
  BY <1>1, <1>3, DeployStepKeeps

-----------------------------------------------------------------------------
(* The steps of a deployment.                                              *)

LEMMA DeployBeginsKeeps ==
  ASSUME TableInv, NEW d \in Deployment, NEW q \in DeployRequest,
         \/ DeployContract(d, q[1], q[2])
         \/ \E i \in Registered : UpgradeContract(d, i, q[1], q[2])
  PROVE  TableInv'
<1>1. q[1] \in ContractType /\ q[2] \in ContractId
  BY RegistryAssumption
<1>2. PICK i \in 0..Len(contracts) :
        /\ Deploying(d, "free")
        /\ deployment' = [deployment EXCEPT ![d] = NewDeployment(q[1], q[2], i)]
        /\ UNCHANGED <<contracts, orphaned, retyped>>
  <2>1. CASE DeployContract(d, q[1], q[2])
    <3>1. 0 \in 0..Len(contracts)
      BY DEF TableInv
    <3> QED
      BY <2>1, <3>1 DEF DeployContract, FreeSlot
  <2>2. CASE \E i \in Registered : UpgradeContract(d, i, q[1], q[2])
    <3>1. Registered \subseteq 0..Len(contracts)
      BY DEF TableInv, Registered
    <3> QED
      BY <2>2, <3>1 DEF UpgradeContract, FreeSlot
  <2> QED
    BY <2>1, <2>2
<1> DEFINE f == NewDeployment(q[1], q[2], i)
<1>3. f \in DeployFrame /\ FrameGood(f, contracts)
  BY <1>1, <1>2 DEF NewDeployment, DeployFrame, FrameGood, TableInv
<1>4. ~Deploying(d, "save")
  BY <1>2 DEF Deploying
<1> QED
  BY <1>2, <1>3, <1>4, DeployMovesKeeps

LEMMA FindActiveKeeps ==
  ASSUME TableInv, NEW d \in Deployment, FindActive(d)
  PROVE  TableInv'
<1> DEFINE g == deployment[d]
<1>1. g \in DeployFrame /\ g.pc = "find" /\ FrameGood(g, contracts)
  BY FreeFacts DEF FindActive, Deploying, TableInv
<1>2. PICK f \in DeployFrame :
        /\ deployment' = [deployment EXCEPT ![d] = f] /\ FrameGood(f, contracts)
  <2>1. ASSUME NEW i \in Active(g.contractType),
               deployment' = [deployment EXCEPT ![d] =
                 [g EXCEPT !.pc = "deactivate", !.active = i,
                           !.ledger = contracts[i].lastProcessedLedger]]
        PROVE  \E f \in DeployFrame :
                 /\ deployment' = [deployment EXCEPT ![d] = f]
                 /\ FrameGood(f, contracts)
    <3> DEFINE f == [g EXCEPT !.pc = "deactivate", !.active = i,
                              !.ledger = contracts[i].lastProcessedLedger]
    <3>1. /\ i \in 1..Len(contracts) /\ contracts[i].contractType = g.contractType
          /\ contracts[i] \in ContractRow
      BY DEF Active, Registered, TableInv
    <3>2. contracts[i].lastProcessedLedger \in Nat
      BY <3>1 DEF ContractRow
    <3>3. f \in DeployFrame
      <4>1. i \in Nat
        BY <3>1
      <4> QED
        BY <1>1, <3>2, <4>1 DEF DeployFrame
    <3>4. FrameGood(f, contracts)
      BY <1>1, <3>1 DEF FrameGood, DeployFrame
    <3> HIDE DEF f
    <3> QED
      BY <2>1, <3>3, <3>4 DEF f
  <2>2. ASSUME deployment' = [deployment EXCEPT ![d].pc = "save"],
               g.active = 0
        PROVE  \E f \in DeployFrame :
                 /\ deployment' = [deployment EXCEPT ![d] = f]
                 /\ FrameGood(f, contracts)
    <3> DEFINE f == [g EXCEPT !.pc = "save"]
    <3>1. f \in DeployFrame /\ FrameGood(f, contracts)
      BY <1>1, <2>2 DEF FrameGood, DeployFrame
    <3>2. deployment' = [deployment EXCEPT ![d] = f]
      BY <2>2
    <3> HIDE DEF f
    <3> QED
      BY <3>1, <3>2
  <2> QED
    BY <1>1, <2>1, <2>2 DEF FindActive, FrameGood
<1> QED
  BY <1>1, <1>2, DeployMovesKeeps DEF FindActive, Deploying

LEMMA DeactivateKeeps ==
  ASSUME TableInv, NEW d \in Deployment, Deactivate(d)
  PROVE  /\ TableInv' /\ SameRows(contracts, contracts')
         /\ deployment[d].active \in 1..Len(contracts)
         /\ \A i \in 1..Len(contracts) :
              contracts'[i].lastProcessedLedger =
                IF i = deployment[d].active THEN deployment[d].ledger
                ELSE contracts[i].lastProcessedLedger
<1> DEFINE g == deployment[d]
           r == [contracts[g.active] EXCEPT !.isActive = FALSE,
                                            !.lastProcessedLedger = g.ledger]
           mid == [contracts EXCEPT ![g.active] = r]
           f == [g EXCEPT !.pc = "save"]
<1>1. /\ g \in DeployFrame /\ g.pc = "deactivate" /\ FrameGood(g, contracts)
      /\ contracts \in Seq(ContractRow)
  BY FreeFacts DEF Deactivate, Deploying, TableInv
<1>2. /\ g.active \in 1..Len(contracts) /\ g.ledger \in Nat
      /\ contracts[g.active].contractType = g.contractType
  BY <1>1 DEF FrameGood, DeployFrame
<1>3. contracts[g.active] \in ContractRow
  BY <1>1, <1>2
<1>4. /\ r \in ContractRow /\ r.lastProcessedLedger = g.ledger
      /\ r.contractType = contracts[g.active].contractType
      /\ r.contractId = contracts[g.active].contractId
  BY <1>2, <1>3 DEF ContractRow
<1>5. contracts' = Touch(mid, {}) /\ deployment' = [deployment EXCEPT ![d] = f]
  BY DEF Deactivate
<1> HIDE DEF r
<1>6. /\ mid \in Seq(ContractRow) /\ Len(mid) = Len(contracts)
      /\ mid[g.active] = r
      /\ \A i \in 1..Len(contracts) : i # g.active => mid[i] = contracts[i]
  BY <1>1, <1>2, <1>4
<1> HIDE DEF mid
<1>7. SameRows(contracts, mid)
  BY <1>4, <1>6 DEF SameRows
<1>8. /\ SameRows(mid, contracts')
      /\ \A i \in 1..Len(contracts) :
           /\ contracts'[i].isActive = mid[i].isActive
           /\ contracts'[i].lastProcessedLedger = mid[i].lastProcessedLedger
  BY <1>5, <1>6, TouchFacts
<1>9. SameRows(contracts, contracts')
  BY <1>7, <1>8 DEF SameRows
<1>10. f \in DeployFrame /\ f.pc = "save" /\ f.active = g.active
  BY <1>1 DEF DeployFrame
<1>11. FrameGood(f, contracts)
  BY <1>1, <1>2 DEF FrameGood, DeployFrame
<1> HIDE DEF f
<1>12. FrameGood(f, contracts')
  BY <1>1, <1>9, <1>10, <1>11, FrameStays
<1>13. Accounts(d, f)
  <2>1. /\ ~Deploying(d, "save")
        /\ orphaned \subseteq orphaned' /\ retyped \subseteq retyped'
    BY DEF Deactivate, Deploying
  <2>2. \A i \in 1..Len(contracts) \ {g.active} :
          contracts[i].isActive => contracts'[i].isActive
    BY <1>6, <1>8
  <2>3. \A t \in ContractType : Newest(t) \subseteq 1..Len(contracts)
    BY <1>9, SameNewest
  <2> QED
    BY <1>10, <2>1, <2>2, <2>3 DEF Accounts
<1>14. TableInv'
  BY <1>5, <1>9, <1>10, <1>12, <1>13, DeployStepKeeps
<1> QED
  BY <1>2, <1>4, <1>6, <1>8, <1>9, <1>14

\* The row that is added is the newest of its type, and active.
LEMMA SaveContractKeeps ==
  ASSUME TableInv, NEW d \in Deployment, SaveContract(d)
  PROVE  /\ TableInv'
         /\ Len(contracts') = Len(contracts) + 1
         /\ \A i \in 1..Len(contracts) :
              /\ contracts'[i].contractId = contracts[i].contractId
              /\ contracts'[i].lastProcessedLedger
                   = contracts[i].lastProcessedLedger
         /\ contracts'[Len(contracts) + 1].lastProcessedLedger = 0
<1> DEFINE g == deployment[d]
           n == Len(contracts) + 1
           new == [contractType |-> g.contractType, contractId |-> g.contractId,
                   isActive |-> TRUE, lastProcessedLedger |-> 0, updatedAt |-> 0]
           mid == Append(contracts, new)
           f == IF g.existing = 0 THEN NoDeployment ELSE [g EXCEPT !.pc = "retire"]
<1>1. /\ g \in DeployFrame /\ g.pc = "save" /\ FrameGood(g, contracts)
      /\ contracts \in Seq(ContractRow) /\ Len(contracts) \in Nat
  BY FreeFacts DEF SaveContract, Deploying, TableInv
<1>2. new \in ContractRow
  BY <1>1 DEF ContractRow, DeployFrame
<1>3. contracts' = Touch(mid, {n}) /\ deployment' = [deployment EXCEPT ![d] = f]
  BY DEF SaveContract
<1>4. /\ mid \in Seq(ContractRow) /\ Len(mid) = n /\ mid[n] = new
      /\ \A i \in 1..Len(contracts) : mid[i] = contracts[i]
  BY <1>1, <1>2
<1>5. /\ contracts' \in Seq(ContractRow) /\ Len(contracts') = n
      /\ \A i \in 1..n :
           /\ contracts'[i].contractType = mid[i].contractType
           /\ contracts'[i].contractId = mid[i].contractId
           /\ contracts'[i].isActive = mid[i].isActive
           /\ contracts'[i].lastProcessedLedger = mid[i].lastProcessedLedger
  <2> HIDE DEF mid
  <2>1. SameRows(mid, contracts')
    BY <1>3, <1>4, TouchFacts
  <2>2. \A i \in 1..n :
          /\ contracts'[i].isActive = mid[i].isActive
          /\ contracts'[i].lastProcessedLedger = mid[i].lastProcessedLedger
    BY <1>3, <1>4, TouchFacts
  <2> QED
    BY <1>4, <2>1, <2>2 DEF SameRows
<1> HIDE DEF mid
<1>6. /\ \A i \in 1..Len(contracts) :
           /\ i \in 1..n /\ i < n
           /\ contracts'[i].contractType = contracts[i].contractType
           /\ contracts'[i].contractId = contracts[i].contractId
           /\ contracts'[i].isActive = contracts[i].isActive
           /\ contracts'[i].lastProcessedLedger = contracts[i].lastProcessedLedger
      /\ n \in 1..n /\ 1..n = (1..Len(contracts)) \cup {n}
      /\ contracts'[n].contractType = g.contractType
      /\ contracts'[n].isActive /\ contracts'[n].lastProcessedLedger = 0
  BY <1>1, <1>4, <1>5
<1>7. f \in DeployFrame \cup {NoDeployment} /\ f.pc # "save"
  BY <1>1, FreeFacts DEF DeployFrame
<1>8. FrameGood(f, contracts')
  <2>1. CASE g.existing = 0
    BY <2>1, FreeFacts
  <2>2. CASE g.existing # 0
    <3>1. /\ f.pc = "retire" /\ f.existing = g.existing
          /\ f.contractType = g.contractType
      BY <1>1, <2>2 DEF DeployFrame
    <3>2. g.existing \in 1..Len(contracts)
      BY <1>1, <2>2 DEF FrameGood
    <3>3. f.existing \in 1..n /\ n > f.existing
      BY <1>1, <3>1, <3>2
    <3> HIDE DEF f
    <3> QED
      BY <1>5, <1>6, <3>1, <3>3 DEF FrameGood
  <2> QED
    BY <2>1, <2>2
<1> HIDE DEF f, new
<1>9. /\ deployment' \in [Deployment -> DeployFrame \cup {NoDeployment}]
      /\ deployment'[d] = f
      /\ \A e \in Deployment \ {d} : deployment'[e] = deployment[e]
  BY <1>3, <1>7 DEF TableInv
<1>10. ASSUME NEW e \in Deployment PROVE FrameGood(deployment'[e], contracts')
  <2>1. CASE e = d
    BY <1>8, <1>9, <2>1
  <2>2. CASE e # d
    <3> DEFINE h == deployment[e]
    <3>1. FrameGood(h, contracts) /\ deployment'[e] = h
      BY <1>9, <2>2 DEF TableInv
    <3>2. \A x \in 0..Len(contracts) : x \in 0..n
      BY <1>1
    <3>3. FrameGood(h, contracts')
      BY <1>5, <1>6, <3>1, <3>2 DEF FrameGood
    <3> QED
      BY <3>1, <3>3
  <2> QED
    BY <2>1, <2>2
<1>11. NewestIsActive'
  <2> SUFFICES ASSUME NEW t \in ContractType, NEW i \in Newest(t)'
               PROVE  \/ contracts'[i].isActive
                      \/ i \in orphaned' \cup retyped'
                      \/ \E e \in Deployment :
                           Deploying(e, "save")' /\ deployment'[e].active = i
    BY DEF NewestIsActive
  <2>1. /\ i \in 1..n /\ contracts'[i].contractType = t
        /\ \A j \in 1..n : contracts'[j].contractType = t => j <= i
    BY <1>5 DEF Newest, Registered
  <2>2. CASE i = n
    BY <1>6, <2>2
  <2>3. CASE i # n
    <3>1. i \in 1..Len(contracts) /\ t # g.contractType
      BY <1>1, <1>6, <2>1, <2>3
    <3>2. i \in Newest(t)
      BY <1>6, <2>1, <3>1 DEF Newest, Registered, TableInv
    <3>3. ASSUME NEW e \in Deployment, Deploying(e, "save"),
                 deployment[e].active = i
          PROVE  Deploying(e, "save")' /\ deployment'[e].active = i
      <4>1. e # d
        BY <1>1, <2>1, <1>6, <3>1, <3>3 DEF FrameGood
      <4> QED
        BY <1>9, <3>3, <4>1 DEF Deploying
    <3>4. \/ contracts[i].isActive
          \/ i \in orphaned \cup retyped
          \/ \E e \in Deployment : Deploying(e, "save") /\ deployment[e].active = i
      BY <3>2 DEF TableInv, NewestIsActive
    <3> QED
      BY <1>6, <3>1, <3>3, <3>4 DEF SaveContract
  <2> QED
    BY <2>2, <2>3
<1>12. TableInv'
  BY <1>5, <1>9, <1>10, <1>11 DEF TableInv
<1> QED
  BY <1>5, <1>6, <1>12

\* The row retired has a later one of the type of the request: it is not the
\* newest, or of another type.
LEMMA RetireKeeps ==
  ASSUME TableInv, NEW d \in Deployment, Retire(d)
  PROVE  /\ TableInv' /\ SameRows(contracts, contracts')
         /\ \A i \in 1..Len(contracts) :
              contracts'[i].lastProcessedLedger = contracts[i].lastProcessedLedger
<1> DEFINE g == deployment[d]
           f == [g EXCEPT !.pc = "relink"]
<1>1. /\ g \in DeployFrame /\ g.pc = "retire" /\ FrameGood(g, contracts)
      /\ contracts \in Seq(ContractRow)
  BY FreeFacts DEF Retire, Retires, Deploying, TableInv
<1>2. /\ g.existing \in 1..Len(contracts)
      /\ \E j \in 1..Len(contracts) : /\ j > g.existing
                                      /\ contracts[j].contractType = g.contractType
  BY <1>1 DEF FrameGood
<1>3. PICK keep \in BOOLEAN :
        contracts' = Touch([i \in Registered |->
          IF i \in {g.existing} THEN [contracts[i] EXCEPT !.isActive = keep]
          ELSE contracts[i]], {g.existing})
  BY DEF Retire, Retires
<1> DEFINE mid == [i \in Registered |->
                     IF i \in {g.existing}
                       THEN [contracts[i] EXCEPT !.isActive = keep]
                     ELSE contracts[i]]
<1>4. /\ Registered = 1..Len(contracts) /\ Len(contracts) \in Nat
      /\ \A i \in 1..Len(contracts) : contracts[i] \in ContractRow
  BY <1>1 DEF Registered
<1>5. \A i \in 1..Len(contracts) :
        /\ mid[i] \in ContractRow
        /\ mid[i].contractType = contracts[i].contractType
        /\ mid[i].contractId = contracts[i].contractId
        /\ mid[i].lastProcessedLedger = contracts[i].lastProcessedLedger
        /\ i # g.existing => mid[i].isActive = contracts[i].isActive
  BY <1>4 DEF ContractRow
<1>6. mid \in [1..Len(contracts) -> ContractRow]
  BY <1>4, <1>5, Zenon
<1>7. mid \in Seq(ContractRow) /\ Len(mid) = Len(contracts)
  BY <1>4, <1>6
<1>8. contracts' = Touch(mid, {g.existing})
  BY <1>3
<1> HIDE DEF mid
<1>9. /\ SameRows(mid, contracts')
      /\ \A i \in 1..Len(contracts) :
           /\ contracts'[i].isActive = mid[i].isActive
           /\ contracts'[i].lastProcessedLedger = mid[i].lastProcessedLedger
  BY <1>7, <1>8, TouchFacts
<1>10. SameRows(contracts, contracts')
  BY <1>5, <1>7, <1>9 DEF SameRows
<1>11. f \in DeployFrame /\ f.pc = "relink" /\ FrameGood(f, contracts')
  BY <1>1 DEF DeployFrame, FrameGood
<1>12. /\ deployment' = [deployment EXCEPT ![d] = f] /\ UNCHANGED orphaned
       /\ ~Deploying(d, "save") /\ retyped \subseteq retyped'
       /\ contracts[g.existing].contractType # g.contractType =>
            g.existing \in retyped'
  BY DEF Retire, Retires, Deploying
<1> HIDE DEF f
<1>13. ASSUME NEW t \in ContractType, NEW i \in Newest(t), i = g.existing
       PROVE  i \in retyped'
  <2>1. PICK j \in 1..Len(contracts) : j > i /\ contracts[j].contractType = g.contractType
    BY <1>2, <1>13
  <2>2. contracts[i].contractType = t /\ i \in 1..Len(contracts)
    BY <1>4 DEF Newest
  <2>3. t # g.contractType
    <3>1. \A k \in 1..Len(contracts) : contracts[k].contractType = t => k <= i
      BY <1>4 DEF Newest
    <3>2. i \in Nat /\ j \in Nat
      BY <2>1, <2>2
    <3> QED
      BY <2>1, <3>1, <3>2
  <2> QED
    BY <1>12, <1>13, <2>2, <2>3
<1>14. Accounts(d, f)
  <2>1. \A i \in 1..Len(contracts) \ {g.existing} :
          contracts[i].isActive => contracts'[i].isActive
    BY <1>5, <1>9
  <2>2. \A t \in ContractType : Newest(t) \subseteq 1..Len(contracts)
    BY <1>10, SameNewest
  <2> QED
    BY <1>12, <1>13, <2>1, <2>2 DEF Accounts
<1>15. TableInv'
  BY <1>10, <1>11, <1>12, <1>14, DeployStepKeeps
<1> QED
  BY <1>5, <1>9, <1>10, <1>15

LEMMA RelinkKeeps ==
  ASSUME TableInv, NEW d \in Deployment, Relink(d)
  PROVE  /\ TableInv' /\ SameRows(contracts, contracts')
         /\ \A i \in 1..Len(contracts) :
              contracts'[i].lastProcessedLedger = contracts[i].lastProcessedLedger
<1>1. contracts \in Seq(ContractRow) /\ contracts' = Touch(contracts, OfId(deployment[d].contractId))
  BY DEF Relink, TableInv
<1>2. /\ SameRows(contracts, contracts')
      /\ \A i \in 1..Len(contracts) :
           /\ contracts'[i].isActive = contracts[i].isActive
           /\ contracts'[i].lastProcessedLedger = contracts[i].lastProcessedLedger
  BY <1>1, TouchFacts
<1>3. /\ deployment' = [deployment EXCEPT ![d] = NoDeployment]
      /\ FrameGood(NoDeployment, contracts') /\ ~Deploying(d, "save")
      /\ UNCHANGED <<orphaned, retyped>>
  BY FreeFacts DEF Relink, Deploying
<1>4. Accounts(d, NoDeployment)
  BY <1>2, <1>3, SameNewest DEF Accounts
<1>5. TableInv'
  BY <1>2, <1>3, <1>4, DeployStepKeeps
<1> QED
  BY <1>2, <1>5

LEMMA DeployFailsKeeps ==
  ASSUME TableInv, NEW d \in Deployment, DeployFails(d)
  PROVE  TableInv'
<1>1. /\ deployment' = [deployment EXCEPT ![d] = NoDeployment]
      /\ FrameGood(NoDeployment, contracts) /\ UNCHANGED <<contracts, retyped>>
      /\ orphaned \subseteq orphaned'
      /\ Deploying(d, "save") => deployment[d].active \in orphaned' \cup {0}
  BY FreeFacts DEF DeployFails
<1> QED
  BY <1>1, DeployMovesKeeps

-----------------------------------------------------------------------------
(* The events.                                                             *)

\* Downward counting from n turns the least number into the greatest.
LEMMA Greatest ==
  ASSUME NEW n \in Nat, NEW S \in SUBSET (1..n), S # {}
  PROVE  \E m \in S : \A i \in S : i <= m
<1> DEFINE T == {n - i : i \in S}
<1>1. T \subseteq Nat /\ T # {}
  <2>1. \A i \in S : n - i \in Nat
    OBVIOUS
  <2>2. PICK i \in S : TRUE
    OBVIOUS
  <2>3. n - i \in T
    OBVIOUS
  <2> QED
    BY <2>1, <2>3
<1>2. PICK x \in T : \A y \in T : ~(<<y, x>> \in OpToRel(<, Nat))
  BY <1>1, WFMin, NatLessThanWellFounded
<1>3. \A y \in T : ~(y < x)
  BY <1>1, <1>2 DEF OpToRel
<1>4. PICK m \in S : x = n - m
  OBVIOUS
<1>5. \A i \in S : i <= m
  <2> SUFFICES ASSUME NEW i \in S PROVE i <= m
    OBVIOUS
  <2>1. n - i \in T /\ i \in Nat /\ m \in Nat
    OBVIOUS
  <2>2. ~(n - i < n - m)
    BY <1>3, <1>4, <2>1
  <2> QED
    BY <2>1, <2>2
<1> QED
  BY <1>5

Dealt == emitted \cup gone

Event == [contractId : ContractId, ledger : 1..MaxEventLedger]

\* A ledger of a contract below which no event of it is added any more, and
\* all are dealt with.
Settled(c, l) ==
  /\ l = 0 \/ \E i \in ChainEvent : chain[i].contractId = c /\ chain[i].ledger = l
  /\ UpTo(c, l) \subseteq Dealt

ChainGood ==
  /\ chain \in Seq(Event) /\ Len(chain) <= MaxEvents
  /\ \A i, j \in ChainEvent :
       i < j /\ chain[i].contractId = chain[j].contractId =>
         chain[i].ledger <= chain[j].ledger

PollGood(f) ==
  /\ f.pc = "fetch" =>
       f.start = f.from \/ (f.from = 0 /\ Settled(f.contractId, f.start))
  /\ f.pc = "persist" =>
       /\ f.page # {}
       /\ \A i \in f.page : i \in ChainEvent /\ chain[i].contractId = f.contractId
       /\ \A j \in f.page, i \in ChainEvent :
            i < j /\ chain[i].contractId = f.contractId =>
              i \in f.page \cup Dealt \/ chain[i].ledger <= f.from

RowSettled(i) ==
  Settled(contracts[i].contractId, contracts[i].lastProcessedLedger)

EntitySettled(d) ==
  Settled(contracts[deployment[d].active].contractId, deployment[d].ledger)

\* The cursors in the table, and those deployments will write into it.
CursorsGood ==
  /\ \A i \in 1..Len(contracts) : RowSettled(i)
  /\ \A d \in Deployment : Deploying(d, "deactivate") => EntitySettled(d)

EventInv ==
  /\ ChainGood /\ CursorsGood
  /\ listening \in [ContractType -> Nat]
  /\ poll \in [Poll -> PollFrame]
  /\ \A p \in Poll : PollGood(poll[p])

LEMMA ChainFacts ==
  ASSUME ChainGood
  PROVE  /\ ChainEvent = 1..Len(chain) /\ ChainEvent \subseteq 1..MaxEvents
         /\ \A i \in ChainEvent : /\ i \in Nat /\ chain[i].contractId \in ContractId
                                  /\ chain[i].ledger \in 1..MaxEventLedger
                                  /\ chain[i].ledger \in Nat /\ chain[i].ledger > 0
<1>1. ChainEvent = 1..Len(chain) /\ Len(chain) \in Nat
  BY DEF ChainGood, ChainEvent
<1>2. \A i \in ChainEvent : chain[i] \in Event
  BY <1>1 DEF ChainGood
<1>3. ChainEvent \subseteq 1..MaxEvents
  BY <1>1, EventAssumption DEF ChainGood
<1>4. \A i \in ChainEvent : /\ i \in Nat /\ chain[i].contractId \in ContractId
                            /\ chain[i].ledger \in 1..MaxEventLedger
  BY <1>1, <1>2 DEF Event
<1> QED
  BY <1>1, <1>3, <1>4, EventAssumption

LEMMA FreePoll ==
  /\ NoPoll \in PollFrame /\ NoPoll.pc = "free" /\ PollGood(NoPoll)
BY DEF NoPoll, PollFrame, PollGood

LEMMA PollTypes ==
  ASSUME NEW f \in PollFrame
  PROVE  /\ f.pc = "resolve" => f \in ResolveFrame
         /\ f.pc = "fetch" => f \in FetchFrame
         /\ f.pc = "persist" => f \in PersistFrame
BY DEF PollFrame, ResolveFrame, FetchFrame, PersistFrame, NoPoll

\* Null is settled.
LEMMA SettledZero ==
  ASSUME ChainGood, NEW c
  PROVE  Settled(c, 0)
<1>1. UpTo(c, 0) = {}
  BY ChainFacts DEF UpTo
<1> QED
  BY <1>1 DEF Settled

\* What has been dealt with stays so, and what is settled with it.
LEMMA SettledStays ==
  ASSUME NEW c, NEW l, Settled(c, l), UNCHANGED chain, Dealt \subseteq Dealt'
  PROVE  Settled(c, l)'
BY DEF Settled, ChainEvent, UpTo

LEMMA PollStays ==
  ASSUME NEW f, PollGood(f), UNCHANGED chain, Dealt \subseteq Dealt'
  PROVE  PollGood(f)'
<1>1. f.pc = "fetch" => (f.start = f.from \/ (f.from = 0 /\ Settled(f.contractId, f.start)))'
  BY SettledStays DEF PollGood
<1>2. ChainEvent' = ChainEvent
  BY DEF ChainEvent
<1> QED
  BY <1>1, <1>2 DEF PollGood

-----------------------------------------------------------------------------
(* The network.                                                            *)

\* A ledger that closes is beyond all that is settled of its contract.
LEMMA EventsHappenKeeps ==
  ASSUME TableInv, EventInv, NEW c \in EventContract, EventsHappen(c),
         DeploymentsRest
  PROVE  EventInv'
<1>1. PICK l \in 1..MaxEventLedger, n \in 1..MaxEvents :
        /\ Beyond(c, l - 1) = {} /\ Len(chain) < n
        /\ chain' = [i \in 1..n |-> IF i \in ChainEvent THEN chain[i]
                                    ELSE [contractId |-> c, ledger |-> l]]
  BY DEF EventsHappen
<1> DEFINE k == Len(chain)
<1>2. ChainEvent = 1..k /\ k \in Nat /\ ChainEvent \subseteq 1..n /\ n \in Nat
  BY <1>1, ChainFacts, EventAssumption DEF EventInv, ChainGood
<1>3. [contractId |-> c, ledger |-> l] \in Event /\ l \in Nat
  BY EventAssumption DEF Event
<1>4. \A i \in ChainEvent : /\ chain[i] \in Event /\ chain[i].ledger \in Nat
                            /\ chain[i].ledger > 0
  BY <1>2, ChainFacts DEF EventInv, ChainGood
<1>5. /\ chain' \in [1..n -> Event] /\ ChainEvent' = 1..n
      /\ \A i \in ChainEvent : chain'[i] = chain[i]
      /\ \A i \in ChainEvent' \ ChainEvent :
           /\ chain'[i].contractId = c /\ chain'[i].ledger = l
           /\ \A j \in ChainEvent : j < i
  BY <1>1, <1>2, <1>3, <1>4 DEF ChainEvent
<1>6. \A i \in ChainEvent : chain[i].contractId = c => chain[i].ledger < l
  BY <1>1, <1>3, <1>4 DEF Beyond
<1> HIDE DEF k
<1>7. ChainGood'
  <2>1. chain' \in Seq(Event) /\ Len(chain') = n /\ n <= MaxEvents
    BY <1>2, <1>5, EventAssumption
  <2>2. ASSUME NEW i \in ChainEvent', NEW j \in ChainEvent', i < j,
               chain'[i].contractId = chain'[j].contractId
        PROVE  chain'[i].ledger <= chain'[j].ledger
    <3>1. CASE i \in ChainEvent /\ j \in ChainEvent
      BY <1>5, <2>2, <3>1 DEF EventInv, ChainGood
    <3>2. CASE i \in ChainEvent /\ j \notin ChainEvent
      BY <1>3, <1>4, <1>5, <1>6, <2>2, <3>2
    <3>3. CASE i \notin ChainEvent
      BY <1>2, <1>3, <1>5, <2>2, <3>3
    <3> QED
      BY <3>1, <3>2, <3>3
  <2> QED
    BY <2>1, <2>2 DEF ChainGood
<1>8. /\ Dealt' = Dealt /\ UNCHANGED <<contracts, deployment, poll, listening>>
  BY DEF EventsHappen, Dealt, DeploymentsRest
<1>9. ASSUME NEW a, NEW x, Settled(a, x) PROVE Settled(a, x)'
  <2>1. x = 0 \/ \E i \in ChainEvent' : chain'[i].contractId = a /\ chain'[i].ledger = x
    BY <1>2, <1>5, <1>9 DEF Settled
  <2>2. x \in Nat /\ (a = c => x < l)
    BY <1>3, <1>4, <1>6, <1>9 DEF Settled
  <2>3. UpTo(a, x)' \subseteq UpTo(a, x)
    BY <1>3, <1>5, <2>2 DEF UpTo
  <2> QED
    BY <1>8, <1>9, <2>1, <2>3 DEF Settled
<1>10. ASSUME NEW p \in Poll PROVE PollGood(poll[p])'
  <2> DEFINE f == poll[p]
  <2>1. PollGood(f) /\ poll'[p] = f
    BY <1>8 DEF EventInv
  <2>2. ASSUME f.pc = "persist", NEW j \in f.page, NEW i \in ChainEvent',
               i < j, chain'[i].contractId = f.contractId
        PROVE  i \in f.page \cup Dealt' \/ chain'[i].ledger <= f.from
    <3>1. j \in ChainEvent
      BY <2>1, <2>2 DEF PollGood
    <3>2. i \in ChainEvent
      BY <1>2, <1>5, <2>2, <3>1
    <3> QED
      BY <1>5, <1>8, <2>1, <2>2, <3>2 DEF PollGood
  <2>3. f.pc = "persist" =>
          /\ f.page # {}
          /\ \A i \in f.page : i \in ChainEvent' /\ chain'[i].contractId = f.contractId
    BY <1>2, <1>5, <2>1 DEF PollGood
  <2>4. f.pc = "fetch" =>
          f.start = f.from \/ (f.from = 0 /\ Settled(f.contractId, f.start)')
    BY <1>9, <2>1 DEF PollGood
  <2> HIDE DEF f
  <2> QED
    BY <1>8, <2>1, <2>2, <2>3, <2>4 DEF PollGood, f
<1>11. CursorsGood'
  <2>1. ASSUME NEW i \in 1..Len(contracts) PROVE RowSettled(i)'
    <3>1. RowSettled(i)
      BY DEF EventInv, CursorsGood
    <3> QED
      BY <1>8, <1>9, <3>1 DEF RowSettled
  <2>2. ASSUME NEW d \in Deployment, Deploying(d, "deactivate")
        PROVE  EntitySettled(d)'
    <3>1. EntitySettled(d)
      BY <2>2 DEF EventInv, CursorsGood
    <3> QED
      BY <1>8, <1>9, <3>1 DEF EntitySettled
  <2> QED
    BY <1>8, <2>1, <2>2 DEF CursorsGood, Deploying
<1> QED
  BY <1>7, <1>8, <1>10, <1>11 DEF EventInv

-----------------------------------------------------------------------------
(* The steps of a poll.                                                    *)

\* Cursors that are of before, or settled, after a step of the listeners.
LEMMA CursorsStay ==
  ASSUME CursorsGood, UNCHANGED chain, Dealt \subseteq Dealt', DeploymentsRest,
         SameRows(contracts, contracts'), TableInv,
         \A i \in 1..Len(contracts) :
           \/ contracts'[i].lastProcessedLedger = contracts[i].lastProcessedLedger
           \/ RowSettled(i)'
  PROVE  CursorsGood'
<1>1. ASSUME NEW i \in 1..Len(contracts),
             contracts'[i].lastProcessedLedger = contracts[i].lastProcessedLedger
      PROVE  RowSettled(i)'
  <2>1. PICK c, l : c = contracts[i].contractId /\ l = contracts[i].lastProcessedLedger
    OBVIOUS
  <2>2. c = contracts'[i].contractId /\ l = contracts'[i].lastProcessedLedger
    BY <1>1, <2>1 DEF SameRows
  <2>3. Settled(c, l)
    BY <2>1 DEF CursorsGood, RowSettled
  <2>4. Settled(c, l)'
    BY <2>3, SettledStays
  <2> QED
    BY <2>2, <2>4 DEF RowSettled
<1>2. ASSUME NEW d \in Deployment, Deploying(d, "deactivate")
      PROVE  EntitySettled(d)'
  <2>1. deployment[d].active \in 1..Len(contracts)
    BY <1>2 DEF TableInv, FrameGood, Deploying
  <2>2. PICK c, l : /\ c = contracts[deployment[d].active].contractId
                    /\ l = deployment[d].ledger
    OBVIOUS
  <2>3. /\ c = contracts'[deployment'[d].active].contractId
        /\ l = deployment'[d].ledger
    BY <2>1, <2>2 DEF SameRows, DeploymentsRest
  <2>4. Settled(c, l)
    BY <1>2, <2>2 DEF CursorsGood, EntitySettled
  <2>5. Settled(c, l)'
    BY <2>4, SettledStays
  <2> QED
    BY <2>3, <2>5 DEF EntitySettled
<1>3. Len(contracts') = Len(contracts) /\ deployment' = deployment
  BY DEF SameRows, DeploymentsRest
<1>4. \A d \in Deployment : Deploying(d, "deactivate")' => EntitySettled(d)'
  BY <1>2, <1>3 DEF Deploying
<1>5. \A i \in 1..Len(contracts') : RowSettled(i)'
  BY <1>1, <1>3
<1> QED
  BY <1>4, <1>5 DEF CursorsGood

\* A poll moves on, to what is good, and little else changes.
LEMMA PollStepKeeps ==
  ASSUME TableInv, EventInv, NEW p \in Poll, NEW f \in PollFrame, PollGood(f),
         poll' = [poll EXCEPT ![p] = f], UNCHANGED <<chain, listening>>,
         Dealt \subseteq Dealt', CursorsGood'
  PROVE  EventInv'
<1>1. /\ poll' \in [Poll -> PollFrame] /\ poll'[p] = f
      /\ \A q \in Poll \ {p} : poll'[q] = poll[q]
  BY DEF EventInv
<1>2. ASSUME NEW q \in Poll PROVE PollGood(poll[q])'
  <2>1. PICK h : h = poll'[q]
    OBVIOUS
  <2>2. PollGood(h)
    BY <1>1, <2>1 DEF EventInv
  <2>3. PollGood(h)'
    BY <2>2, PollStays
  <2> QED
    BY <2>1, <2>3
<1>3. ChainGood'
  BY DEF EventInv, ChainGood, ChainEvent
<1> QED
  BY <1>1, <1>2, <1>3 DEF EventInv

LEMMA PollMovesKeeps ==
  ASSUME TableInv, EventInv, NEW p \in Poll, NEW f \in PollFrame, PollGood(f),
         poll' = [poll EXCEPT ![p] = f],
         UNCHANGED <<contracts, chain, listening, emitted, gone>>, DeploymentsRest
  PROVE  EventInv'
<1>1. Dealt \subseteq Dealt' /\ SameRows(contracts, contracts')
  BY DEF Dealt, SameRows, TableInv
<1>2. CursorsGood'
  BY <1>1, CursorsStay DEF EventInv
<1> QED
  BY <1>1, <1>2, PollStepKeeps

LEMMA PollBeginsKeeps ==
  ASSUME TableInv, EventInv, NEW p \in Poll, NEW t \in ContractType,
         PollBegins(p, t), DeploymentsRest
  PROVE  EventInv'
<1> DEFINE f == [pc |-> "resolve", contractType |-> t, from |-> listening[t] - 1]
<1>1. listening[t] - 1 \in Nat
  BY DEF PollBegins, EventInv
<1>2. f \in PollFrame /\ PollGood(f)
  BY <1>1 DEF PollFrame, ResolveFrame, PollGood
<1> HIDE DEF f
<1> QED
  BY <1>2, PollMovesKeeps DEF PollBegins, f

\* What a poll resolves is a contract and a settled cursor of it.
LEMMA ResolvedFacts ==
  ASSUME TableInv, EventInv, NEW t \in ContractType, NEW r \in Resolved(t)
  PROVE  /\ r.contractId \in ContractId /\ r.ledger \in Nat
         /\ Settled(r.contractId, r.ledger)
<1>1. CASE \E i \in Active(t) : r = [contractId |-> contracts[i].contractId,
                                     ledger |-> contracts[i].lastProcessedLedger]
  <2>1. PICK i \in 1..Len(contracts) :
          r = [contractId |-> contracts[i].contractId,
               ledger |-> contracts[i].lastProcessedLedger]
    BY <1>1 DEF Active, Registered, TableInv
  <2>2. contracts[i] \in ContractRow
    BY DEF TableInv
  <2>3. /\ r.contractId = contracts[i].contractId
        /\ r.ledger = contracts[i].lastProcessedLedger
    BY <2>1
  <2>4. Settled(contracts[i].contractId, contracts[i].lastProcessedLedger)
    BY DEF EventInv, CursorsGood, RowSettled
  <2> QED
    BY <2>2, <2>3, <2>4 DEF ContractRow
<1>2. CASE \E c \in Configured[t] : r = [contractId |-> c, ledger |-> 0]
  <2>1. PICK c \in Configured[t] : r = [contractId |-> c, ledger |-> 0]
    BY <1>2
  <2>2. c \in ContractId /\ r.contractId = c /\ r.ledger = 0
    BY <2>1, EventAssumption
  <2>3. Settled(c, 0)
    BY SettledZero DEF EventInv
  <2> QED
    BY <2>2, <2>3
<1> QED
  BY <1>1, <1>2 DEF Resolved

LEMMA PollResolvesKeeps ==
  ASSUME TableInv, EventInv, NEW p \in Poll, PollResolves(p), DeploymentsRest
  PROVE  EventInv'
<1>1. /\ poll[p] \in ResolveFrame /\ poll[p].from \in Nat
      /\ poll[p].contractType \in ContractType
  BY PollTypes DEF PollResolves, EventInv, ResolveFrame
<1>2. CASE poll' = [poll EXCEPT ![p] = NoPoll]
  BY <1>2, FreePoll, PollMovesKeeps DEF PollResolves
<1>3. ASSUME NEW r \in Resolved(poll[p].contractType),
             Fetches(p, r.contractId,
                     IF poll[p].from > 0 THEN poll[p].from ELSE r.ledger)
      PROVE  EventInv'
  <2> DEFINE start == IF poll[p].from > 0 THEN poll[p].from ELSE r.ledger
             f == [pc |-> "fetch", from |-> poll[p].from,
                   contractId |-> r.contractId, start |-> start]
  <2>1. /\ r.contractId \in ContractId /\ r.ledger \in Nat
        /\ Settled(r.contractId, r.ledger)
    BY <1>1, ResolvedFacts
  <2>2. /\ start \in Nat
        /\ start = poll[p].from
           \/ (poll[p].from = 0 /\ Settled(r.contractId, start))
    BY <1>1, <2>1
  <2>3. poll' = [poll EXCEPT ![p] = f]
    BY <1>3 DEF Fetches
  <2> HIDE DEF start
  <2>4. /\ f \in PollFrame /\ f.pc = "fetch" /\ f.from = poll[p].from
        /\ f.contractId = r.contractId /\ f.start = start
    BY <1>1, <2>1, <2>2 DEF PollFrame, FetchFrame
  <2> HIDE DEF f
  <2>5. PollGood(f)
    BY <2>2, <2>4 DEF PollGood
  <2> QED
    BY <2>3, <2>4, <2>5, PollMovesKeeps DEF PollResolves
<1> QED
  BY <1>2, <1>3 DEF PollResolves

\* A page is the first events after the start: it leaves none out before one
\* that it has.
LEMMA PageIsFirst ==
  ASSUME ChainGood, NEW c, NEW l \in Nat, NEW j \in Page(c, l),
         NEW i \in Beyond(c, l), i < j
  PROVE  i \in Page(c, l)
<1> DEFINE I == {k \in Beyond(c, l) : k < i}
           J == {k \in Beyond(c, l) : k < j}
<1>1. j \in Beyond(c, l) /\ l > 0 /\ Cardinality(J) < PageLimit
  BY DEF Page
<1>2. I \subseteq J /\ J \subseteq 1..MaxEvents
  <2>1. Beyond(c, l) \subseteq ChainEvent /\ ChainEvent \subseteq 1..MaxEvents
    BY ChainFacts DEF Beyond
  <2>2. i \in 1..MaxEvents /\ j \in 1..MaxEvents
    BY <1>1, <2>1
  <2>3. \A k \in 1..MaxEvents : k < i => k < j
    BY <2>2, EventAssumption
  <2> QED
    BY <2>1, <2>3
<1>3. IsFiniteSet(J)
  <2>1. IsFiniteSet(1..MaxEvents)
    BY FS_Interval, EventAssumption
  <2> QED
    BY <1>2, <2>1, FS_Subset
<1>4. Cardinality(I) <= Cardinality(J) /\ Cardinality(I) \in Nat /\ Cardinality(J) \in Nat
  BY <1>2, <1>3, FS_Subset, FS_CardinalityType
<1> QED
  BY <1>1, <1>4, EventAssumption DEF Page

LEMMA PollFetchesKeeps ==
  ASSUME TableInv, EventInv, NEW p \in Poll, PollFetches(p), DeploymentsRest
  PROVE  EventInv'
<1> DEFINE g == poll[p]
           page == Page(g.contractId, g.start)
           f == [pc |-> "persist", from |-> g.from, contractId |-> g.contractId,
                 page |-> page]
<1>1. /\ g \in FetchFrame /\ g.pc = "fetch" /\ PollGood(g) /\ ChainGood
      /\ g.from \in Nat /\ g.start \in Nat /\ g.contractId \in ContractId
  BY PollTypes DEF PollFetches, EventInv, FetchFrame
<1>2. CASE page = {}
  BY <1>2, FreePoll, PollMovesKeeps DEF PollFetches
<1>3. CASE page # {}
  <2>1. poll' = [poll EXCEPT ![p] = f]
    BY <1>3 DEF PollFetches
  <2>2. \A i \in page : /\ i \in ChainEvent /\ i \in 1..MaxEvents
                        /\ chain[i].contractId = g.contractId
    BY <1>1, ChainFacts DEF Page, Beyond
  <2>3. ASSUME NEW j \in page, NEW i \in ChainEvent, i < j,
               chain[i].contractId = g.contractId
        PROVE  i \in page \cup Dealt \/ chain[i].ledger <= g.from
    <3>1. CASE chain[i].ledger > g.start
      <4>1. i \in Beyond(g.contractId, g.start)
        BY <2>3, <3>1 DEF Beyond
      <4> QED
        BY <1>1, <2>3, <4>1, PageIsFirst
    <3>2. CASE chain[i].ledger <= g.start
      BY <1>1, <2>3, <3>2 DEF PollGood, Settled, UpTo
    <3>3. chain[i].ledger \in Nat
      BY <1>1, ChainFacts
    <3> QED
      BY <1>1, <3>1, <3>2, <3>3
  <2> HIDE DEF page, g
  <2>4. /\ f \in PollFrame /\ f.pc = "persist" /\ f.page = page
        /\ f.from = g.from /\ f.contractId = g.contractId
    BY <1>1, <2>2 DEF PollFrame, PersistFrame
  <2> HIDE DEF f
  <2>5. PollGood(f)
    BY <1>3, <2>2, <2>3, <2>4 DEF PollGood
  <2> QED
    BY <2>1, <2>4, <2>5, PollMovesKeeps DEF PollFetches
<1> QED
  BY <1>2, <1>3

\* The ledger of the last event of a page, and what is at or below it.
LEMMA PersistFacts ==
  ASSUME EventInv, NEW p \in Poll, poll[p].pc = "persist",
         NEW l, l = LastLedger(poll[p])
  PROVE  /\ l \in Nat /\ poll[p].contractId \in ContractId
         /\ \E i \in ChainEvent : /\ chain[i].contractId = poll[p].contractId
                                  /\ chain[i].ledger = l
         /\ UpTo(poll[p].contractId, l)
              \subseteq Dealt \cup poll[p].page \cup Cut(poll[p], l)
<1> DEFINE f == poll[p]
<1>1. /\ f \in PersistFrame /\ f.pc = "persist" /\ PollGood(f) /\ ChainGood
      /\ f.contractId \in ContractId /\ f.from \in Nat
  BY PollTypes DEF EventInv, PersistFrame
<1> HIDE DEF f
<1>2. /\ f.page # {}
      /\ \A i \in f.page : i \in ChainEvent /\ chain[i].contractId = f.contractId
      /\ \A j \in f.page, i \in ChainEvent :
           i < j /\ chain[i].contractId = f.contractId =>
             i \in f.page \cup Dealt \/ chain[i].ledger <= f.from
  BY <1>1 DEF PollGood
<1>3. f.page \subseteq 1..MaxEvents
  BY <1>1, <1>2, ChainFacts
<1>4. PICK m \in f.page : \A i \in f.page : i <= m
  BY <1>2, <1>3, Greatest, EventAssumption
<1>5. m \in ChainEvent /\ chain[m].contractId = f.contractId /\ m \in Nat
  BY <1>1, <1>2, ChainFacts
<1>6. \A i \in f.page : chain[i].ledger <= chain[m].ledger
  <2> SUFFICES ASSUME NEW i \in f.page PROVE chain[i].ledger <= chain[m].ledger
    OBVIOUS
  <2>1. /\ i \in ChainEvent /\ i \in Nat /\ chain[i].contractId = f.contractId
        /\ chain[i].ledger \in Nat
    BY <1>1, <1>2, ChainFacts
  <2>2. CASE i = m
    BY <2>1, <2>2
  <2>3. CASE i < m
    BY <1>1, <1>5, <2>1, <2>3 DEF ChainGood
  <2> QED
    BY <1>4, <1>5, <2>1, <2>2, <2>3
<1>7. chain[m].ledger \in 1..MaxEventLedger
  BY <1>1, <1>5, ChainFacts
<1>8. l \in 1..MaxEventLedger /\ \E i \in f.page : chain[i].ledger = l
  BY <1>6, <1>7 DEF LastLedger, f
<1>9. ASSUME NEW i \in UpTo(f.contractId, l)
      PROVE  i \in Dealt \cup f.page \cup Cut(f, l)
  <2>1. i \in ChainEvent /\ chain[i].contractId = f.contractId /\ i \in Nat
    BY <1>1, ChainFacts DEF UpTo
  <2>2. CASE i < m
    <3>1. CASE chain[i].ledger <= f.from
      BY <2>1, <3>1 DEF Cut, UpTo
    <3> QED
      BY <1>2, <2>1, <2>2, <3>1
  <2>3. CASE i = m
    BY <2>3
  <2>4. CASE i > m
    <3>1. i \notin f.page
      BY <1>4, <1>5, <2>1, <2>4
    <3> QED
      BY <1>9, <2>4, <3>1 DEF Cut
  <2> QED
    BY <1>5, <2>1, <2>2, <2>3, <2>4
<1> QED
  BY <1>1, <1>2, <1>8, <1>9, EventAssumption DEF f

\* The cursor is all that changes, in every row of the contract.
LEMMA WriteCursorFacts ==
  ASSUME contracts \in Seq(ContractRow), NEW f, NEW l \in Nat, WriteCursor(f, l)
  PROVE  /\ SameRows(contracts, contracts')
         /\ \A i \in 1..Len(contracts) :
              /\ contracts'[i].isActive = contracts[i].isActive
              /\ contracts'[i].lastProcessedLedger =
                   IF contracts[i].contractId = f.contractId THEN l
                   ELSE contracts[i].lastProcessedLedger
<1> DEFINE S == OfId(f.contractId)
           mid == [i \in Registered |->
                     IF i \in S THEN [contracts[i] EXCEPT !.lastProcessedLedger = l]
                     ELSE contracts[i]]
<1>1. Registered = 1..Len(contracts) /\ Len(contracts) \in Nat
  BY DEF Registered
<1>2. \A i \in 1..Len(contracts) :
        /\ contracts[i] \in ContractRow
        /\ i \in S <=> contracts[i].contractId = f.contractId
  BY <1>1 DEF OfId
<1> HIDE DEF S
<1>3. \A i \in 1..Len(contracts) :
        /\ mid[i] \in ContractRow
        /\ mid[i].contractType = contracts[i].contractType
        /\ mid[i].contractId = contracts[i].contractId
        /\ mid[i].isActive = contracts[i].isActive
        /\ mid[i].lastProcessedLedger =
             IF i \in S THEN l ELSE contracts[i].lastProcessedLedger
  BY <1>1, <1>2 DEF ContractRow
<1>4. mid \in [1..Len(contracts) -> ContractRow]
  BY <1>1, <1>3, Zenon
<1>5. mid \in Seq(ContractRow) /\ Len(mid) = Len(contracts)
  BY <1>1, <1>4
<1>6. contracts' = Touch(mid, S)
  BY DEF WriteCursor, S
<1> HIDE DEF mid
<1>7. /\ SameRows(mid, contracts')
      /\ \A i \in 1..Len(contracts) :
           /\ contracts'[i].isActive = mid[i].isActive
           /\ contracts'[i].lastProcessedLedger = mid[i].lastProcessedLedger
  BY <1>5, <1>6, TouchFacts
<1>8. SameRows(contracts, contracts')
  BY <1>3, <1>5, <1>7 DEF SameRows
<1> QED
  BY <1>2, <1>3, <1>7, <1>8

\* The deployments do not see cursors.
LEMMA TableStays ==
  ASSUME TableInv, SameRows(contracts, contracts'), DeploymentsRest,
         \A i \in 1..Len(contracts) : contracts'[i].isActive = contracts[i].isActive
  PROVE  TableInv'
<1>1. /\ deployment' = deployment /\ orphaned' = orphaned /\ retyped' = retyped
      /\ contracts \in Seq(ContractRow) /\ contracts' \in Seq(ContractRow)
  BY DEF DeploymentsRest, TableInv, SameRows
<1>2. \A d \in Deployment : FrameGood(deployment[d], contracts')
  BY <1>1, FrameStays DEF TableInv
<1>3. \A t \in ContractType : /\ Newest(t)' = Newest(t)
                              /\ Newest(t) \subseteq 1..Len(contracts)
  BY SameNewest
<1>4. NewestIsActive'
  BY <1>1, <1>3 DEF TableInv, NewestIsActive, Deploying
<1> QED
  BY <1>1, <1>2, <1>4 DEF TableInv

\* The cursor is written, and its page emitted or gone.
LEMMA CursorWrittenKeeps ==
  ASSUME TableInv, EventInv, NEW p \in Poll, poll[p].pc = "persist",
         WriteCursor(poll[p], LastLedger(poll[p])), DeploymentsRest,
         Dealt' = Dealt \cup poll[p].page \cup Cut(poll[p], LastLedger(poll[p])),
         poll' = [poll EXCEPT ![p] = NoPoll], UNCHANGED <<chain, listening>>
  PROVE  TableInv' /\ EventInv'
<1>1. PICK l : l = LastLedger(poll[p])
  OBVIOUS
<1>2. PICK c : c = poll[p].contractId
  OBVIOUS
<1>3. /\ l \in Nat
      /\ \E i \in ChainEvent : chain[i].contractId = c /\ chain[i].ledger = l
      /\ UpTo(c, l) \subseteq Dealt'
  BY <1>1, <1>2, PersistFacts
<1>4. Settled(c, l)'
  BY <1>3 DEF Settled, UpTo, ChainEvent
<1>5. /\ SameRows(contracts, contracts')
      /\ \A i \in 1..Len(contracts) :
           /\ contracts'[i].isActive = contracts[i].isActive
           /\ contracts'[i].lastProcessedLedger =
                IF contracts[i].contractId = c THEN l
                ELSE contracts[i].lastProcessedLedger
  BY <1>1, <1>2, <1>3, WriteCursorFacts DEF TableInv
<1>6. ASSUME NEW i \in 1..Len(contracts), contracts[i].contractId = c
      PROVE  RowSettled(i)'
  <2>1. contracts'[i].contractId = c /\ contracts'[i].lastProcessedLedger = l
    BY <1>5, <1>6 DEF SameRows
  <2> QED
    BY <1>4, <2>1 DEF RowSettled
<1>7. Dealt \subseteq Dealt'
  OBVIOUS
<1>8. CursorsGood'
  BY <1>5, <1>6, <1>7, CursorsStay DEF EventInv
<1> QED
  BY <1>5, <1>7, <1>8, FreePoll, PollStepKeeps, TableStays

LEMMA PollPersistsKeeps ==
  ASSUME TableInv, EventInv, NEW p \in Poll, PollPersists(p), DeploymentsRest
  PROVE  TableInv' /\ EventInv'
<1>1. Dealt' = Dealt \cup poll[p].page \cup Cut(poll[p], LastLedger(poll[p]))
  BY DEF PollPersists, Dealt
<1> QED
  BY <1>1, CursorWrittenKeeps DEF PollPersists

LEMMA RowsRest ==
  ASSUME TableInv, UNCHANGED contracts, DeploymentsRest
  PROVE  TableInv'
<1>1. SameRows(contracts, contracts')
  BY DEF SameRows, TableInv
<1> QED
  BY <1>1, TableStays

LEMMA PollFailsKeeps ==
  ASSUME TableInv, EventInv, NEW p \in Poll, PollFails(p), DeploymentsRest
  PROVE  TableInv' /\ EventInv'
<1>1. CASE UNCHANGED <<contracts, gone>>
  BY <1>1, FreePoll, PollMovesKeeps, RowsRest DEF PollFails
<1>2. CASE /\ poll[p].pc = "persist" /\ WriteCursor(poll[p], LastLedger(poll[p]))
           /\ gone' = gone \cup Cut(poll[p], LastLedger(poll[p]))
                           \cup poll[p].page
  <2>1. Dealt' = Dealt \cup poll[p].page \cup Cut(poll[p], LastLedger(poll[p]))
    BY <1>2 DEF PollFails, Dealt
  <2> QED
    BY <1>2, <2>1, CursorWrittenKeeps DEF PollFails
<1> QED
  BY <1>1, <1>2 DEF PollFails

\* Listeners that start, stop or end with the process.
LEMMA ListenersKeep ==
  ASSUME TableInv, EventInv, DeploymentsRest,
         UNCHANGED <<contracts, chain, emitted, gone>>,
         listening' \in [ContractType -> Nat],
         poll' \in {poll, [p \in Poll |-> NoPoll]}
  PROVE  EventInv'
<1>1. Dealt \subseteq Dealt' /\ SameRows(contracts, contracts')
  BY DEF Dealt, SameRows, TableInv
<1>2. CursorsGood'
  BY <1>1, CursorsStay DEF EventInv
<1>3. poll' \in [Poll -> PollFrame] /\ \A p \in Poll : poll'[p] \in {poll[p], NoPoll}
  BY FreePoll DEF EventInv
<1>4. ASSUME NEW p \in Poll PROVE PollGood(poll[p])'
  <2>1. PICK h : h = poll'[p]
    OBVIOUS
  <2>2. PollGood(h)
    BY <1>3, <2>1, FreePoll DEF EventInv
  <2>3. PollGood(h)'
    BY <1>1, <2>2, PollStays
  <2> QED
    BY <2>1, <2>3
<1>5. ChainGood'
  BY DEF EventInv, ChainGood, ChainEvent
<1> QED
  BY <1>2, <1>3, <1>4, <1>5 DEF EventInv

LEMMA ListenerStepKeeps ==
  ASSUME TableInv, EventInv, ListenerNext, DeploymentsRest
  PROVE  TableInv' /\ EventInv'
<1>1. CASE ListenerStops
  <2>1. listening' \in [ContractType -> Nat]
    BY <1>1 DEF ListenerStops
  <2> QED
    BY <1>1, <2>1, ListenersKeep, RowsRest DEF ListenerStops
<1>2. ASSUME NEW c \in EventContract, EventsHappen(c) PROVE TableInv' /\ EventInv'
  BY <1>2, EventsHappenKeeps, RowsRest DEF EventsHappen
<1>3. ASSUME NEW q \in Request, ListenToEvents(q[1], q[2])
      PROVE  TableInv' /\ EventInv'
  <2>1. q[2] + 1 \in Nat
    BY EventAssumption
  <2>2. listening' \in [ContractType -> Nat]
    BY <1>3, <2>1 DEF ListenToEvents, EventInv
  <2> QED
    BY <1>3, <2>2, ListenersKeep, RowsRest DEF ListenToEvents
<1>4. ASSUME NEW t \in ContractType, StopEventListener(t)
      PROVE  TableInv' /\ EventInv'
  <2>1. listening' \in [ContractType -> Nat]
    BY <1>4 DEF StopEventListener, EventInv
  <2> QED
    BY <1>4, <2>1, ListenersKeep, RowsRest DEF StopEventListener
<1>5. ASSUME NEW p \in Poll, PollGoesOn(p) PROVE TableInv' /\ EventInv'
  <2>1. CASE PollResolves(p)
    BY <2>1, PollResolvesKeeps, RowsRest DEF PollResolves
  <2>2. CASE PollFetches(p)
    BY <2>2, PollFetchesKeeps, RowsRest DEF PollFetches
  <2>3. CASE PollPersists(p)
    BY <2>3, PollPersistsKeeps
  <2> QED
    BY <1>5, <2>1, <2>2, <2>3 DEF PollGoesOn
<1>6. ASSUME NEW p \in Poll, PollFails(p) PROVE TableInv' /\ EventInv'
  BY <1>6, PollFailsKeeps
<1>7. ASSUME NEW p \in Poll, NEW t \in ContractType, PollBegins(p, t)
      PROVE  TableInv' /\ EventInv'
  BY <1>7, PollBeginsKeeps, RowsRest DEF PollBegins
<1> QED
  BY <1>1, <1>2, <1>3, <1>4, <1>5, <1>6, <1>7 DEF ListenerNext

-----------------------------------------------------------------------------
(* The steps of a deployment, for the events.                              *)

\* A deployment changes no cursor but that of the row it deactivates.
LEMMA DeployEventsKeep ==
  ASSUME TableInv, EventInv, UNCHANGED listenerVars, CursorsGood'
  PROVE  EventInv'
<1>1. /\ Dealt \subseteq Dealt'
      /\ UNCHANGED <<chain, listening, poll, emitted, gone>>
  BY DEF listenerVars, Dealt
<1>2. ASSUME NEW p \in Poll PROVE PollGood(poll[p])'
  <2>1. PICK h : h = poll[p]
    OBVIOUS
  <2>2. PollGood(h)'
    BY <1>1, <2>1, PollStays DEF EventInv
  <2> QED
    BY <1>1, <2>1, <2>2
<1>3. ChainGood'
  BY <1>1 DEF EventInv, ChainGood, ChainEvent
<1> QED
  BY <1>1, <1>2, <1>3 DEF EventInv

LEMMA DeployCursorsKeep ==
  ASSUME TableInv, EventInv, UNCHANGED listenerVars, NEW d \in Deployment, NEW f,
         deployment' = [deployment EXCEPT ![d] = f],
         f.pc = "deactivate" => EntitySettled(d)',
         \A i \in 1..Len(contracts) : contracts'[i].contractId = contracts[i].contractId,
         \A i \in 1..Len(contracts') :
           \/ /\ i \in 1..Len(contracts)
              /\ contracts'[i].lastProcessedLedger = contracts[i].lastProcessedLedger
           \/ RowSettled(i)'
  PROVE  EventInv'
<1>1. UNCHANGED chain /\ Dealt \subseteq Dealt'
  BY DEF listenerVars, Dealt
<1>2. /\ deployment'[d] = f
      /\ \A e \in Deployment \ {d} : deployment'[e] = deployment[e]
  BY DEF TableInv
<1>3. ASSUME NEW i \in 1..Len(contracts') PROVE RowSettled(i)'
  <2>1. CASE /\ i \in 1..Len(contracts)
             /\ contracts'[i].lastProcessedLedger = contracts[i].lastProcessedLedger
    <3>1. PICK c, l : /\ c = contracts[i].contractId
                      /\ l = contracts[i].lastProcessedLedger
      OBVIOUS
    <3>2. c = contracts'[i].contractId /\ l = contracts'[i].lastProcessedLedger
      BY <2>1, <3>1
    <3>3. Settled(c, l)
      BY <2>1, <3>1 DEF EventInv, CursorsGood, RowSettled
    <3>4. Settled(c, l)'
      BY <1>1, <3>3, SettledStays
    <3> QED
      BY <3>2, <3>4 DEF RowSettled
  <2> QED
    BY <2>1
<1>4. ASSUME NEW e \in Deployment, Deploying(e, "deactivate")' PROVE EntitySettled(e)'
  <2>1. CASE e = d
    BY <1>2, <1>4, <2>1 DEF Deploying
  <2>2. CASE e # d
    <3>1. deployment'[e] = deployment[e] /\ Deploying(e, "deactivate")
      BY <1>2, <1>4, <2>2 DEF Deploying
    <3>2. deployment[e].active \in 1..Len(contracts)
      BY <3>1 DEF TableInv, FrameGood, Deploying
    <3>3. PICK c, l : /\ c = contracts[deployment[e].active].contractId
                      /\ l = deployment[e].ledger
      OBVIOUS
    <3>4. /\ c = contracts'[deployment'[e].active].contractId
          /\ l = deployment'[e].ledger
      BY <3>1, <3>2, <3>3
    <3>5. Settled(c, l)
      BY <3>1, <3>3 DEF EventInv, CursorsGood, EntitySettled
    <3>6. Settled(c, l)'
      BY <1>1, <3>5, SettledStays
    <3> QED
      BY <3>4, <3>6 DEF EntitySettled
  <2> QED
    BY <2>1, <2>2
<1>5. CursorsGood'
  BY <1>3, <1>4 DEF CursorsGood
<1> QED
  BY <1>5, DeployEventsKeep

\* A step that changes no row, and does not read one to deactivate.
LEMMA RowsAloneKeep ==
  ASSUME TableInv, EventInv, UNCHANGED listenerVars, UNCHANGED contracts,
         NEW d \in Deployment, NEW f, f.pc # "deactivate",
         deployment' = [deployment EXCEPT ![d] = f]
  PROVE  EventInv'
BY DeployCursorsKeep

LEMMA FindActiveEvents ==
  ASSUME TableInv, EventInv, UNCHANGED listenerVars, NEW d \in Deployment,
         FindActive(d)
  PROVE  EventInv'
<1> DEFINE g == deployment[d]
<1>1. g \in DeployFrame /\ deployment \in [Deployment -> DeployFrame \cup {NoDeployment}]
  BY FreeFacts DEF FindActive, Deploying, TableInv
<1>2. ASSUME NEW i \in Active(g.contractType),
             deployment' = [deployment EXCEPT ![d] =
               [g EXCEPT !.pc = "deactivate", !.active = i,
                         !.ledger = contracts[i].lastProcessedLedger]]
      PROVE  EventInv'
  <2> DEFINE f == [g EXCEPT !.pc = "deactivate", !.active = i,
                            !.ledger = contracts[i].lastProcessedLedger]
  <2>1. i \in 1..Len(contracts)
    BY DEF Active, Registered, TableInv
  <2>2. f.active = i /\ f.ledger = contracts[i].lastProcessedLedger
    BY <1>1 DEF DeployFrame
  <2> HIDE DEF f
  <2>3. deployment' = [deployment EXCEPT ![d] = f] /\ deployment'[d] = f
    BY <1>1, <1>2 DEF f
  <2>4. UNCHANGED <<contracts, chain>> /\ Dealt \subseteq Dealt'
    BY DEF FindActive, listenerVars, Dealt
  <2>5. PICK c, l : /\ c = contracts[i].contractId
                    /\ l = contracts[i].lastProcessedLedger
    OBVIOUS
  <2>6. Settled(c, l)'
    <3>1. Settled(c, l)
      BY <2>1, <2>5 DEF EventInv, CursorsGood, RowSettled
    <3> QED
      BY <2>4, <3>1, SettledStays
  <2>7. c = contracts'[deployment'[d].active].contractId /\ l = deployment'[d].ledger
    BY <2>2, <2>3, <2>4, <2>5
  <2>8. EntitySettled(d)'
    BY <2>6, <2>7 DEF EntitySettled
  <2> QED
    BY <2>3, <2>4, <2>8, DeployCursorsKeep
<1>3. ASSUME deployment' = [deployment EXCEPT ![d].pc = "save"]
      PROVE  EventInv'
  <2> DEFINE f == [g EXCEPT !.pc = "save"]
  <2>1. f.pc = "save" /\ deployment' = [deployment EXCEPT ![d] = f]
    BY <1>1, <1>3 DEF DeployFrame
  <2> HIDE DEF f
  <2> QED
    BY <2>1, RowsAloneKeep DEF FindActive
<1> QED
  BY <1>2, <1>3 DEF FindActive

LEMMA DeactivateEvents ==
  ASSUME TableInv, EventInv, UNCHANGED listenerVars, NEW d \in Deployment,
         Deactivate(d)
  PROVE  EventInv'
<1> DEFINE g == deployment[d]
           f == [g EXCEPT !.pc = "save"]
<1>1. /\ g \in DeployFrame /\ Deploying(d, "deactivate")
      /\ deployment' = [deployment EXCEPT ![d] = f]
  BY FreeFacts DEF Deactivate, Deploying, TableInv
<1>2. f.pc = "save"
  BY <1>1 DEF DeployFrame
<1>3. /\ SameRows(contracts, contracts') /\ g.active \in 1..Len(contracts)
      /\ \A i \in 1..Len(contracts) :
           contracts'[i].lastProcessedLedger =
             IF i = g.active THEN g.ledger ELSE contracts[i].lastProcessedLedger
  BY DeactivateKeeps
<1>4. PICK c, l : c = contracts[g.active].contractId /\ l = g.ledger
  OBVIOUS
<1>5. c = contracts'[g.active].contractId /\ l = contracts'[g.active].lastProcessedLedger
  BY <1>3, <1>4 DEF SameRows
<1>6. Settled(c, l)'
  <2>1. Settled(c, l)
    BY <1>1, <1>4 DEF EventInv, CursorsGood, EntitySettled
  <2>2. UNCHANGED chain /\ Dealt \subseteq Dealt'
    BY DEF listenerVars, Dealt
  <2> QED
    BY <2>1, <2>2, SettledStays
<1>7. \A i \in 1..Len(contracts) : i = g.active => RowSettled(i)'
  <2>1. ASSUME NEW i, i = g.active PROVE RowSettled(i)'
    BY <1>5, <1>6, <2>1 DEF RowSettled
  <2> QED
    BY <2>1
<1> HIDE DEF f
<1> QED
  BY <1>1, <1>2, <1>3, <1>7, DeployCursorsKeep DEF SameRows

LEMMA SaveContractEvents ==
  ASSUME TableInv, EventInv, UNCHANGED listenerVars, NEW d \in Deployment,
         SaveContract(d)
  PROVE  EventInv'
<1> DEFINE g == deployment[d]
           f == IF g.existing = 0 THEN NoDeployment ELSE [g EXCEPT !.pc = "retire"]
<1>0. PICK n : n = Len(contracts) + 1
  OBVIOUS
<1>1. g \in DeployFrame /\ deployment' = [deployment EXCEPT ![d] = f]
  BY FreeFacts DEF SaveContract, Deploying, TableInv
<1>2. f.pc # "deactivate"
  BY <1>1, FreeFacts DEF DeployFrame
<1>3. /\ Len(contracts') = n /\ contracts'[n].lastProcessedLedger = 0
      /\ \A i \in 1..Len(contracts) :
           /\ contracts'[i].contractId = contracts[i].contractId
           /\ contracts'[i].lastProcessedLedger = contracts[i].lastProcessedLedger
  BY <1>0, SaveContractKeeps
<1>4. RowSettled(n)'
  <2>1. ChainGood'
    BY DEF EventInv, ChainGood, ChainEvent, listenerVars
  <2>2. \A c : Settled(c, 0)'
    <3>1. \A c : UpTo(c, 0)' = {}
      <4>1. \A i \in ChainEvent' : chain'[i].ledger > 0 /\ chain'[i].ledger \in Nat
        <5>1. \A i \in ChainEvent : chain[i].ledger > 0 /\ chain[i].ledger \in Nat
          BY ChainFacts DEF EventInv
        <5> QED
          BY <5>1 DEF listenerVars, ChainEvent
      <4> QED
        BY <4>1 DEF UpTo
    <3> QED
      BY <3>1 DEF Settled
  <2>3. PICK c, l : /\ c = contracts'[n].contractId
                    /\ l = contracts'[n].lastProcessedLedger
    OBVIOUS
  <2>4. Settled(c, l)'
    BY <1>3, <2>2, <2>3
  <2> QED
    BY <2>3, <2>4 DEF RowSettled
<1>5. \A i \in 1..Len(contracts') :
        i \in 1..Len(contracts) \/ i = n
  BY <1>0, <1>3 DEF TableInv
<1> HIDE DEF f
<1> QED
  BY <1>1, <1>2, <1>3, <1>4, <1>5, DeployCursorsKeep

\* The last two statements of an upgrade.
LEMMA UpgradeEndsEvents ==
  ASSUME TableInv, EventInv, UNCHANGED listenerVars, NEW d \in Deployment,
         Retire(d) \/ Relink(d)
  PROVE  EventInv'
<1> DEFINE g == deployment[d]
<1>1. /\ SameRows(contracts, contracts')
      /\ \A i \in 1..Len(contracts) :
           contracts'[i].lastProcessedLedger = contracts[i].lastProcessedLedger
  BY RetireKeeps, RelinkKeeps
<1>2. g \in DeployFrame
  BY FreeFacts DEF Retire, Retires, Relink, Deploying, TableInv
<1>3. PICK h : /\ h.pc # "deactivate"
               /\ deployment' = [deployment EXCEPT ![d] = h]
  <2>1. CASE Retire(d)
    <3> DEFINE h == [g EXCEPT !.pc = "relink"]
    <3>1. h.pc # "deactivate" /\ deployment' = [deployment EXCEPT ![d] = h]
      BY <1>2, <2>1 DEF DeployFrame, Retire, Retires
    <3> HIDE DEF h
    <3> QED
      BY <3>1
  <2>2. CASE Relink(d)
    BY <2>2, FreeFacts DEF Relink
  <2> QED
    BY <2>1, <2>2
<1> QED
  BY <1>1, <1>3, DeployCursorsKeep DEF SameRows

LEMMA RegistryStepKeeps ==
  ASSUME TableInv, EventInv, RegistryNext, UNCHANGED listenerVars
  PROVE  TableInv' /\ EventInv'
<1>1. ASSUME NEW d \in Deployment, NEW q \in DeployRequest,
             \/ DeployContract(d, q[1], q[2])
             \/ \E i \in Registered : UpgradeContract(d, i, q[1], q[2])
      PROVE  TableInv' /\ EventInv'
  <2>1. \E i : /\ deployment' = [deployment EXCEPT ![d] = NewDeployment(q[1], q[2], i)]
               /\ UNCHANGED contracts
    BY <1>1 DEF DeployContract, UpgradeContract
  <2>2. \A i : NewDeployment(q[1], q[2], i).pc # "deactivate"
    BY DEF NewDeployment
  <2> QED
    BY <1>1, <2>1, <2>2, DeployBeginsKeeps, RowsAloneKeep
<1>2. ASSUME NEW d \in Deployment, FindActive(d) PROVE TableInv' /\ EventInv'
  BY <1>2, FindActiveKeeps, FindActiveEvents
<1>3. ASSUME NEW d \in Deployment, Deactivate(d) PROVE TableInv' /\ EventInv'
  BY <1>3, DeactivateKeeps, DeactivateEvents
<1>4. ASSUME NEW d \in Deployment, SaveContract(d) PROVE TableInv' /\ EventInv'
  BY <1>4, SaveContractKeeps, SaveContractEvents
<1>5. ASSUME NEW d \in Deployment, Retire(d) \/ Relink(d) PROVE TableInv' /\ EventInv'
  BY <1>5, RetireKeeps, RelinkKeeps, UpgradeEndsEvents
<1>6. ASSUME NEW d \in Deployment, DeployFails(d) PROVE TableInv' /\ EventInv'
  <2>1. deployment' = [deployment EXCEPT ![d] = NoDeployment] /\ UNCHANGED contracts
    BY <1>6 DEF DeployFails
  <2> QED
    BY <1>6, <2>1, FreeFacts, DeployFailsKeeps, RowsAloneKeep
<1> QED
  BY <1>1, <1>2, <1>3, <1>4, <1>5, <1>6 DEF RegistryNext

-----------------------------------------------------------------------------
LEMMA ContractInitInv == ContractInit => TableInv /\ EventInv
<1> SUFFICES ASSUME ContractInit PROVE TableInv /\ EventInv
  OBVIOUS
<1>1. /\ contracts = <<>> /\ contracts \in Seq(ContractRow)
      /\ \A d \in Deployment : deployment[d] = NoDeployment
      /\ deployment \in [Deployment -> DeployFrame \cup {NoDeployment}]
  BY DEF ContractInit, RegistryInit
<1>2. TableInv
  BY <1>1, FreeFacts DEF TableInv, NewestIsActive, Newest, Registered
<1>3. ChainGood /\ ChainEvent = {}
  BY EventAssumption DEF ContractInit, ListenerInit, ChainGood, ChainEvent
<1>4. CursorsGood
  BY <1>1, FreeFacts DEF CursorsGood, Deploying
<1> QED
  BY <1>2, <1>3, <1>4, FreePoll DEF EventInv, ContractInit, ListenerInit

LEMMA ContractStepInv ==
  TableInv /\ EventInv /\ [ContractNext]_contractVars => TableInv' /\ EventInv'
<1> SUFFICES ASSUME TableInv, EventInv, [ContractNext]_contractVars
             PROVE  TableInv' /\ EventInv'
  OBVIOUS
<1>1. CASE UNCHANGED contractVars
  <2>1. UNCHANGED contracts /\ DeploymentsRest /\ UNCHANGED listenerVars
    BY <1>1 DEF contractVars, registryVars, DeploymentsRest
  <2>2. listening' \in [ContractType -> Nat] /\ poll' = poll
    BY <2>1 DEF listenerVars, EventInv
  <2> QED
    BY <2>1, <2>2, ListenersKeep, RowsRest DEF listenerVars
<1> QED
  BY <1>1, RegistryStepKeeps, ListenerStepKeeps DEF ContractNext

(* Every event at or below a cursor is emitted, or known to be gone, in    *)
(* the table that deployments and polls write together.                    *)
THEOREM CursorSkipsNone == ContractSpec => []EventsKept
<1>1. TableInv /\ EventInv => EventsKept
  BY DEF TableInv, EventInv, CursorsGood, RowSettled, Settled, Dealt, EventsKept, Registered
<1> QED
  BY <1>1, ContractInitInv, ContractStepInv, PTL DEF ContractSpec

(* The contract of a type that was registered last is active, however      *)
(* deployments, upgrades to any type and polls overlap, but for rows that  *)
(* a failed deployment or an upgrade to another type left inactive.        *)
THEOREM LastIsActive == ContractSpec => []NewestIsActive
<1>1. TableInv => NewestIsActive
  BY DEF TableInv
<1> QED
  BY <1>1, ContractInitInv, ContractStepInv, PTL DEF ContractSpec
=============================================================================
