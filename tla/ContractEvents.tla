--------------------------- MODULE ContractEvents ---------------------------
(***************************************************************************)
(* The event listeners of ContractService                                  *)
(* (src/src/contracts/contract.service.ts), one for each type: an interval *)
(* that does not wait for its own polls, a cursor in the rows of the table *)
(* contracts, which deployments and upgrades change meanwhile, and a page  *)
(* of at most 100 events.  The events are numbered; chain says of which    *)
(* contract each one is, and in which ledger.                              *)
(***************************************************************************)
EXTENDS ContractRegistry

CONSTANTS Configured,      \* the contract of a type in the configuration
          Request,         \* what clients listen to: types, each with a
                           \* startLedger or 0 for none (a bound)
          EventContract,   \* contracts that have events (a bound)
          Poll,            \* polls in progress (a bound)
          PageLimit,       \* events of one page: 100
          MaxEvents,       \* events of the network (a bound)
          MaxEventLedger,  \* ledgers of the network (a bound)
          MaxPollFaults    \* failing calls and stops (a bound)

\* Configured[t] is empty where the environment names no contract.
ASSUME EventAssumption ==
  /\ Configured \in [ContractType -> SUBSET ContractId]
  /\ Request \subseteq ContractType \X Nat /\ EventContract \subseteq ContractId
  /\ PageLimit \in Nat \ {0}
  /\ MaxEvents \in Nat /\ MaxEventLedger \in Nat /\ MaxPollFaults \in Nat

VARIABLES
  chain,        \* events so far, those of a contract in their order
  listening,    \* startLedger + 1 of the listeners whose interval runs, or 0
  poll,         \* polls between two awaits
  emitted,      \* events given to the subscribers
  gone,         \* events lost with the process, left out by a client or cut
  pollFaults

listenerVars == <<chain, listening, poll, emitted, gone, pollFaults>>

contractVars == <<registryVars, listenerVars>>

-----------------------------------------------------------------------------
ChainEvent == DOMAIN chain

\* The events of a contract after a ledger.
Beyond(c, l) == {i \in ChainEvent : chain[i].contractId = c /\ chain[i].ledger > l}

UpTo(c, l) == {i \in ChainEvent : chain[i].contractId = c /\ chain[i].ledger <= l}

\* from: the startLedger of the request, 0 if it has none; contractId and
\* start: what this poll has resolved; page: what it was answered.
ResolveFrame == [pc : {"resolve"}, contractType : ContractType, from : Nat]

FetchFrame == [pc : {"fetch"}, from : Nat, contractId : ContractId, start : Nat]

PersistFrame == [pc : {"persist"}, from : Nat, contractId : ContractId,
                 page : SUBSET (1..MaxEvents)]

NoPoll == [pc |-> "free"]

PollFrame == ResolveFrame \cup FetchFrame \cup PersistFrame \cup {NoPoll}

ListenerInit ==
  /\ chain = <<>>
  /\ listening = [t \in ContractType |-> 0]
  /\ poll = [p \in Poll |-> NoPoll]
  /\ emitted = {} /\ gone = {} /\ pollFaults = 0

PollFault == pollFaults < MaxPollFaults /\ pollFaults' = pollFaults + 1

\* External: a ledger closes, with some events of a contract.
EventsHappen(c) ==
  /\ \E l \in 1..MaxEventLedger, n \in 1..MaxEvents :
       /\ Beyond(c, l - 1) = {} /\ Len(chain) < n
       /\ chain' = [i \in 1..n |-> IF i \in ChainEvent THEN chain[i]
                                   ELSE [contractId |-> c, ledger |-> l]]
  /\ UNCHANGED <<contracts, listening, poll, emitted, gone, pollFaults>>

\* The metadata of the type must have been resolved: now, or within the
\* lifetime of the cache.  A listener that runs is left as it is.
ListenToEvents(t, from) ==
  /\ \/ Configured[t] # {}
     \/ \E i \in Registered : contracts[i].contractType = t
  /\ listening[t] = 0
  /\ listening' = [listening EXCEPT ![t] = from + 1]
  /\ UNCHANGED <<contracts, chain, poll, emitted, gone, pollFaults>>

\* Polls that have begun go on.
StopEventListener(t) ==
  /\ listening[t] > 0
  /\ listening' = [listening EXCEPT ![t] = 0]
  /\ UNCHANGED <<contracts, chain, poll, emitted, gone, pollFaults>>

\* The interval fires: the first free slot is taken.
PollBegins(p, t) ==
  /\ listening[t] > 0 /\ poll[p].pc = "free"
  /\ p = CHOOSE q \in Poll : poll[q].pc = "free"
  /\ poll' = [poll EXCEPT ![p] = [pc |-> "resolve", contractType |-> t,
                                  from |-> listening[t] - 1]]
  /\ UNCHANGED <<contracts, chain, listening, emitted, gone, pollFaults>>

\* resolveContractMetadata: the latest active row of the type, else the
\* contract of the configuration, which has no cursor.
Resolved(t) ==
  LET rows == {contracts[i] : i \in Active(t)}
      latest == {r \in rows : \A q \in rows : q.updatedAt <= r.updatedAt}
  IN IF rows = {} THEN {[contractId |-> c, ledger |-> 0] : c \in Configured[t]}
     ELSE {[contractId |-> r.contractId, ledger |-> r.lastProcessedLedger] :
             r \in latest}

Fetches(p, c, start) ==
  poll' = [poll EXCEPT ![p] =
    [pc |-> "fetch", from |-> poll[p].from, contractId |-> c, start |-> start]]

\* Mutant: the cursor is not looked at.
ResolvesRequest(p) ==
  /\ poll[p].pc = "resolve"
  /\ \E r \in Resolved(poll[p].contractType) :
       Fetches(p, r.contractId, poll[p].from)
  /\ UNCHANGED <<contracts, chain, listening, emitted, gone, pollFaults>>

\* A startLedger of the request goes before the cursor; a type that is
\* nowhere ends the poll.
PollResolves(p) ==
  LET f == poll[p]  found == Resolved(f.contractType) IN
  /\ f.pc = "resolve"
  /\ \/ \E r \in found :
          Fetches(p, r.contractId, IF f.from > 0 THEN f.from ELSE r.ledger)
     \/ found = {} /\ poll' = [poll EXCEPT ![p] = NoPoll]
  /\ UNCHANGED <<contracts, chain, listening, emitted, gone, pollFaults>>

\* External: getEvents answers the first PageLimit events after a ledger; it
\* refuses a request without a startLedger, which the code makes of 0.
Page(c, l) ==
  {i \in Beyond(c, l) :
     l > 0 /\ Cardinality({j \in Beyond(c, l) : j < i}) < PageLimit}

\* No event, or an error: the poll is over.
PollFetches(p) ==
  LET f == poll[p]  page == Page(f.contractId, f.start) IN
  /\ f.pc = "fetch"
  /\ poll' = [poll EXCEPT ![p] =
       IF page = {} THEN NoPoll
       ELSE [pc |-> "persist", from |-> f.from, contractId |-> f.contractId,
             page |-> page]]
  /\ UNCHANGED <<contracts, chain, listening, emitted, gone, pollFaults>>

\* Mutant: the ledger after the last event.
LastLedgerNext(f) ==
  CHOOSE l \in 1 .. MaxEventLedger + 1 :
    /\ \E i \in f.page : chain[i].ledger + 1 = l
    /\ \A i \in f.page : chain[i].ledger < l

LastLedger(f) ==
  CHOOSE l \in 1..MaxEventLedger :
    /\ \E i \in f.page : chain[i].ledger = l
    /\ \A i \in f.page : chain[i].ledger <= l

\* What a cursor at last passes over: events of a page that was cut within
\* its last ledger, and those the client asked to leave out.
Cut(f, last) ==
  {i \in UpTo(f.contractId, last) \ f.page : \E j \in f.page : j < i}
  \cup UpTo(f.contractId, f.from)

\* persistLedgerCursor: every row of the contract, whatever its type.
WriteCursor(f, last) ==
  contracts' = Touch([i \in Registered |->
    IF i \in OfId(f.contractId)
      THEN [contracts[i] EXCEPT !.lastProcessedLedger = last]
      ELSE contracts[i]], OfId(f.contractId))

\* The events are emitted before the next await.
PollPersists(p) ==
  LET f == poll[p]  last == LastLedger(f) IN
  /\ f.pc = "persist"
  /\ WriteCursor(f, last)
  /\ gone' = gone \cup Cut(f, last)
  /\ emitted' = emitted \cup f.page
  /\ poll' = [poll EXCEPT ![p] = NoPoll]
  /\ UNCHANGED <<chain, listening, pollFaults>>

\* A call fails, or the UPDATE is made and its answer lost.
PollFails(p) ==
  LET f == poll[p]  last == LastLedger(f) IN
  /\ f.pc # "free" /\ PollFault
  /\ \/ UNCHANGED <<contracts, gone>>
     \/ /\ f.pc = "persist"
        /\ WriteCursor(f, last)
        /\ gone' = gone \cup Cut(f, last) \cup f.page
  /\ poll' = [poll EXCEPT ![p] = NoPoll]
  /\ UNCHANGED <<chain, listening, emitted>>

\* The process ends; nobody starts its listeners again but its clients.
ListenerStops ==
  /\ PollFault
  /\ listening' = [t \in ContractType |-> 0]
  /\ poll' = [p \in Poll |-> NoPoll]
  /\ UNCHANGED <<contracts, chain, emitted, gone>>

PollGoesOn(p) == PollResolves(p) \/ PollFetches(p) \/ PollPersists(p)

ListenerNext ==
  \/ ListenerStops
  \/ \E c \in EventContract : EventsHappen(c)
  \/ \E q \in Request : ListenToEvents(q[1], q[2])
  \/ \E t \in ContractType : StopEventListener(t)
  \/ \E p \in Poll :
       \/ PollGoesOn(p) \/ PollFails(p)
       \/ \E t \in ContractType : PollBegins(p, t)

ContractInit == RegistryInit /\ ListenerInit

DeploymentsRest == UNCHANGED <<deployment, orphaned, retyped, deployFaults>>

ContractNext ==
  \/ RegistryNext /\ UNCHANGED listenerVars
  \/ ListenerNext /\ DeploymentsRest

\* The intervals fire and their calls return.
ContractFairness ==
  /\ \A t \in ContractType :
       WF_contractVars(\E p \in Poll : PollBegins(p, t) /\ DeploymentsRest)
  /\ \A p \in Poll : WF_contractVars(PollGoesOn(p) /\ DeploymentsRest)

ContractSpec == ContractInit /\ [][ContractNext]_contractVars /\ ContractFairness

-----------------------------------------------------------------------------
(* An event at or below the cursor of its contract, in any row, has been   *)
(* emitted, unless it is gone: cut off by a page, left out by a client's   *)
(* startLedger, or lost between an UPDATE and its answer.  Polls that      *)
(* overlap, and set the cursor back, lose none; nor does a deployment that *)
(* saves an old cursor with the entity it deactivates.                     *)
EventsKept ==
  \A r \in Registered :
    UpTo(contracts[r].contractId, contracts[r].lastProcessedLedger)
      \subseteq emitted \cup gone

\* The listener of a type, started without a startLedger, finds a cursor of
\* contract c, and no listener that has one writes it.
Follows(t, c) ==
  /\ listening[t] = 1
  /\ \A r \in Resolved(t) : r.contractId = c /\ r.ledger > 0
  /\ Resolved(t) # {}
  /\ \A u \in ContractType : listening[u] > 1 =>
       \A r \in Resolved(u) : r.contractId # c

(* Such a listener, if it goes on and deployments leave it the contract,   *)
(* delivers every event of the contract that is not gone, however polls    *)
(* overlap and whatever cursors they write.                                *)
EventsDelivered ==
  \A c \in EventContract : <>[](\E t \in ContractType : Follows(t, c)) =>
    []<>(UpTo(c, MaxEventLedger) \subseteq emitted \cup gone)
=============================================================================
