-------------------------- MODULE LedgerSyncProofs --------------------------
(***************************************************************************)
(* The rows of sync_states never run ahead of the network, and a replica   *)
(* runs one syncLedger at a time, for any number of replicas, rows and     *)
(* handlers and any limits.  A handler writes what it has read or computed *)
(* before, so the invariant bounds all that its frame carries.             *)
(***************************************************************************)
EXTENDS LedgerSync, TLAPS

\* The steps at which a handler has a row at hand.
RowPC == {"batch", "batchCatch", "strategy", "manual", "full", "fullReset",
          "fullSave", "fullBatch", "incremental", "catchUp", "fetch",
          "checkpoint", "restored", "recovered", "recoverCatch",
          "recoverThrow", "rewind"}

\* Those of a recovery that syncLedger may have called.
InlinePC == RowPC \ {"batch", "batchCatch", "rewind"}

\* What a frame carries is no further than the network.
Good(f) ==
  /\ \A e \in Entity : f.list[e] \in Row => f.list[e].last <= ledger
  /\ f.copy \in Row => f.copy.last <= ledger
  /\ f.now <= ledger /\ f.to <= ledger
  /\ f.pc \in RowPC => f.ent \in Entity /\ f.copy \in Row
  /\ f.inline => f.pc \in InlinePC

Inv ==
  /\ TypeOK /\ NeverAhead /\ SyncExclusive
  /\ \A k \in Task : task[k] # None => Good(task[k])

Syncing(f) == f.pc \in SyncPC \/ f.inline

\* What a step keeps of the variables it does not write.
RowsKept == row' = row
Saved(e, r) == e \in Entity /\ r \in Row /\ r.last <= ledger /\ Save(e, r)

ProcessOK ==
  /\ polling \in [Server -> BOOLEAN]
  /\ errors \in [Server -> 0..StreamRetries]
  /\ isPartitioned \in [Server -> BOOLEAN]
  /\ monitoring \in [Server -> BOOLEAN]

-----------------------------------------------------------------------------
(* Helpers.                                                                *)
LEMMA BackFacts ==
  ASSUME NEW n \in Nat, NEW span \in Nat
  PROVE  Back(n, span) \in Nat /\ Back(n, span) <= n
BY DEF Back

LEMMA AskedFacts ==
  ASSUME Inv, NEW n, Asked(n)
  PROVE  n \in Nat /\ n <= ledger /\ faults' \in 0..MaxFaults
BY NumberAssumption DEF Asked, Fault, Inv, TypeOK

LEMMA FaultFacts == Inv /\ Fault => faults' \in 0..MaxFaults
BY NumberAssumption DEF Fault, Inv, TypeOK

LEMMA FaultsKept == Inv /\ UNCHANGED faults => faults' \in 0..MaxFaults
BY DEF Inv, TypeOK

LEMMA SavedFacts ==
  ASSUME Inv, RowsKept \/ \E e, r : Saved(e, r)
  PROVE  row' \in [Entity -> Row] /\ \A e \in Entity : row'[e].last <= ledger
BY DEF RowsKept, Saved, Save, Inv, TypeOK, NeverAhead

LEMMA FoundFacts ==
  ASSUME Inv, NEW S \in SUBSET Entity
  PROVE  /\ Found(S) \in List
         /\ \A e \in Entity : Found(S)[e] \in Row => Found(S)[e].last <= ledger
BY NoneAssumption DEF Found, List, Inv, TypeOK, NeverAhead

LEMMA NewFacts ==
  ASSUME Inv, NEW s \in Server,
         NEW pc \in SyncPC \cup RecoverPC \cup PartitionPC \cup {"fullSync"},
         pc \notin RowPC
  PROVE  /\ New(s, pc) \in Frame /\ Good(New(s, pc))
         /\ New(s, pc).srv = s /\ New(s, pc).pc = pc
         /\ New(s, pc).inline = FALSE /\ New(s, pc) # None
<1>1. NoList \in List /\ \A e \in Entity : NoList[e] = None
  BY DEF NoList, List
<1>2. New(s, pc) \in Frame /\ New(s, pc).srv = s /\ New(s, pc).pc = pc
      /\ New(s, pc).inline = FALSE
  BY <1>1 DEF New, Frame
<1>3. /\ New(s, pc).list = NoList /\ New(s, pc).copy = None
      /\ New(s, pc).now = 0 /\ New(s, pc).to = 0
  BY DEF New
<1>4. ledger \in Nat
  BY NumberAssumption DEF Inv, TypeOK
<1> HIDE DEF New
<1>5. Good(New(s, pc))
  BY <1>1, <1>2, <1>3, <1>4, NoneAssumption DEF Good
<1> QED
  BY <1>2, <1>5, NoneAssumption

\* What a task starts with.
LEMMA StartFacts ==
  ASSUME Inv, NEW s \in Server,
         NEW pc \in {"findAll", "validateFind", "markFind", "checkAsk",
                     "fallback", "fullSync"}
  PROVE  /\ New(s, pc) \in Frame /\ Good(New(s, pc)) /\ New(s, pc) # None
         /\ ~Syncing(New(s, pc)) /\ New(s, pc).srv = s
         /\ New(s, pc).pc = pc /\ New(s, pc).inline = FALSE
<1>1. /\ pc \in SyncPC \cup RecoverPC \cup PartitionPC \cup {"fullSync"}
      /\ pc \notin RowPC /\ pc \notin SyncPC
  BY DEF SyncPC, RecoverPC, PartitionPC, RowPC
<1>2. /\ New(s, pc) \in Frame /\ Good(New(s, pc)) /\ New(s, pc) # None
      /\ New(s, pc).srv = s
      /\ New(s, pc).pc = pc /\ New(s, pc).inline = FALSE
  BY <1>1, NewFacts
<1> QED
  BY <1>1, <1>2 DEF Syncing

LEMMA InlineFacts == InlinePC \subseteq RowPC \cap RecoverPC
BY DEF InlinePC, RowPC, RecoverPC

\* The frame of a handler that is at work.
LEMMA FrameFacts ==
  ASSUME Inv, NEW k \in Task, task[k] # None
  PROVE  /\ task[k] \in Frame /\ Good(task[k]) /\ ledger \in Nat
         /\ task[k].srv \in Server
BY NumberAssumption DEF Inv, TypeOK, Frame

-----------------------------------------------------------------------------
(* A handler goes on, begins or ends.                                      *)
LEMMA Goes ==
  ASSUME Inv, NEW k \in Task, task[k] # None,
         NEW f \in Frame, Good(f), f.srv = task[k].srv,
         Syncing(f) <=> Syncing(task[k]), Set(k, f),
         UNCHANGED <<isSyncing, ledger>>, ProcessOK', faults' \in 0..MaxFaults,
         RowsKept \/ \E e, r : Saved(e, r)
  PROVE  Inv'
<1>1. /\ task' \in [Task -> Frame \cup {None}] /\ task'[k] = f /\ f # None
      /\ \A j \in Task \ {k} : task'[j] = task[j]
  BY NoneAssumption DEF Set, Inv, TypeOK
<1>2. row' \in [Entity -> Row] /\ \A e \in Entity : row'[e].last <= ledger
  BY SavedFacts
<1>3. TypeOK'
  BY <1>1, <1>2 DEF Inv, TypeOK, ProcessOK
<1>4. NeverAhead'
  BY <1>2 DEF NeverAhead
<1>5. \A j \in Task, s \in Server : Syncs(j, s)' <=> Syncs(j, s)
  BY <1>1 DEF Syncs, Syncing
<1>6. SyncExclusive'
  BY <1>5 DEF Inv, SyncExclusive
<1>7. \A j \in Task : task'[j] # None => Good(task[j])'
  BY <1>1 DEF Inv, Good
<1> QED
  BY <1>3, <1>4, <1>6, <1>7 DEF Inv

\* One that is no syncLedger begins where there was none or one of its kind.
LEMMA Begins ==
  ASSUME Inv, NEW k \in Task, task[k] = None \/ ~Syncing(task[k]),
         NEW f, f = None \/ (f \in Frame /\ Good(f) /\ ~Syncing(f)), Set(k, f),
         UNCHANGED <<isSyncing, ledger>>, ProcessOK', faults' \in 0..MaxFaults,
         RowsKept \/ \E e, r : Saved(e, r)
  PROVE  Inv'
<1>1. /\ task' \in [Task -> Frame \cup {None}] /\ task'[k] = f
      /\ \A j \in Task \ {k} : task'[j] = task[j]
  BY DEF Set, Inv, TypeOK
<1>2. row' \in [Entity -> Row] /\ \A e \in Entity : row'[e].last <= ledger
  BY SavedFacts
<1>3. TypeOK'
  BY <1>1, <1>2 DEF Inv, TypeOK, ProcessOK
<1>4. NeverAhead'
  BY <1>2 DEF NeverAhead
<1>5. \A j \in Task, s \in Server : Syncs(j, s)' <=> Syncs(j, s)
  BY <1>1 DEF Syncs, Syncing
<1>6. SyncExclusive'
  BY <1>5 DEF Inv, SyncExclusive
<1>7. \A j \in Task : task'[j] # None => Good(task[j])'
  BY <1>1 DEF Inv, Good
<1> QED
  BY <1>3, <1>4, <1>6, <1>7 DEF Inv

\* A syncLedger ends, and lowers its flag.
LEMMA SyncEnds ==
  ASSUME Inv, NEW k \in Task, task[k] # None, Syncing(task[k]),
         isSyncing' = [isSyncing EXCEPT ![task[k].srv] = FALSE],
         NEW f, f = None \/ (f \in Frame /\ Good(f) /\ ~Syncing(f)), Set(k, f),
         UNCHANGED ledger, ProcessOK', faults' \in 0..MaxFaults, RowsKept
  PROVE  Inv'
<1>0. PICK s \in Server : s = task[k].srv
  BY FrameFacts
<1>1. /\ task' \in [Task -> Frame \cup {None}] /\ task'[k] = f
      /\ \A j \in Task \ {k} : task'[j] = task[j]
  BY DEF Set, Inv, TypeOK
<1>2. row' \in [Entity -> Row] /\ \A e \in Entity : row'[e].last <= ledger
  BY SavedFacts
<1>3. /\ isSyncing' \in [Server -> BOOLEAN] /\ isSyncing'[s] = FALSE
      /\ \A u \in Server \ {s} : isSyncing'[u] = isSyncing[u]
  BY <1>0 DEF Inv, TypeOK
<1>4. TypeOK'
  BY <1>1, <1>2, <1>3 DEF Inv, TypeOK, ProcessOK
<1>5. NeverAhead'
  BY <1>2 DEF NeverAhead
<1>6. \A j \in Task, u \in Server : Syncs(j, u)' <=> Syncs(j, u) /\ j # k
  BY <1>1 DEF Syncs, Syncing
<1>7. Syncs(k, s)
  BY <1>0 DEF Syncs, Syncing
<1>8. \A j \in Task : ~Syncs(j, s)'
  <2>1. \A j \in Task : Syncs(j, s) => j = k
    BY <1>7 DEF Inv, SyncExclusive
  <2> QED
    BY <1>6, <1>7, <2>1
<1>9. \A j \in Task, u \in Server \ {s} : Syncs(j, u)' <=> Syncs(j, u)
  BY <1>0, <1>6 DEF Syncs
<1>10. SyncExclusive'
  <2> SUFFICES ASSUME NEW u \in Server
               PROVE  /\ isSyncing'[u] => \E j \in Task : Syncs(j, u)'
                      /\ \A i, j \in Task : Syncs(i, u)' /\ Syncs(j, u)'
                                             => i = j /\ isSyncing'[u]
    BY DEF SyncExclusive
  <2>1. CASE u = s
    BY <1>3, <1>8, <2>1
  <2>2. CASE u # s
    BY ZenonT(60), <1>3, <1>9, <2>2 DEF Inv, SyncExclusive
  <2> QED
    BY <2>1, <2>2
<1>11. \A j \in Task : task'[j] # None => Good(task[j])'
  BY <1>1 DEF Inv, Good
<1> QED
  BY <1>4, <1>5, <1>10, <1>11 DEF Inv

LEMMA ProcessKept == Inv /\ UNCHANGED process => ProcessOK' /\ isSyncing' = isSyncing
BY DEF process, Inv, TypeOK, ProcessOK

-----------------------------------------------------------------------------
(* Steps of the same kind.                                                 *)

\* A find: the list is what it returned.
LEMMA FindsInv ==
  ASSUME Inv, NEW k \in Task, task[k] # None, task[k].pc \notin RowPC,
         NEW pc \in SyncPC \cup RecoverPC \cup PartitionPC, pc \notin RowPC,
         pc \in SyncPC <=> task[k].pc \in SyncPC, NEW S \in SUBSET Entity,
         Set(k, [task[k] EXCEPT !.pc = pc, !.list = Found(S)]),
         UNCHANGED <<row, isSyncing, ledger>>, ProcessOK',
         faults' \in 0..MaxFaults
  PROVE  Inv'
<1> DEFINE f == [task[k] EXCEPT !.pc = pc, !.list = Found(S)]
<1>1. task[k] \in Frame /\ Good(task[k])
  BY FrameFacts
<1>2. /\ f \in Frame /\ f.srv = task[k].srv /\ f.inline = task[k].inline
      /\ f.pc = pc /\ f.list = Found(S) /\ f.copy = task[k].copy
      /\ f.now = task[k].now /\ f.to = task[k].to
  BY <1>1, FoundFacts DEF Frame
<1> HIDE DEF f
<1>3. Good(f)
  BY <1>1, <1>2, FoundFacts, InlineFacts DEF Good
<1> QED
  BY <1>2, <1>3, Goes DEF Syncing, RowsKept, f

\* The network is asked, and the answer kept.
LEMMA AsksInv ==
  ASSUME Inv, NEW k \in Task, task[k] # None, task[k].pc \notin RowPC,
         NEW pc \in SyncPC \cup RecoverPC \cup PartitionPC, pc \notin RowPC,
         pc \in SyncPC <=> task[k].pc \in SyncPC,
         NEW n \in Nat, n <= ledger,
         Set(k, [task[k] EXCEPT !.pc = pc, !.now = n]),
         UNCHANGED <<row, process, ledger>>, faults' \in 0..MaxFaults
  PROVE  Inv'
<1> DEFINE f == [task[k] EXCEPT !.pc = pc, !.now = n]
<1>1. task[k] \in Frame /\ Good(task[k])
  BY FrameFacts
<1>2. /\ f \in Frame /\ f.srv = task[k].srv /\ f.inline = task[k].inline
      /\ f.pc = pc /\ f.list = task[k].list /\ f.copy = task[k].copy
      /\ f.now = n /\ f.to = task[k].to
  BY <1>1 DEF Frame
<1> HIDE DEF f
<1>3. Good(f)
  BY <1>1, <1>2, InlineFacts DEF Good
<1> QED
  BY <1>2, <1>3, Goes, ProcessKept DEF Syncing, RowsKept, f

\* The frame of a handler with a row at hand.
LEMMA CopyFacts ==
  ASSUME Inv, NEW k \in Task, task[k] # None, task[k].pc \in RowPC,
         NEW f, f = task[k]
  PROVE  /\ f \in Frame /\ f.ent \in Entity /\ f.copy \in Row /\ f.num \in BOOLEAN
         /\ f.copy.last \in Nat /\ f.copy.last <= ledger /\ ledger \in Nat
         /\ f.copy.retry \in Nat /\ f.at \in Nat /\ f.next \in Nat
         /\ f.now \in Nat /\ f.now <= ledger /\ f.to \in Nat /\ f.to <= ledger
         /\ f.srv \in Server /\ Good(f) /\ (f.inline => f.pc \in InlinePC)
<1>1. f \in Frame /\ Good(f) /\ ledger \in Nat /\ f.srv \in Server
  BY FrameFacts
<1>2. /\ f.num \in BOOLEAN /\ f.at \in Nat /\ f.next \in Nat /\ f.now \in Nat
      /\ f.to \in Nat
  BY <1>1 DEF Frame
<1>3. /\ f.ent \in Entity /\ f.copy \in Row /\ f.copy.last <= ledger
      /\ f.now <= ledger /\ f.to <= ledger /\ (f.inline => f.pc \in InlinePC)
  BY <1>1 DEF Good
<1>4. f.copy.last \in Nat /\ f.copy.retry \in Nat
  BY <1>3 DEF Row
<1> QED
  BY <1>1, <1>2, <1>3, <1>4

Moved(f, pc, c, num, at, to, next) ==
  [f EXCEPT !.pc = pc, !.copy = c, !.num = num, !.at = at, !.to = to,
            !.next = next]

\* The row at hand: its copy changes, what is to do as well, and the row may
\* be written.
LEMMA MovesInv ==
  ASSUME Inv, NEW k \in Task, task[k] # None, task[k].pc \in RowPC,
         NEW pc \in RowPC, pc \in SyncPC \cup RecoverPC,
         pc \in SyncPC <=> task[k].pc \in SyncPC,
         task[k].inline => pc \in InlinePC,
         NEW c \in Row, c.last <= ledger, NEW num \in BOOLEAN, NEW at \in Nat,
         NEW to \in Nat, to <= ledger, NEW next \in Nat,
         Set(k, Moved(task[k], pc, c, num, at, to, next)),
         RowsKept \/ \E r : Saved(task[k].ent, r),
         UNCHANGED <<process, ledger>>, faults' \in 0..MaxFaults
  PROVE  Inv'
<1>0. PICK f : f = task[k]
  OBVIOUS
<1>1. f \in Frame /\ f.ent \in Entity /\ f.now <= ledger /\ Good(f)
  BY <1>0, CopyFacts
<1> DEFINE g == Moved(f, pc, c, num, at, to, next)
<1>2. /\ g \in Frame /\ g.srv = f.srv /\ g.inline = f.inline /\ g.pc = pc
      /\ g.list = f.list /\ g.ent = f.ent /\ g.copy = c /\ g.now = f.now
      /\ g.to = to
  BY <1>1 DEF Frame, Moved
<1> HIDE DEF g
<1>3. Good(g)
  BY <1>0, <1>1, <1>2 DEF Good
<1>4. Set(k, g)
  BY <1>0 DEF g
<1> QED
  BY <1>0, <1>2, <1>3, <1>4, Goes, ProcessKept DEF Syncing

\* Save the entity with a status and go on.
LEMMA SaveAsInv ==
  ASSUME Inv, NEW k \in Task, NEW from \in RowPC, from \notin SyncPC,
         NEW status \in SyncStatus, NEW to \in InlinePC,
         SaveAs(k, from, status, to)
  PROVE  Inv'
<1>0. PICK f : f = task[k]
  OBVIOUS
<1> DEFINE c == [f.copy EXCEPT !.status = status]
<1>1. task[k] # None /\ task[k].pc = from
  BY DEF SaveAs, At
<1>2. /\ f \in Frame /\ f.ent \in Entity /\ f.copy \in Row /\ f.num \in BOOLEAN
      /\ f.copy.last <= ledger /\ f.copy.last \in Nat /\ f.copy.retry \in Nat
      /\ f.at \in Nat /\ f.next \in Nat /\ f.to \in Nat /\ f.to <= ledger
  BY <1>0, <1>1, CopyFacts
<1>3. c \in Row /\ c.last = f.copy.last
  BY <1>2 DEF Row
<1>4. /\ Set(k, Moved(f, to, c, f.num, f.at, f.to, f.next)) /\ Save(f.ent, c)
      /\ UNCHANGED <<process, ledger, faults>>
  BY <1>0, <1>2 DEF SaveAs, Moved, Frame
<1> HIDE DEF c
<1>5. Saved(f.ent, c)
  BY <1>2, <1>3, <1>4 DEF Saved
<1>6. to \in RowPC /\ to \in RecoverPC /\ to \notin SyncPC
  BY InlineFacts DEF RecoverPC, SyncPC
<1> QED
  BY <1>0, <1>1, <1>2, <1>3, <1>4, <1>5, <1>6, MovesInv, FaultsKept

\* One row of a list is saved, with some columns changed, or left.
LEMMA RestInv ==
  ASSUME Inv, NEW k \in Task, NEW e \in Entity, task[k] # None,
         Takes(k, e), task[k].pc \notin RowPC,
         Set(k, [task[k] EXCEPT !.list = Rest(k, e)]),
         RowsKept \/ \E r : Saved(e, r),
         UNCHANGED <<process, ledger, faults>>
  PROVE  Inv'
<1> DEFINE f == [task[k] EXCEPT !.list = Rest(k, e)]
<1>1. task[k] \in Frame /\ Good(task[k])
  BY FrameFacts
<1>2. Rest(k, e) \in List
  BY <1>1 DEF Rest, List, Frame
<1>3. /\ f \in Frame /\ f.srv = task[k].srv /\ f.inline = task[k].inline
      /\ f.pc = task[k].pc /\ f.list = Rest(k, e) /\ f.copy = task[k].copy
      /\ f.now = task[k].now /\ f.to = task[k].to /\ f.ent = task[k].ent
  BY <1>1, <1>2 DEF Frame
<1> HIDE DEF f
<1>4. \A d \in Entity : Rest(k, e)[d] \in Row => Rest(k, e)[d].last <= ledger
  <2>1. task[k].list \in List
    BY <1>1 DEF Frame
  <2> QED
    BY <1>1, <2>1, NoneAssumption DEF Rest, List, Good
<1>5. Good(f)
  BY <1>1, <1>3, <1>4 DEF Good
<1>6. faults' \in 0..MaxFaults
  BY DEF Inv, TypeOK
<1> QED
  BY <1>3, <1>5, <1>6, Goes, ProcessKept DEF Syncing, f

\* A copy of the list that is taken.
LEMMA TakenFacts ==
  ASSUME Inv, NEW k \in Task, NEW e \in Entity, task[k] # None, Takes(k, e)
  PROVE  task[k].list[e] \in Row /\ task[k].list[e].last <= ledger
<1>1. task[k] \in Frame /\ Good(task[k])
  BY FrameFacts
<1>2. task[k].list[e] \in Row \cup {None}
  BY <1>1 DEF Frame, List
<1> QED
  BY <1>1, <1>2 DEF Takes, Good

\* A copy is taken from the list and is the row at hand from now on.
LEMMA TakesInv ==
  ASSUME Inv, NEW k \in Task, NEW e \in Entity, task[k] # None, Takes(k, e),
         task[k].pc \notin RowPC,
         NEW f \in Frame, Set(k, f),
         f.srv = task[k].srv, f.inline = task[k].inline,
         f.pc \in SyncPC <=> task[k].pc \in SyncPC,
         f.list = Rest(k, e), f.ent = e, f.copy \in Row,
         f.copy.last <= ledger, f.now = task[k].now, f.to = task[k].to,
         RowsKept \/ Save(e, f.copy),
         UNCHANGED <<process, ledger>>, faults' \in 0..MaxFaults
  PROVE  Inv'
<1>1. task[k] \in Frame /\ Good(task[k])
  BY FrameFacts
<1>2. ~f.inline
  BY <1>1, InlineFacts DEF Good, Frame
<1>3. \A d \in Entity : Rest(k, e)[d] \in Row => Rest(k, e)[d].last <= ledger
  <2>1. task[k].list \in List
    BY <1>1 DEF Frame
  <2> QED
    BY <1>1, <2>1, NoneAssumption DEF Rest, List, Good
<1>4. Good(f)
  BY <1>1, <1>2, <1>3 DEF Good
<1>5. RowsKept \/ Saved(e, f.copy)
  BY DEF Saved
<1> QED
  BY <1>4, <1>5, Goes, ProcessKept DEF Syncing

\* A row is done: back to the loop over the list.
LEMMA BetweenInv ==
  ASSUME Inv, NEW k \in Task, task[k] # None, task[k].pc \in RowPC,
         ~task[k].inline, NEW pc \in SyncPC \cup RecoverPC \cup PartitionPC,
         pc \notin RowPC, pc \in SyncPC <=> task[k].pc \in SyncPC,
         Set(k, Between(task[k], pc)),
         RowsKept \/ \E r : Saved(task[k].ent, r),
         UNCHANGED <<process, ledger>>, faults' \in 0..MaxFaults
  PROVE  Inv'
<1> DEFINE f == Between(task[k], pc)
<1>1. task[k] \in Frame /\ Good(task[k]) /\ ledger \in Nat
  BY FrameFacts
<1>2. /\ f \in Frame /\ f.srv = task[k].srv /\ f.inline = task[k].inline
      /\ f.pc = pc /\ f.list = task[k].list /\ f.copy = None
      /\ f.now = task[k].now /\ f.to = 0
  BY <1>1 DEF Frame, Between
<1> HIDE DEF f
<1>3. Good(f)
  BY <1>1, <1>2, NoneAssumption DEF Good
<1> QED
  BY <1>2, <1>3, Goes, ProcessKept DEF Syncing, f

\* syncLedger rejects.
LEMMA ThrowsInv ==
  ASSUME Inv, NEW k \in Task, task[k] # None, Syncing(task[k]), Throws(k),
         faults' \in 0..MaxFaults
  PROVE  Inv'
<1>0. PICK s \in Server : s = task[k].srv
  BY FrameFacts
<1>1. /\ isSyncing' = [isSyncing EXCEPT ![task[k].srv] = FALSE]
      /\ UNCHANGED <<row, partition, ledger>>
  BY DEF Throws
<1>2. isPartitioned' = isPartitioned /\ monitoring' = monitoring
  BY <1>1 DEF partition
<1>3. polling' \in [Server -> BOOLEAN]
  BY <1>0 DEF Throws, Inv, TypeOK
<1>4. errors' \in [Server -> 0..StreamRetries]
  <2>1. errors \in [Server -> 0..StreamRetries]
    BY DEF Inv, TypeOK
  <2>2. CASE errors' = errors
    BY <2>1, <2>2
  <2>3. CASE /\ errors[s] < StreamRetries
             /\ errors' = [errors EXCEPT ![s] = @ + 1]
    <3>1. errors[s] + 1 \in 0..StreamRetries
      BY <2>1, <2>3, NumberAssumption
    <3> QED
      BY <2>1, <2>3, <3>1
  <2> QED
    BY <1>0, <2>2, <2>3 DEF Throws
<1>5. ProcessOK'
  BY <1>2, <1>3, <1>4 DEF ProcessOK, Inv, TypeOK
<1>6. New(s, "findAll") \in Frame /\ Good(New(s, "findAll"))
      /\ ~Syncing(New(s, "findAll"))
  BY StartFacts
<1>7. Set(k, None) \/ Set(k, New(s, "findAll"))
  BY <1>0 DEF Throws, End
<1> QED
  BY <1>1, <1>5, <1>6, <1>7, SyncEnds DEF RowsKept

-----------------------------------------------------------------------------
(* syncLedger.                                                             *)
LEMMA InitInv == Init => Inv
<1> SUFFICES ASSUME Init PROVE Inv
  OBVIOUS
<1>1. row \in [Entity -> Row] /\ \A e \in Entity : row[e].last <= ledger
  BY NumberAssumption DEF Init, Row, SyncStatus
<1>2. TypeOK
  BY <1>1, NumberAssumption DEF Init, TypeOK
<1>3. SyncExclusive
  BY DEF Init, SyncExclusive, Syncs
<1> QED
  BY <1>1, <1>2, <1>3 DEF Inv, NeverAhead, Init

\* The flag is down, so that no other syncLedger of the replica runs.
LEMMA TickInv ==
  ASSUME Inv, NEW k \in Task, NEW s \in Server, SyncTick(k, s)
  PROVE  Inv'
<1> DEFINE f == New(s, "syncAsk")
<1>1. "syncAsk" \in SyncPC /\ "syncAsk" \notin RowPC
  BY DEF SyncPC, RowPC
<1>2. /\ f \in Frame /\ Good(f) /\ f.srv = s /\ f.pc = "syncAsk" /\ f # None
      /\ ~f.inline
  BY <1>1, NewFacts
<1>3. /\ ~isSyncing[s] /\ task[k] = None /\ Set(k, f)
      /\ isSyncing' = [isSyncing EXCEPT ![s] = TRUE]
      /\ UNCHANGED <<row, polling, errors, partition, ledger, faults>>
  BY DEF SyncTick, Start
<1> HIDE DEF f
<1>4. /\ task' \in [Task -> Frame \cup {None}] /\ task'[k] = f
      /\ \A j \in Task \ {k} : task'[j] = task[j]
  BY <1>2, <1>3 DEF Set, Inv, TypeOK
<1>5. /\ isSyncing' \in [Server -> BOOLEAN] /\ isSyncing'[s] = TRUE
      /\ \A u \in Server \ {s} : isSyncing'[u] = isSyncing[u]
  BY <1>3 DEF Inv, TypeOK
<1>6. TypeOK'
  BY <1>3, <1>4, <1>5 DEF Inv, TypeOK, partition
<1>7. NeverAhead'
  BY <1>3 DEF Inv, NeverAhead
<1>8. \A j \in Task \ {k}, u \in Server : Syncs(j, u)' <=> Syncs(j, u)
  BY <1>4 DEF Syncs
<1>9. \A u \in Server : ~Syncs(k, u) /\ (Syncs(k, u)' <=> u = s)
  BY <1>1, <1>2, <1>3, <1>4 DEF Syncs
<1>10. \A j \in Task : ~Syncs(j, s)
  BY <1>3 DEF Inv, SyncExclusive
<1>11. SyncExclusive'
  <2> SUFFICES ASSUME NEW u \in Server
               PROVE  /\ isSyncing'[u] => \E j \in Task : Syncs(j, u)'
                      /\ \A i, j \in Task : Syncs(i, u)' /\ Syncs(j, u)'
                                             => i = j /\ isSyncing'[u]
    BY DEF SyncExclusive
  <2>1. CASE u = s
    <3>1. \A j \in Task : Syncs(j, s)' => j = k
      BY <1>8, <1>10
    <3> QED
      BY <1>5, <1>9, <2>1, <3>1
  <2>2. CASE u # s
    <3>1. \A j \in Task : Syncs(j, u)' <=> Syncs(j, u)
      BY <1>8, <1>9, <2>2
    <3> QED
      BY <1>5, <2>2, <3>1 DEF Inv, SyncExclusive
  <2> QED
    BY <2>1, <2>2
<1>12. \A j \in Task : task'[j] # None => Good(task[j])'
  BY <1>2, <1>3, <1>4 DEF Inv, Good
<1> QED
  BY <1>6, <1>7, <1>11, <1>12 DEF Inv

LEMMA SyncAsksInv == ASSUME Inv, NEW k \in Task, SyncAsks(k) PROVE Inv'
<1>1. task[k] # None /\ task[k].pc = "syncAsk"
  BY DEF SyncAsks, At
<1>2. PICK n \in {0, ledger} :
        Asked(n) /\ Set(k, [task[k] EXCEPT !.pc = "syncFind", !.now = n])
  BY DEF SyncAsks
<1>3. n \in Nat /\ n <= ledger /\ faults' \in 0..MaxFaults
  BY <1>2, AskedFacts
<1>4. UNCHANGED <<row, process, ledger>>
  BY DEF SyncAsks
<1> QED
  BY <1>1, <1>2, <1>3, <1>4, AsksInv DEF SyncPC, RowPC

LEMMA SyncFindsInv == ASSUME Inv, NEW k \in Task, SyncFinds(k) PROVE Inv'
<1> DEFINE S == {e \in Entity : Behind(k, e)}
<1>1. /\ task[k] # None /\ task[k].pc = "syncFind"
      /\ Set(k, [task[k] EXCEPT !.pc = "syncNext", !.list = Found(S)])
      /\ UNCHANGED <<row, process, ledger, faults>>
  BY DEF SyncFinds, At
<1>2. S \in SUBSET Entity
  OBVIOUS
<1> HIDE DEF S
<1> QED
  BY <1>1, <1>2, FindsInv, ProcessKept, FaultsKept DEF SyncPC, RowPC

LEMMA SyncMarksInv ==
  ASSUME Inv, NEW k \in Task, NEW e \in Entity, SyncMarks(k, e)
  PROVE  Inv'
<1> DEFINE c == [task[k].list[e] EXCEPT !.status = "syncing"]
           g == [task[k] EXCEPT !.list = Rest(k, e), !.ent = e, !.copy = c,
                                !.num = FALSE, !.pc = "batch"]
           f == [g EXCEPT !.at = NextLedger(g)]
<1>1. /\ task[k] # None /\ task[k].pc = "syncNext" /\ Takes(k, e)
      /\ Save(e, c) /\ Set(k, f) /\ UNCHANGED <<process, ledger, faults>>
  BY DEF SyncMarks, At
<1>2. task[k].list[e] \in Row /\ task[k].list[e].last <= ledger
  BY <1>1, TakenFacts
<1>3. c \in Row /\ c.last = task[k].list[e].last
  BY <1>2 DEF Row, SyncStatus
<1>4. task[k] \in Frame
  BY <1>1, FrameFacts
<1>5. Rest(k, e) \in List
  BY <1>4 DEF Rest, List, Frame
<1> HIDE DEF c
<1>6. /\ g \in Frame /\ g.srv = task[k].srv /\ g.inline = task[k].inline
      /\ g.pc = "batch" /\ g.list = Rest(k, e) /\ g.ent = e /\ g.copy = c
      /\ g.now = task[k].now /\ g.to = task[k].to
  BY <1>3, <1>4, <1>5 DEF Frame, SyncPC
<1> HIDE DEF g
<1>7. NextLedger(g) \in Nat
  BY <1>3, <1>6 DEF NextLedger, Row
<1>8. /\ f \in Frame /\ f.srv = task[k].srv /\ f.inline = task[k].inline
      /\ f.pc = "batch" /\ f.list = Rest(k, e) /\ f.ent = e /\ f.copy = c
      /\ f.now = task[k].now /\ f.to = task[k].to
  BY <1>6, <1>7 DEF Frame
<1> HIDE DEF f
<1> QED
  BY <1>1, <1>2, <1>3, <1>8, TakesInv, FaultsKept DEF SyncPC, RowPC

LEMMA ConflictInv == ASSUME Inv, NEW k \in Task, ConflictSaved(k) PROVE Inv'
<1>1. /\ task[k] # None /\ task[k].pc = "batch" /\ task' = task
      /\ Save(task[k].ent, task[k].copy)
      /\ UNCHANGED <<process, ledger, faults>>
  BY DEF ConflictSaved, At
<1>2. /\ task[k] \in Frame /\ task[k].ent \in Entity /\ task[k].copy \in Row
      /\ task[k].copy.last <= ledger /\ Good(task[k])
  BY <1>1, CopyFacts DEF RowPC
<1>3. Set(k, task[k])
  BY <1>1 DEF Set, Inv, TypeOK
<1>4. Saved(task[k].ent, task[k].copy)
  BY <1>1, <1>2 DEF Saved
<1> QED
  BY <1>1, <1>2, <1>3, <1>4, Goes, ProcessKept, FaultsKept

LEMMA BatchSavedInv ==
  ASSUME Inv, NEW k \in Task, NEW b \in Batches(k), BatchSaved(k, b)
  PROVE  Inv'
<1>0. PICK f : f = task[k]
  OBVIOUS
<1> DEFINE c == [f.copy EXCEPT !.last = b]
<1>1. task[k] # None /\ task[k].pc = "batch"
  BY DEF BatchSaved, At
<1>2. /\ f \in Frame /\ f.ent \in Entity /\ f.copy \in Row /\ f.at \in Nat
      /\ f.next \in Nat /\ f.now \in Nat /\ f.now <= ledger /\ ledger \in Nat
      /\ f.to \in Nat /\ f.to <= ledger /\ ~f.inline /\ f.copy.retry \in Nat
  BY <1>0, <1>1, CopyFacts DEF RowPC, InlinePC, Frame
<1>3. b \in Nat /\ b <= ledger
  BY <1>0, <1>1, <1>2 DEF Batches
<1>4. c \in Row /\ c.last = b
  BY <1>2, <1>3 DEF Row
<1>5. /\ Set(k, Moved(f, "batch", c, TRUE, b + 1, f.to, f.next))
      /\ Save(f.ent, c) /\ UNCHANGED <<process, ledger, faults>>
  BY <1>0, <1>1, <1>2, <1>3 DEF BatchSaved, Moved, Frame
<1> HIDE DEF c
<1>6. Saved(f.ent, c) /\ b + 1 \in Nat
  BY <1>2, <1>3, <1>4, <1>5 DEF Saved
<1> QED
  BY <1>0, <1>1, <1>2, <1>3, <1>4, <1>5, <1>6, MovesInv, FaultsKept
     DEF RowPC, SyncPC

\* The error paths of a batch: the copy counts them.
LEMMA BatchFailsInv ==
  ASSUME Inv, NEW k \in Task, NEW b \in Batches(k),
         BatchFails(k, b) \/ TransactionFails(k, b)
  PROVE  Inv'
<1>0. PICK f : f = task[k]
  OBVIOUS
<1>1. task[k] # None /\ task[k].pc = "batch"
  BY DEF BatchFails, TransactionFails, At
<1>2. /\ f \in Frame /\ f.ent \in Entity /\ f.copy \in Row /\ f.num \in BOOLEAN
      /\ f.copy.last \in Nat /\ f.copy.last <= ledger /\ f.copy.retry \in Nat
      /\ f.next \in Nat /\ f.now \in Nat /\ f.now <= ledger /\ ledger \in Nat
      /\ f.to \in Nat /\ f.to <= ledger /\ f.at \in Nat /\ ~f.inline
  BY <1>0, <1>1, CopyFacts DEF RowPC, InlinePC, Frame
<1>3. b \in Nat /\ b <= ledger
  BY <1>0, <1>1, <1>2 DEF Batches
<1>4. Fault /\ UNCHANGED <<process, ledger>>
  BY DEF BatchFails, TransactionFails
<1>5. PICK n \in Nat, m \in Nat : n = f.copy.retry + 1 /\ m = f.copy.retry + 2
  <2>1. f.copy.retry + 1 \in Nat /\ f.copy.retry + 2 \in Nat
    BY <1>2
  <2> QED
    BY <2>1
<1> DEFINE c1 == [f.copy EXCEPT !.status = "error", !.retry = n]
           c2 == [f.copy EXCEPT !.status = "error", !.retry = n, !.last = b]
           c3 == [f.copy EXCEPT !.status = "error", !.retry = m]
           c4 == [f.copy EXCEPT !.retry = n]
<1>6. /\ \A c \in {c1, c2, c3} : c \in Row /\ c.last <= ledger
      /\ c4 \in Row /\ c4.last <= ledger
  <2>1. c1 \in Row /\ c1.last = f.copy.last
    BY <1>2 DEF Row, SyncStatus
  <2>2. c2 \in Row /\ c2.last = b
    BY <1>2, <1>3 DEF Row, SyncStatus
  <2>3. c3 \in Row /\ c3.last = f.copy.last
    BY <1>2 DEF Row, SyncStatus
  <2>4. c4 \in Row /\ c4.last = f.copy.last
    BY <1>2 DEF Row
  <2> HIDE DEF c1, c2, c3, c4
  <2> QED
    BY <1>2, <1>3, <2>1, <2>2, <2>3, <2>4
<1>7. \E c \in {c1, c2, c3}, num \in {f.num, TRUE} :
        Set(k, Moved(f, "batchCatch", c, num, b + 1, f.to, f.next))
  <2>1. CASE BatchFails(k, b)
    <3>1. \/ Set(k, Moved(f, "batchCatch", c1, f.num, b + 1, f.to, f.next))
          \/ Set(k, Moved(f, "batchCatch", c2, TRUE, b + 1, f.to, f.next))
      BY ZenonT(60), <1>0, <1>2, <1>3, <1>5, <2>1 DEF BatchFails, Moved, Frame
    <3> HIDE DEF c1, c2, c3, c4
    <3> QED
      BY <3>1
  <2>2. CASE TransactionFails(k, b)
    <3>1. Set(k, Moved(f, "batchCatch", c3, f.num, b + 1, f.to, f.next))
      BY <1>0, <1>2, <1>3, <1>5, <2>2 DEF TransactionFails, Moved, Frame
    <3> HIDE DEF c1, c2, c3, c4
    <3> QED
      BY <3>1
  <2> QED
    BY <2>1, <2>2
<1>8. RowsKept \/ Save(f.ent, c4)
  BY <1>0, <1>5 DEF BatchFails, TransactionFails, RowsKept
<1> HIDE DEF c1, c2, c3, c4
<1>9. RowsKept \/ Saved(f.ent, c4)
  BY <1>2, <1>6, <1>8 DEF Saved
<1>10. PICK c \in {c1, c2, c3}, num \in {f.num, TRUE} :
         Set(k, Moved(f, "batchCatch", c, num, b + 1, f.to, f.next))
  BY <1>7
<1>11. /\ c \in Row /\ c.last <= ledger /\ num \in BOOLEAN /\ b + 1 \in Nat
       /\ faults' \in 0..MaxFaults
  <2>1. num \in BOOLEAN
    BY <1>2
  <2>2. b + 1 \in Nat
    BY <1>3
  <2> QED
    BY <1>4, <1>6, <2>1, <2>2, FaultFacts
<1>12. "batchCatch" \in RowPC /\ "batchCatch" \in SyncPC /\ "batch" \in SyncPC
       /\ "batch" \in RowPC
  BY DEF RowPC, SyncPC
<1> QED
  BY <1>0, <1>1, <1>2, <1>4, <1>9, <1>10, <1>11, <1>12, MovesInv

LEMMA HandleBatchErrorInv ==
  ASSUME Inv, NEW k \in Task, HandleBatchError(k) PROVE Inv'
<1>0. PICK f : f = task[k]
  OBVIOUS
<1> DEFINE g == [f EXCEPT !.pc = "strategy", !.inline = TRUE]
           h == [f EXCEPT !.pc = "batch"]
<1>1. task[k] # None /\ task[k].pc = "batchCatch"
  BY DEF HandleBatchError, At
<1>2. /\ f \in Frame /\ f.ent \in Entity /\ f.copy \in Row /\ Good(f)
      /\ f.copy.last <= ledger /\ ~f.inline
  BY <1>0, <1>1, CopyFacts DEF RowPC, InlinePC, Frame
<1>3. /\ g \in Frame /\ g.srv = f.srv /\ g.inline /\ g.pc = "strategy"
      /\ g.list = f.list /\ g.ent = f.ent /\ g.copy = f.copy
      /\ g.now = f.now /\ g.to = f.to
  BY <1>2 DEF Frame, RecoverPC
<1>4. /\ h \in Frame /\ h.srv = f.srv /\ h.inline = f.inline /\ h.pc = "batch"
      /\ h.list = f.list /\ h.ent = f.ent /\ h.copy = f.copy
      /\ h.now = f.now /\ h.to = f.to
  BY <1>2 DEF Frame, SyncPC
<1>5. /\ Save(f.ent, f.copy) /\ UNCHANGED <<process, ledger, faults>>
      /\ (Set(k, g) \/ Set(k, h))
  BY <1>0 DEF HandleBatchError
<1>6. Saved(f.ent, f.copy)
  BY <1>2, <1>5 DEF Saved
<1> HIDE DEF g, h
<1>7. Good(g) /\ Syncing(g)
  BY <1>2, <1>3 DEF Good, Syncing, InlinePC, RowPC
<1>8. Good(h) /\ Syncing(h)
  BY <1>2, <1>4 DEF Good, Syncing, SyncPC
<1>9. Syncing(f)
  BY <1>0, <1>1 DEF Syncing, SyncPC
<1>10. ProcessOK' /\ isSyncing' = isSyncing /\ faults' \in 0..MaxFaults
  BY <1>5, ProcessKept, FaultsKept
<1>11. CASE Set(k, g)
  BY <1>0, <1>1, <1>3, <1>5, <1>6, <1>7, <1>9, <1>10, <1>11, Goes
<1>12. CASE Set(k, h)
  BY <1>0, <1>1, <1>4, <1>5, <1>6, <1>8, <1>9, <1>10, <1>12, Goes
<1> QED
  BY <1>5, <1>11, <1>12

LEMMA RangeDoneInv == ASSUME Inv, NEW k \in Task, RangeDone(k) PROVE Inv'
<1>0. PICK f : f = task[k]
  OBVIOUS
<1> DEFINE c == [f.copy EXCEPT !.status = "idle"]
<1>1. task[k] # None /\ task[k].pc = "batch"
  BY DEF RangeDone, At
<1>2. f.ent \in Entity /\ f.copy \in Row /\ f.copy.last <= ledger /\ ~f.inline
  BY <1>0, <1>1, CopyFacts DEF RowPC, InlinePC, Frame
<1>3. c \in Row /\ c.last = f.copy.last
  BY <1>2 DEF Row, SyncStatus
<1>4. /\ Save(f.ent, c) /\ Set(k, Between(task[k], "syncNext"))
      /\ UNCHANGED <<process, ledger, faults>>
  BY <1>0 DEF RangeDone
<1> HIDE DEF c
<1>5. Saved(f.ent, c)
  BY <1>2, <1>3, <1>4 DEF Saved
<1>6. /\ "syncNext" \in SyncPC /\ "syncNext" \notin RowPC /\ "batch" \in SyncPC
      /\ "batch" \in RowPC
  BY DEF SyncPC, RowPC
<1> QED
  BY <1>0, <1>1, <1>2, <1>4, <1>5, <1>6, BetweenInv, FaultsKept

LEMMA SyncReturnsInv == ASSUME Inv, NEW k \in Task, SyncReturns(k) PROVE Inv'
<1>1. /\ task[k] # None /\ task[k].pc = "syncNext" /\ Set(k, None)
      /\ isSyncing' = [isSyncing EXCEPT ![task[k].srv] = FALSE]
      /\ UNCHANGED <<row, polling, errors, partition, ledger, faults>>
  BY DEF SyncReturns, At, End
<1>2. Syncing(task[k])
  BY <1>1 DEF Syncing, SyncPC
<1>3. ProcessOK'
  BY <1>1 DEF ProcessOK, Inv, TypeOK, partition
<1> QED
  BY <1>1, <1>2, <1>3, SyncEnds, FaultsKept DEF RowsKept

LEMMA SyncDbErrorInv == ASSUME Inv, NEW k \in Task, SyncDbError(k) PROVE Inv'
<1>1. task[k] # None /\ task[k].pc \in SyncPC
  BY DEF SyncDbError, At, SyncPC
<1>2. Throws(k) /\ faults' \in 0..MaxFaults
  BY FaultFacts DEF SyncDbError
<1> QED
  BY <1>1, <1>2, ThrowsInv DEF Syncing

-----------------------------------------------------------------------------
(* RecoveryService.                                                        *)
LEMMA RecoverFindsInv == ASSUME Inv, NEW k \in Task, RecoverFinds(k) PROVE Inv'
<1> DEFINE S == {e \in Entity : row[e].status \in {"error", "partitioned"}}
<1>1. /\ task[k] # None /\ task[k].pc = "findAll"
      /\ Set(k, [task[k] EXCEPT !.pc = "recoverNext", !.list = Found(S)])
      /\ UNCHANGED <<row, process, ledger, faults>>
  BY DEF RecoverFinds, At
<1>2. S \in SUBSET Entity
  OBVIOUS
<1> HIDE DEF S
<1> QED
  BY <1>1, <1>2, FindsInv, ProcessKept, FaultsKept DEF SyncPC, RecoverPC, RowPC

LEMMA RecoverTakesInv ==
  ASSUME Inv, NEW k \in Task, NEW e \in Entity, RecoverTakes(k, e)
  PROVE  Inv'
<1> DEFINE c == task[k].list[e]
           f == [task[k] EXCEPT !.list = Rest(k, e), !.ent = e, !.copy = c,
                                !.num = FALSE, !.pc = "strategy"]
<1>1. /\ task[k] # None /\ task[k].pc = "recoverNext" /\ Takes(k, e)
      /\ Set(k, f) /\ UNCHANGED <<row, process, ledger, faults>>
  BY DEF RecoverTakes, At
<1>2. c \in Row /\ c.last <= ledger
  BY <1>1, TakenFacts
<1>3. task[k] \in Frame
  BY <1>1, FrameFacts
<1>4. Rest(k, e) \in List
  BY <1>3 DEF Rest, List, Frame
<1> HIDE DEF c
<1>5. /\ f \in Frame /\ f.srv = task[k].srv /\ f.inline = task[k].inline
      /\ f.pc = "strategy" /\ f.list = Rest(k, e) /\ f.ent = e /\ f.copy = c
      /\ f.now = task[k].now /\ f.to = task[k].to
  BY <1>2, <1>3, <1>4 DEF Frame, RecoverPC
<1> HIDE DEF f
<1> QED
  BY <1>1, <1>2, <1>5, TakesInv, FaultsKept DEF SyncPC, RowPC, RowsKept

\* A task that is no syncLedger ends.
LEMMA EndsInv ==
  ASSUME Inv, NEW k \in Task, task[k] # None, task[k].pc \notin SyncPC,
         task[k].pc \notin RowPC, End(k), UNCHANGED <<row, isSyncing, ledger>>,
         ProcessOK', faults' \in 0..MaxFaults
  PROVE  Inv'
<1>1. ~task[k].inline
  BY FrameFacts, InlineFacts DEF Good, Frame
<1> QED
  BY <1>1, Begins DEF End, Syncing, RowsKept

LEMMA RecoverReturnsInv ==
  ASSUME Inv, NEW k \in Task, RecoverReturns(k) PROVE Inv'
<1>1. /\ task[k] # None /\ task[k].pc = "recoverNext" /\ End(k)
      /\ UNCHANGED <<row, process, ledger, faults>>
  BY DEF RecoverReturns, At
<1> QED
  BY <1>1, EndsInv, ProcessKept, FaultsKept DEF SyncPC, RowPC

\* The network is asked by a recovery.
LEMMA StrategyInv == ASSUME Inv, NEW k \in Task, Strategy(k) PROVE Inv'
<1>0. PICK f : f = task[k]
  OBVIOUS
<1>1. task[k] # None /\ task[k].pc = "strategy" /\ UNCHANGED <<row, process, ledger>>
  BY DEF Strategy, At
<1>2. PICK n \in {0, ledger} :
        Asked(n) /\ \E pc \in Strategies(f.copy, n) :
                      Set(k, [f EXCEPT !.pc = pc])
  BY <1>0 DEF Strategy
<1>a. PICK pc \in Strategies(f.copy, n) : Set(k, [f EXCEPT !.pc = pc])
  BY <1>2
<1>3. pc \in {"manual", "checkpoint", "full", "incremental"}
  BY DEF Strategies
<1>4. f \in Frame /\ Good(f) /\ f.ent \in Entity /\ f.copy \in Row
  BY <1>0, <1>1, CopyFacts DEF RowPC
<1> DEFINE g == [f EXCEPT !.pc = pc]
<1>5. /\ g \in Frame /\ g.srv = f.srv /\ g.inline = f.inline /\ g.pc = pc
      /\ g.list = f.list /\ g.ent = f.ent /\ g.copy = f.copy
      /\ g.now = f.now /\ g.to = f.to
  BY <1>3, <1>4 DEF Frame, RecoverPC
<1>6. Set(k, g)
  BY <1>a
<1> HIDE DEF g
<1>7. pc \in InlinePC /\ pc \notin SyncPC /\ f.pc \notin SyncPC
  BY <1>0, <1>1, <1>3 DEF InlinePC, RowPC, SyncPC
<1>8. Good(g)
  BY <1>4, <1>5, <1>7 DEF Good
<1>9. Syncing(g) <=> Syncing(f)
  BY <1>5, <1>7 DEF Syncing
<1>10. faults' \in 0..MaxFaults
  BY <1>2, AskedFacts
<1> QED
  BY <1>0, <1>1, <1>5, <1>6, <1>8, <1>9, <1>10, Goes, ProcessKept DEF RowsKept

\* A recovery goes on with the row at hand.
LEMMA RecoverMoves ==
  ASSUME Inv, NEW k \in Task, task[k] # None, NEW f, f = task[k],
         f.pc \in InlinePC, NEW pc \in InlinePC,
         NEW c \in Row, c.last <= ledger, NEW num \in BOOLEAN,
         NEW to \in Nat, to <= ledger, NEW next \in Nat,
         Set(k, Moved(f, pc, c, num, f.at, to, next)),
         RowsKept \/ Save(f.ent, c),
         UNCHANGED <<process, ledger>>, faults' \in 0..MaxFaults
  PROVE  Inv'
<1>1. \A p \in InlinePC : p \in RowPC /\ p \in RecoverPC /\ p \notin SyncPC
  BY InlineFacts DEF InlinePC, RowPC, SyncPC
<1>2. f.at \in Nat /\ f.ent \in Entity
  BY <1>1, CopyFacts
<1>3. RowsKept \/ Saved(f.ent, c)
  BY <1>2 DEF Saved
<1>4. Set(k, Moved(task[k], pc, c, num, f.at, to, next))
  OBVIOUS
<1> QED
  BY <1>1, <1>2, <1>3, <1>4, MovesInv

LEMMA RecoverFacts ==
  ASSUME Inv, NEW k \in Task, task[k] # None, task[k].pc \in InlinePC,
         NEW f, f = task[k]
  PROVE  /\ f \in Frame /\ f.copy \in Row /\ f.num \in BOOLEAN
         /\ f.copy.last \in Nat /\ f.copy.last <= ledger /\ ledger \in Nat
         /\ f.copy.retry \in Nat /\ f.next \in Nat /\ f.to \in Nat /\ f.to <= ledger
         /\ f.ent \in Entity
BY CopyFacts, InlineFacts

\* The steps that only save the entity with a new status.
LEMMA SavesInv ==
  ASSUME Inv, NEW k \in Task,
         \/ RequestManualIntervention(k) \/ FullSync(k) \/ FullSave(k)
         \/ IncrementalSync(k) \/ CheckpointSave(k) \/ RecoverCatches(k)
  PROVE  Inv'
<1>1. PICK from \in {"manual", "full", "fullSave", "incremental", "restored",
                     "recoverCatch"},
           status \in {"error", "recovering"},
           to \in {"recovered", "fullReset", "fullBatch", "catchUp",
                   "incremental", "recoverThrow"} : SaveAs(k, from, status, to)
  BY DEF RequestManualIntervention, FullSync, FullSave, IncrementalSync,
         CheckpointSave, RecoverCatches
<1>2. /\ from \in RowPC /\ from \notin SyncPC /\ to \in InlinePC
      /\ status \in SyncStatus
  BY DEF RowPC, SyncPC, InlinePC, SyncStatus
<1> QED
  BY <1>1, <1>2, SaveAsInv

LEMMA FullResetInv == ASSUME Inv, NEW k \in Task, FullReset(k) PROVE Inv'
<1>0. PICK f : f = task[k]
  OBVIOUS
<1>1. task[k] # None /\ f.pc = "fullReset" /\ UNCHANGED <<row, process, ledger>>
  BY <1>0 DEF FullReset, At
<1>2. f.pc \in InlinePC /\ "fullSave" \in InlinePC
  BY <1>1 DEF InlinePC, RowPC
<1>3. /\ f \in Frame /\ f.copy \in Row /\ f.num \in BOOLEAN
      /\ f.ent \in Entity /\ ledger \in Nat
  BY <1>0, <1>1, <1>2, RecoverFacts
<1>4. PICK n \in {0, ledger} :
        /\ Asked(n)
        /\ Set(k, [f EXCEPT !.copy.last = Back(n, FullSpan), !.num = TRUE,
                            !.to = n, !.next = Back(n, FullSpan),
                            !.pc = "fullSave"])
  BY <1>0 DEF FullReset
<1>5. n \in Nat /\ n <= ledger /\ faults' \in 0..MaxFaults
  BY <1>4, AskedFacts
<1>6. PICK b \in Nat : b = Back(n, FullSpan) /\ b <= ledger
  BY <1>3, <1>5, BackFacts, NumberAssumption
<1> DEFINE c == [f.copy EXCEPT !.last = b]
<1>7. c \in Row /\ c.last = b
  BY <1>3, <1>6 DEF Row
<1>8. Set(k, Moved(f, "fullSave", c, TRUE, f.at, n, b))
  BY <1>3, <1>4, <1>6 DEF Moved, Frame
<1> HIDE DEF c
<1> QED
  BY <1>0, <1>1, <1>2, <1>5, <1>6, <1>7, <1>8, RecoverMoves DEF RowsKept

LEMMA FullBatchInv ==
  ASSUME Inv, NEW k \in Task, NEW b \in FullBatches(k), FullBatch(k, b)
  PROVE  Inv'
<1>0. PICK f : f = task[k]
  OBVIOUS
<1>1. /\ task[k] # None /\ f.pc = "fullBatch"
      /\ UNCHANGED <<process, ledger, faults>>
  BY <1>0 DEF FullBatch, At
<1>2. f.pc \in InlinePC /\ "fullBatch" \in InlinePC
  BY <1>1 DEF InlinePC, RowPC
<1>3. /\ f \in Frame /\ f.copy \in Row /\ f.num \in BOOLEAN /\ f.ent \in Entity
      /\ ledger \in Nat /\ f.next \in Nat /\ f.to \in Nat /\ f.to <= ledger
  BY <1>0, <1>1, <1>2, RecoverFacts
<1>4. b \in Nat /\ b <= ledger /\ b + 1 \in Nat
  BY <1>0, <1>1, <1>3 DEF FullBatches
<1> DEFINE c == [f.copy EXCEPT !.last = b]
<1>5. c \in Row /\ c.last = b
  BY <1>3, <1>4 DEF Row
<1>6. Set(k, Moved(f, "fullBatch", c, f.num, f.at, f.to, b + 1)) /\ Save(f.ent, c)
  BY ZenonT(60), <1>0, <1>1, <1>3, <1>4 DEF FullBatch, Moved, Frame
<1> HIDE DEF c
<1> QED
  BY <1>0, <1>1, <1>2, <1>3, <1>4, <1>5, <1>6, RecoverMoves, FaultsKept

LEMMA FetchInv == ASSUME Inv, NEW k \in Task, Fetch(k) PROVE Inv'
<1>0. PICK f : f = task[k]
  OBVIOUS
<1>1. /\ task[k] # None /\ f.pc = "fetch"
      /\ UNCHANGED <<process, ledger, faults>>
  BY <1>0 DEF Fetch, At
<1>2. f.pc \in InlinePC /\ "recovered" \in InlinePC
  BY <1>1 DEF InlinePC, RowPC
<1>3. /\ f \in Frame /\ f.copy \in Row /\ f.ent \in Entity
      /\ ledger \in Nat /\ f.next \in Nat /\ f.to \in Nat /\ f.to <= ledger
  BY <1>0, <1>1, <1>2, RecoverFacts
<1> DEFINE c == [f.copy EXCEPT !.last = f.to]
<1>5. c \in Row /\ c.last = f.to
  BY <1>3 DEF Row
<1>6. Set(k, Moved(f, "recovered", c, TRUE, f.at, f.to, f.next)) /\ Save(f.ent, c)
  BY <1>0, <1>1, <1>3 DEF Fetch, Moved, Frame
<1> HIDE DEF c
<1> QED
  BY <1>0, <1>1, <1>2, <1>3, <1>5, <1>6, RecoverMoves, FaultsKept

\* Steps that write no row and leave the copy as it is.
LEMMA RecoverOnInv ==
  ASSUME Inv, NEW k \in Task, FullDone(k) \/ CatchUp(k) \/ CatchDbError(k)
  PROVE  Inv'
<1>0. PICK f : f = task[k]
  OBVIOUS
<1>1. /\ task[k] # None /\ f.pc \in {"fullBatch", "catchUp", "recoverCatch"}
      /\ UNCHANGED <<row, process, ledger>>
  BY <1>0 DEF FullDone, CatchUp, CatchDbError, At
<1>2. /\ f.pc \in InlinePC
      /\ \A p \in {"recovered", "fetch", "recoverThrow"} : p \in InlinePC
  BY <1>1 DEF InlinePC, RowPC
<1>3. /\ f \in Frame /\ f.copy \in Row /\ f.num \in BOOLEAN /\ f.ent \in Entity
      /\ f.copy.last <= ledger
      /\ ledger \in Nat /\ f.next \in Nat /\ f.to \in Nat /\ f.to <= ledger
  BY <1>0, <1>1, <1>2, RecoverFacts
<1>4. CASE FullDone(k)
  <2>1. Set(k, Moved(f, "recovered", f.copy, f.num, f.at, f.to, f.next))
    BY <1>0, <1>3, <1>4 DEF FullDone, Moved, Frame
  <2>2. faults' \in 0..MaxFaults
    BY <1>4, FaultsKept DEF FullDone
  <2> QED
    BY <1>0, <1>1, <1>2, <1>3, <2>1, <2>2, RecoverMoves DEF RowsKept
<1>5. CASE CatchUp(k)
  <2>1. PICK n \in {0, ledger} :
          Asked(n) /\ Set(k, [f EXCEPT !.to = n, !.pc = "fetch"])
    BY <1>0, <1>5 DEF CatchUp
  <2>2. n \in Nat /\ n <= ledger /\ faults' \in 0..MaxFaults
    BY <2>1, AskedFacts
  <2>3. Set(k, Moved(f, "fetch", f.copy, f.num, f.at, n, f.next))
    BY <1>3, <2>1 DEF Moved, Frame
  <2> QED
    BY <1>0, <1>1, <1>2, <1>3, <2>2, <2>3, RecoverMoves DEF RowsKept
<1>6. CASE CatchDbError(k)
  <2>1. Set(k, Moved(f, "recoverThrow", f.copy, f.num, f.at, f.to, f.next))
    BY <1>0, <1>3, <1>6 DEF CatchDbError, Moved, Frame
  <2>2. faults' \in 0..MaxFaults
    BY <1>6, FaultFacts DEF CatchDbError
  <2> QED
    BY <1>0, <1>1, <1>2, <1>3, <2>1, <2>2, RecoverMoves DEF RowsKept
<1> QED
  BY <1>4, <1>5, <1>6

LEMMA CheckpointRestoreInv ==
  ASSUME Inv, NEW k \in Task, CheckpointRestore(k) PROVE Inv'
<1>0. PICK f : f = task[k]
  OBVIOUS
<1>1. task[k] # None /\ f.pc = "checkpoint" /\ UNCHANGED <<row, process, ledger>>
  BY <1>0 DEF CheckpointRestore, At
<1>2. f.pc \in InlinePC /\ "restored" \in InlinePC
  BY <1>1 DEF InlinePC, RowPC
<1>3. /\ f \in Frame /\ f.copy \in Row /\ f.next \in Nat /\ f.to \in Nat
      /\ f.to <= ledger /\ ledger \in Nat
  BY <1>0, <1>1, <1>2, RecoverFacts
<1>4. PICK n \in {0, ledger} :
        /\ Asked(n)
        /\ Set(k, [f EXCEPT !.copy.last = Back(n, CheckpointSpan),
                            !.num = TRUE, !.pc = "restored"])
  BY <1>0 DEF CheckpointRestore
<1>5. n \in Nat /\ n <= ledger /\ faults' \in 0..MaxFaults
  BY <1>4, AskedFacts
<1>6. PICK b \in Nat : b = Back(n, CheckpointSpan) /\ b <= ledger
  BY <1>3, <1>5, BackFacts, NumberAssumption
<1> DEFINE c == [f.copy EXCEPT !.last = b]
<1>7. c \in Row /\ c.last = b
  BY <1>3, <1>6 DEF Row
<1>8. Set(k, Moved(f, "restored", c, TRUE, f.at, f.to, f.next))
  BY <1>3, <1>4, <1>6 DEF Moved, Frame
<1> HIDE DEF c
<1> QED
  BY <1>0, <1>1, <1>2, <1>3, <1>5, <1>6, <1>7, <1>8, RecoverMoves DEF RowsKept

\* IDLE; back to the batches of syncLedger, or to the next row.
LEMMA RecoveredInv == ASSUME Inv, NEW k \in Task, Recovered(k) PROVE Inv'
<1>0. PICK f : f = task[k]
  OBVIOUS
<1> DEFINE c == [f.copy EXCEPT !.status = "idle", !.retry = 0]
           g == [f EXCEPT !.copy = c, !.inline = FALSE, !.to = 0, !.next = 0,
                          !.pc = "batch"]
<1>1. /\ task[k] # None /\ task[k].pc = "recovered" /\ Save(f.ent, c)
      /\ UNCHANGED <<process, ledger, faults>>
  BY <1>0 DEF Recovered, At
<1>2. /\ "recovered" \in RowPC /\ "recovered" \notin SyncPC
      /\ "recoverNext" \in RecoverPC /\ "recoverNext" \notin RowPC
      /\ "recoverNext" \notin SyncPC
  BY DEF RowPC, SyncPC, RecoverPC
<1>3. /\ f \in Frame /\ f.copy \in Row /\ f.ent \in Entity /\ Good(f)
      /\ f.copy.last <= ledger /\ ledger \in Nat
  BY <1>0, <1>1, <1>2, CopyFacts
<1>4. c \in Row /\ c.last = f.copy.last
  BY <1>3 DEF Row, SyncStatus
<1>5. Set(k, IF f.inline THEN g ELSE Between(f, "recoverNext"))
  BY <1>0 DEF Recovered
<1> HIDE DEF c
<1>6. Saved(f.ent, c)
  BY <1>1, <1>3, <1>4 DEF Saved
<1>7. CASE f.inline
  <2>1. /\ g \in Frame /\ g.srv = f.srv /\ g.inline = FALSE /\ g.pc = "batch"
        /\ g.list = f.list /\ g.ent = f.ent /\ g.copy = c
        /\ g.now = f.now /\ g.to = 0
    BY <1>3, <1>4 DEF Frame, SyncPC
  <2> HIDE DEF g
  <2>2. Good(g)
    BY <1>3, <1>4, <2>1 DEF Good
  <2>3. Syncing(g) /\ Syncing(f)
    BY <1>7, <2>1 DEF Syncing, SyncPC
  <2>4. ProcessOK' /\ isSyncing' = isSyncing /\ faults' \in 0..MaxFaults
    BY <1>1, ProcessKept, FaultsKept
  <2> QED
    BY <1>0, <1>1, <1>5, <1>6, <1>7, <2>1, <2>2, <2>3, <2>4, Goes
<1>8. CASE ~f.inline
  BY <1>0, <1>1, <1>2, <1>5, <1>6, <1>8, BetweenInv, FaultsKept
<1> QED
  BY <1>7, <1>8

\* A recovery fails: the cursor of the copy may have moved.
LEMMA RecoverFailsInv == ASSUME Inv, NEW k \in Task, RecoverFails(k) PROVE Inv'
<1>0. PICK f : f = task[k]
  OBVIOUS
<1>1. /\ task[k] # None /\ f.pc \in {"manual", "full", "fullSave", "fullBatch",
                                     "incremental", "fetch", "restored",
                                     "recovered"}
      /\ Fault /\ UNCHANGED <<row, process, ledger>>
  BY <1>0 DEF RecoverFails, At
<1>2. f.pc \in InlinePC /\ "recoverCatch" \in InlinePC
  BY <1>1 DEF InlinePC, RowPC
<1>3. /\ f \in Frame /\ f.copy \in Row /\ f.copy.last \in Nat
      /\ f.copy.last <= ledger /\ f.copy.retry \in Nat /\ f.next \in Nat
      /\ f.to \in Nat /\ f.to <= ledger /\ ledger \in Nat /\ f.num \in BOOLEAN
  BY <1>0, <1>1, <1>2, RecoverFacts
<1>4. PICK l \in {f.copy.last, f.to} \cup FullBatches(k),
           r \in {1, f.copy.retry + 1} :
        Set(k, [f EXCEPT !.copy.last = l, !.copy.status = "error",
                         !.copy.retry = r, !.to = 0, !.next = 0,
                         !.pc = "recoverCatch"])
  BY <1>0 DEF RecoverFails
<1>5. l \in Nat /\ l <= ledger
  BY <1>0, <1>1, <1>3 DEF FullBatches
<1>6. r \in Nat
  BY <1>3
<1> DEFINE c == [f.copy EXCEPT !.last = l, !.status = "error", !.retry = r]
<1>7. c \in Row /\ c.last = l
  BY <1>3, <1>5, <1>6 DEF Row, SyncStatus
<1>8. Set(k, Moved(f, "recoverCatch", c, f.num, f.at, 0, 0))
  BY <1>3, <1>4, <1>6 DEF Moved, Frame
<1> HIDE DEF c
<1>9. faults' \in 0..MaxFaults
  BY <1>1, FaultFacts
<1> QED
  BY <1>0, <1>1, <1>2, <1>3, <1>5, <1>7, <1>8, <1>9, RecoverMoves DEF RowsKept

LEMMA RecoverThrowsInv == ASSUME Inv, NEW k \in Task, RecoverThrows(k) PROVE Inv'
<1>1. task[k] # None /\ task[k].pc = "recoverThrow" /\ faults' \in 0..MaxFaults
  BY FaultsKept DEF RecoverThrows, At
<1>2. CASE task[k].inline
  BY <1>1, <1>2, ThrowsInv DEF RecoverThrows, Syncing
<1>3. CASE ~task[k].inline
  <2>1. /\ Set(k, Between(task[k], "recoverNext"))
        /\ UNCHANGED <<row, process, ledger>>
    BY <1>3 DEF RecoverThrows
  <2>2. /\ "recoverThrow" \in RowPC /\ "recoverThrow" \notin SyncPC
        /\ "recoverNext" \in RecoverPC /\ "recoverNext" \notin RowPC
        /\ "recoverNext" \notin SyncPC
    BY DEF RowPC, SyncPC, RecoverPC
  <2> QED
    BY <1>1, <1>3, <2>1, <2>2, BetweenInv DEF RowsKept
<1> QED
  BY <1>2, <1>3

\* A new task, which is no syncLedger.
LEMMA StartsInv ==
  ASSUME Inv, NEW k \in Task, NEW f \in Frame, Good(f), ~Syncing(f),
         Start(k, f), UNCHANGED <<row, process, ledger>>,
         faults' \in 0..MaxFaults
  PROVE  Inv'
BY Begins, ProcessKept DEF Start, RowsKept

LEMMA ForceRecoveryInv ==
  ASSUME Inv, NEW k \in Task, NEW s \in Server, ForceRecovery(k, s)
  PROVE  Inv'
<1>1. UNCHANGED <<row, process, ledger>> /\ faults' \in 0..MaxFaults
  BY FaultsKept DEF ForceRecovery
<1>2. CASE Start(k, New(s, "findAll")) \/ Start(k, New(s, "validateFind"))
  BY <1>1, <1>2, StartFacts, StartsInv
<1>3. ASSUME NEW e \in Entity,
             Start(k, [New(s, "strategy") EXCEPT !.ent = e, !.copy = row[e]])
      PROVE  Inv'
  <2> DEFINE f == [New(s, "strategy") EXCEPT !.ent = e, !.copy = row[e]]
  <2>1. row[e] \in Row /\ row[e].last <= ledger /\ ledger \in Nat
    BY NumberAssumption DEF Inv, TypeOK, NeverAhead
  <2>2. NoList \in List /\ \A d \in Entity : NoList[d] = None
    BY DEF NoList, List
  <2>3. /\ f \in Frame /\ f.srv = s /\ f.inline = FALSE /\ f.pc = "strategy"
        /\ f.list = NoList /\ f.ent = e /\ f.copy = row[e] /\ f.now = 0
        /\ f.to = 0
    BY <2>1, <2>2 DEF New, Frame, RecoverPC
  <2> HIDE DEF f
  <2>4. Good(f)
    BY <2>1, <2>2, <2>3, NoneAssumption DEF Good
  <2>5. ~Syncing(f)
    BY <2>3 DEF Syncing, SyncPC
  <2>6. Start(k, f)
    BY <1>3 DEF f
  <2> QED
    BY <1>1, <2>3, <2>4, <2>5, <2>6, StartsInv
<1> QED
  BY <1>2, <1>3 DEF ForceRecovery

LEMMA TriggerFullSyncInv ==
  ASSUME Inv, NEW k \in Task, NEW s \in Server, TriggerFullSync(k, s)
  PROVE  Inv'
<1>1. UNCHANGED <<row, process, ledger, faults>>
  BY DEF TriggerFullSync
<1>2. PICK S \in {Entity} \cup {{e} : e \in Entity} :
        Start(k, [New(s, "fullSync") EXCEPT !.list = Found(S)])
  BY DEF TriggerFullSync
<1>3. S \in SUBSET Entity
  OBVIOUS
<1> DEFINE f == [New(s, "fullSync") EXCEPT !.list = Found(S)]
<1>4. /\ Found(S) \in List
      /\ \A e \in Entity : Found(S)[e] \in Row => Found(S)[e].last <= ledger
  BY <1>3, FoundFacts
<1>5. ledger \in Nat
  BY NumberAssumption DEF Inv, TypeOK
<1>6. /\ f \in Frame /\ f.srv = s /\ f.inline = FALSE /\ f.pc = "fullSync"
      /\ f.list = Found(S) /\ f.copy = None /\ f.now = 0 /\ f.to = 0
  BY <1>4 DEF New, Frame
<1>7. Start(k, f)
  BY <1>2
<1> HIDE DEF f
<1>8. Good(f)
  BY <1>4, <1>5, <1>6, NoneAssumption DEF Good, RowPC
<1>9. ~Syncing(f)
  BY <1>6 DEF Syncing, SyncPC
<1> QED
  BY <1>1, <1>6, <1>7, <1>8, <1>9, StartsInv, FaultsKept

-----------------------------------------------------------------------------
(* PartitionHandler.                                                       *)

\* The loops that save one copy after the other.
LEMMA SaveNextInv ==
  ASSUME Inv, NEW k \in Task, NEW e \in Entity, task[k] # None,
         task[k].pc \notin RowPC, NEW r \in Row, r.last <= ledger,
         SaveNext(k, e, r)
  PROVE  Inv'
<1>1. Saved(e, r)
  BY DEF Saved, SaveNext
<1> QED
  BY <1>1, RestInv DEF SaveNext

LEMMA RowsInv ==
  ASSUME Inv, NEW k \in Task, NEW e \in Entity,
         \/ MarkRow(k, e) \/ PauseRow(k, e) \/ ResumeRow(k, e)
         \/ MissedRow(k, e) \/ FullSyncRow(k, e) \/ ResetRow(k, e)
  PROVE  Inv'
<1>0. PICK c : c = task[k].list[e]
  OBVIOUS
<1>1. /\ task[k] # None
      /\ task[k].pc \in {"mark", "pause", "resume", "missed", "fullSync", "reset"}
      /\ Takes(k, e)
  BY DEF MarkRow, PauseRow, ResumeRow, MissedRow, FullSyncRow, ResetRow, At,
         SaveNext
<1>2. c \in Row /\ c.last <= ledger
  BY <1>0, <1>1, TakenFacts
<1>3. task[k].pc \notin RowPC
  BY <1>1 DEF RowPC
<1>4. /\ task[k].now \in Nat /\ task[k].now <= ledger /\ ledger \in Nat
      /\ c.retry \in Nat
  BY <1>1, <1>2, FrameFacts DEF Good, Frame, Row
<1> DEFINE p == [c EXCEPT !.status = "partitioned"]
           i == [c EXCEPT !.status = "idle"]
           r == [c EXCEPT !.status = "recovering"]
           z == [c EXCEPT !.status = "idle", !.last = 0]
           t == [status |-> "recovering", last |-> task[k].now,
                 retry |-> c.retry + 1]
<1>5. /\ p \in Row /\ p.last = c.last /\ i \in Row /\ i.last = c.last
      /\ r \in Row /\ r.last = c.last
  BY <1>2 DEF Row, SyncStatus
<1>6. z \in Row /\ z.last = 0
  BY <1>2 DEF Row, SyncStatus
<1>7. t \in Row /\ t.last = task[k].now
  BY <1>4 DEF Row, SyncStatus
<1>8. \E x \in {p, i, r, z, t} : SaveNext(k, e, x)
  BY <1>0 DEF MarkRow, PauseRow, ResumeRow, MissedRow, FullSyncRow, ResetRow
<1> HIDE DEF p, i, r, z, t
<1>9. \A x \in {p, i, r, z, t} : x \in Row /\ x.last <= ledger
  BY <1>2, <1>4, <1>5, <1>6, <1>7
<1> QED
  BY <1>1, <1>3, <1>8, <1>9, SaveNextInv

LEMMA ValidRowInv ==
  ASSUME Inv, NEW k \in Task, NEW e \in Entity, ValidRow(k, e) PROVE Inv'
<1>1. task[k] # None /\ task[k].pc = "validate" /\ Takes(k, e)
  BY DEF ValidRow, At
<1> QED
  BY <1>1, RestInv DEF ValidRow, RowPC, RowsKept

LEMMA InvalidRowInv ==
  ASSUME Inv, NEW k \in Task, NEW e \in Entity, InvalidRow(k, e) PROVE Inv'
<1>0. PICK f : f = task[k]
  OBVIOUS
<1>1. /\ task[k] # None /\ f.pc = "validate" /\ Takes(k, e)
      /\ UNCHANGED <<row, process, ledger>>
  BY <1>0 DEF InvalidRow, At
<1>2. PICK n \in {0, ledger} :
        /\ Asked(n) \/ Fault
        /\ Set(k, [f EXCEPT !.list = Rest(k, e), !.ent = e,
                            !.copy = [f.list[e] EXCEPT !.last =
                                                         Back(n, SafetyMargin)],
                            !.pc = "rewind"])
  BY <1>0 DEF InvalidRow
<1>3. n \in Nat /\ n <= ledger
  BY NumberAssumption DEF Inv, TypeOK
<1>4. faults' \in 0..MaxFaults
  BY <1>2, AskedFacts, FaultFacts
<1>5. PICK b \in Nat : b = Back(n, SafetyMargin) /\ b <= ledger
  BY <1>3, BackFacts, NumberAssumption DEF Inv, TypeOK
<1>6. f \in Frame /\ f.list[e] \in Row
  BY <1>0, <1>1, FrameFacts, TakenFacts
<1>7. Rest(k, e) \in List
  BY <1>0, <1>6 DEF Rest, List, Frame
<1> DEFINE c == [f.list[e] EXCEPT !.last = b]
           g == [f EXCEPT !.list = Rest(k, e), !.ent = e, !.copy = c,
                          !.pc = "rewind"]
<1>8. c \in Row /\ c.last = b
  BY <1>5, <1>6 DEF Row
<1>9. Set(k, g)
  BY <1>2, <1>5
<1> HIDE DEF c
<1>10. /\ g \in Frame /\ g.srv = f.srv /\ g.inline = f.inline /\ g.pc = "rewind"
       /\ g.list = Rest(k, e) /\ g.ent = e /\ g.copy = c
       /\ g.now = f.now /\ g.to = f.to
  BY <1>6, <1>7, <1>8 DEF Frame, PartitionPC
<1> HIDE DEF g
<1>11. /\ "rewind" \notin SyncPC /\ "validate" \notin SyncPC
       /\ "validate" \notin RowPC /\ "rewind" \in RowPC
  BY DEF SyncPC, RowPC
<1> QED
  BY <1>0, <1>1, <1>4, <1>5, <1>8, <1>9, <1>10, <1>11, TakesInv DEF RowsKept

LEMMA RewindRowInv == ASSUME Inv, NEW k \in Task, RewindRow(k) PROVE Inv'
<1>1. /\ task[k] # None /\ task[k].pc = "rewind"
      /\ Save(task[k].ent, task[k].copy) /\ Set(k, Between(task[k], "validate"))
      /\ UNCHANGED <<process, ledger, faults>>
  BY DEF RewindRow, At
<1>2. /\ "rewind" \in RowPC /\ "rewind" \notin SyncPC /\ "rewind" \notin InlinePC
      /\ "validate" \in PartitionPC /\ "validate" \notin RowPC
      /\ "validate" \notin SyncPC
  BY DEF RowPC, SyncPC, InlinePC, PartitionPC
<1>3. PICK f : f = task[k]
  OBVIOUS
<1>4. f.ent \in Entity /\ f.copy \in Row /\ f.copy.last <= ledger /\ ~f.inline
  BY <1>1, <1>2, <1>3, CopyFacts DEF Frame
<1>5. Saved(f.ent, f.copy)
  BY <1>1, <1>3, <1>4 DEF Saved
<1> QED
  BY <1>1, <1>2, <1>3, <1>4, <1>5, BetweenInv, FaultsKept

\* The finds.
LEMMA FindNextInv ==
  ASSUME Inv, NEW k \in Task, NEW from, NEW to \in PartitionPC,
         from \notin SyncPC, from \notin RowPC, to \notin SyncPC, to \notin RowPC,
         NEW S \in SUBSET Entity, FindNext(k, from, S, to), ProcessOK',
         isSyncing' = isSyncing
  PROVE  Inv'
BY FindsInv, FaultsKept DEF FindNext, At

LEMMA PartitionFindsInv ==
  ASSUME Inv, NEW k \in Task,
         \/ MarkFinds(k) \/ HandlePartition(k) \/ ValidateFinds(k)
         \/ ResumeFinds(k) \/ MissedFinds(k) \/ FallbackFinds(k)
  PROVE  Inv'
<1>1. \E from \in {"markFind", "mark", "validateFind", "validate", "missedFind",
                   "fallbackFind"},
         to \in {"mark", "pause", "validate", "resume", "missed", "reset"},
         S \in SUBSET Entity : FindNext(k, from, S, to)
  BY DEF MarkFinds, HandlePartition, ValidateFinds, ResumeFinds, MissedFinds,
         FallbackFinds, WithStatus
<1>2. /\ \A p \in {"markFind", "mark", "validateFind", "validate", "missedFind",
                   "fallbackFind"} : p \notin SyncPC /\ p \notin RowPC
      /\ \A p \in {"mark", "pause", "validate", "resume", "missed", "reset"} :
           p \in PartitionPC /\ p \notin SyncPC /\ p \notin RowPC
  BY DEF SyncPC, RowPC, PartitionPC
<1>3. ProcessOK' /\ isSyncing' = isSyncing
  <2>1. CASE UNCHANGED process
    BY <2>1, ProcessKept
  <2>2. CASE HandlePartition(k)
    BY <2>2 DEF HandlePartition, ProcessOK, Inv, TypeOK
  <2> QED
    BY <2>1, <2>2 DEF MarkFinds, ValidateFinds, ResumeFinds, MissedFinds,
                      FallbackFinds
<1> QED
  BY <1>1, <1>2, <1>3, FindNextInv

LEMMA CatchUpMissedInv ==
  ASSUME Inv, NEW k \in Task, CatchUpMissed(k) PROVE Inv'
<1>1. /\ task[k] # None /\ task[k].pc = "resume"
      /\ UNCHANGED <<row, process, ledger>>
  BY DEF CatchUpMissed, At
<1>2. PICK n \in {0, ledger} :
        Asked(n) /\ Set(k, [task[k] EXCEPT !.now = n, !.pc = "missedFind"])
  BY DEF CatchUpMissed
<1>3. n \in Nat /\ n <= ledger /\ faults' \in 0..MaxFaults
  BY <1>2, AskedFacts
<1>4. Set(k, [task[k] EXCEPT !.pc = "missedFind", !.now = n])
  BY <1>2
<1> QED
  BY <1>1, <1>3, <1>4, AsksInv DEF SyncPC, RowPC, PartitionPC

LEMMA FallbackInv == ASSUME Inv, NEW k \in Task, Fallback(k) PROVE Inv'
<1>1. /\ task[k] # None /\ task[k].pc = "fallback"
      /\ UNCHANGED <<row, process, ledger>>
  BY DEF Fallback, At
<1>2. PICK n \in {0, ledger} :
        /\ Asked(n)
        /\ Set(k, [task[k] EXCEPT !.now = Back(n, SafetyMargin),
                                  !.pc = "fallbackFind"])
  BY DEF Fallback
<1>3. n \in Nat /\ n <= ledger /\ faults' \in 0..MaxFaults
  BY <1>2, AskedFacts
<1>4. PICK b \in Nat : b = Back(n, SafetyMargin) /\ b <= ledger
  BY <1>3, BackFacts, NumberAssumption DEF Inv, TypeOK
<1>5. Set(k, [task[k] EXCEPT !.pc = "fallbackFind", !.now = b])
  BY <1>2, <1>4
<1> QED
  BY <1>1, <1>3, <1>4, <1>5, AsksInv DEF SyncPC, RowPC, PartitionPC

\* The ends of the tasks.
LEMMA TaskEndsInv ==
  ASSUME Inv, NEW k \in Task,
         StartRecoveryMonitoring(k) \/ LoopEnds(k) \/ TaskDbError(k)
  PROVE  Inv'
<1>1. /\ task[k] # None
      /\ task[k].pc \in {"pause", "reset", "fullSync", "findAll", "markFind",
                         "mark", "fallbackFind"}
      /\ End(k) /\ UNCHANGED <<row, ledger>>
  BY DEF StartRecoveryMonitoring, LoopEnds, TaskDbError, At
<1>2. task[k].pc \notin SyncPC /\ task[k].pc \notin RowPC
  BY <1>1 DEF SyncPC, RowPC
<1>3. faults' \in 0..MaxFaults
  BY FaultFacts, FaultsKept DEF StartRecoveryMonitoring, LoopEnds, TaskDbError
<1>4. ProcessOK' /\ isSyncing' = isSyncing
  <2>1. CASE UNCHANGED process
    BY <2>1, ProcessKept
  <2>2. CASE StartRecoveryMonitoring(k)
    BY <2>2 DEF StartRecoveryMonitoring, ProcessOK, Inv, TypeOK
  <2> QED
    BY <2>1, <2>2 DEF LoopEnds, TaskDbError
<1> QED
  BY <1>1, <1>2, <1>3, <1>4, EndsInv

\* The recovery of a partition ends, or falls back on setting the rows back.
LEMMA PartitionEndsInv ==
  ASSUME Inv, NEW k \in Task, PartitionOver(k) \/ PartitionRecoveryFails(k)
  PROVE  Inv'
<1>0. PICK s \in Server : task[k] # None => s = task[k].srv
  BY FrameFacts DEF PartitionOver, PartitionRecoveryFails, At
<1>1. /\ task[k] # None
      /\ task[k].pc \in {"validateFind", "rewind", "resume", "missedFind",
                         "missed"}
      /\ UNCHANGED <<row, isSyncing, ledger>>
  BY DEF PartitionOver, PartitionRecoveryFails, At, process
<1>2. task[k].pc \notin SyncPC /\ task[k].pc \notin InlinePC
  BY <1>1 DEF SyncPC, InlinePC, RowPC
<1>3. ~Syncing(task[k])
  BY <1>1, <1>2, FrameFacts DEF Good, Syncing, Frame
<1>4. /\ New(s, "fallback") \in Frame /\ Good(New(s, "fallback"))
      /\ ~Syncing(New(s, "fallback"))
  BY StartFacts
<1>5. Set(k, None) \/ Set(k, New(s, "fallback"))
  BY <1>0, <1>1 DEF PartitionOver, PartitionRecoveryFails, End
<1>6. faults' \in 0..MaxFaults
  BY FaultFacts, FaultsKept DEF PartitionOver, PartitionRecoveryFails
<1>7. ProcessOK'
  <2>1. CASE UNCHANGED process
    BY <2>1, ProcessKept
  <2>2. CASE PartitionOver(k)
    BY <2>2 DEF PartitionOver, ProcessOK, Inv, TypeOK
  <2> QED
    BY <2>1, <2>2 DEF PartitionRecoveryFails
<1> QED
  BY <1>1, <1>3, <1>4, <1>5, <1>6, <1>7, Begins DEF RowsKept

LEMMA DetectInv ==
  ASSUME Inv, NEW k \in Task, NEW s \in Server,
         DetectPartition(k, s) \/ MonitorTick(k, s)
  PROVE  Inv'
<1>1. /\ UNCHANGED <<row, process, ledger>>
      /\ Start(k, New(s, "markFind")) \/ Start(k, New(s, "checkAsk"))
  BY DEF DetectPartition, MonitorTick
<1>2. faults' \in 0..MaxFaults
  BY FaultFacts, FaultsKept DEF DetectPartition, MonitorTick
<1> QED
  BY <1>1, <1>2, StartFacts, StartsInv

\* The check of the monitoring: asks, finds and starts the recovery, or ends.
LEMMA CheckInv ==
  ASSUME Inv, NEW k \in Task, CheckAsks(k) \/ CheckFinds(k) \/ NotRecovered(k)
  PROVE  Inv'
<1>0. PICK s \in Server : task[k] # None => s = task[k].srv
  BY FrameFacts DEF CheckAsks, CheckFinds, NotRecovered, At
<1>1. /\ task[k] # None /\ task[k].pc \in {"checkAsk", "checkFind"}
      /\ UNCHANGED <<row, process, ledger, faults>>
  BY DEF CheckAsks, CheckFinds, NotRecovered, At
<1>2. task[k].pc \notin SyncPC /\ task[k].pc \notin RowPC
  BY <1>1 DEF SyncPC, RowPC
<1>3. faults' \in 0..MaxFaults /\ ProcessOK'
  BY <1>1, FaultsKept, ProcessKept
<1>4. CASE CheckAsks(k)
  <2>1. Set(k, [task[k] EXCEPT !.pc = "checkFind", !.now = ledger])
    BY <1>4 DEF CheckAsks
  <2>2. ledger \in Nat /\ ledger <= ledger
    BY NumberAssumption DEF Inv, TypeOK
  <2>3. /\ "checkFind" \in PartitionPC /\ "checkFind" \notin SyncPC
        /\ "checkFind" \notin RowPC
    BY DEF SyncPC, RowPC, PartitionPC
  <2> QED
    BY <1>1, <1>2, <1>3, <2>1, <2>2, <2>3, AsksInv
<1>5. CASE CheckFinds(k)
  <2>1. Set(k, New(s, "validateFind"))
    BY <1>0, <1>1, <1>5 DEF CheckFinds
  <2>2. ~Syncing(task[k])
    <3>1. task[k].pc \notin InlinePC
      BY <1>1 DEF InlinePC, RowPC
    <3> QED
      BY <1>1, <1>2, <3>1, FrameFacts DEF Good, Syncing, Frame
  <2>3. /\ New(s, "validateFind") \in Frame /\ Good(New(s, "validateFind"))
        /\ ~Syncing(New(s, "validateFind"))
    BY StartFacts
  <2>4. UNCHANGED <<isSyncing, ledger>> /\ RowsKept
    BY <1>1 DEF process, RowsKept
  <2> QED
    BY <1>3, <2>1, <2>2, <2>3, <2>4, Begins
<1>6. CASE NotRecovered(k)
  <2>1. End(k) /\ UNCHANGED <<row, isSyncing, ledger>>
    BY <1>1, <1>6 DEF NotRecovered, process
  <2> QED
    BY <1>1, <1>2, <1>3, <2>1, EndsInv
<1> QED
  BY <1>4, <1>5, <1>6

-----------------------------------------------------------------------------
(* The rest, and all of it.                                                *)
LEMMA MonitorEndsInv == ASSUME Inv, NEW s \in Server, MonitorEnds(s) PROVE Inv'
<1>1. TypeOK'
  BY DEF MonitorEnds, Inv, TypeOK
<1> QED
  BY <1>1 DEF MonitorEnds, Inv, NeverAhead, SyncExclusive, Syncs, Good

LEMMA LedgerClosesInv == ASSUME Inv, LedgerCloses PROVE Inv'
<1>1. ledger \in Nat /\ ledger' = ledger + 1 /\ ledger' \in 0..MaxLedger
  BY NumberAssumption DEF LedgerCloses, Inv, TypeOK
<1>2. UNCHANGED <<row, task, isSyncing, polling, errors, isPartitioned,
                  monitoring, faults>>
  BY DEF LedgerCloses, process
<1>3. TypeOK'
  BY <1>1, <1>2 DEF Inv, TypeOK
<1>4. SyncExclusive'
  BY <1>2 DEF Inv, SyncExclusive, Syncs
<1>5. NeverAhead'
  BY <1>1, <1>2 DEF Inv, TypeOK, NeverAhead, Row
<1>6. ASSUME NEW k \in Task, task[k] # None PROVE Good(task[k])'
  <2>0. PICK f : f = task[k]
    OBVIOUS
  <2>1. f \in Frame /\ Good(f)
    BY <1>6, <2>0, FrameFacts
  <2>2. /\ f.now \in Nat /\ f.to \in Nat
        /\ \A e \in Entity : f.list[e] \in Row => f.list[e].last \in Nat
        /\ f.copy \in Row => f.copy.last \in Nat
    BY <2>1 DEF Frame, Row
  <2>3. Good(f)'
    BY <1>1, <2>1, <2>2 DEF Good
  <2> QED
    BY <1>2, <2>0, <2>3 DEF Good
<1> QED
  BY <1>2, <1>3, <1>4, <1>5, <1>6 DEF Inv

LEMMA RestartInv == ASSUME Inv, NEW s \in Server, Restart(s) PROVE Inv'
<1>1. /\ UNCHANGED <<row, ledger>>
      /\ \A k \in Task : task'[k] = IF task[k] # None /\ task[k].srv = s
                                      THEN None ELSE task[k]
      /\ isSyncing' = [isSyncing EXCEPT ![s] = FALSE]
  BY DEF Restart
<1>2. faults' \in 0..MaxFaults
  BY FaultFacts DEF Restart
<1>3. task' \in [Task -> Frame \cup {None}]
  BY DEF Restart, Inv, TypeOK
<1>4. /\ isSyncing' \in [Server -> BOOLEAN] /\ polling' \in [Server -> BOOLEAN]
      /\ errors' \in [Server -> 0..StreamRetries]
      /\ isPartitioned' \in [Server -> BOOLEAN]
      /\ monitoring' \in [Server -> BOOLEAN]
  BY NumberAssumption DEF Restart, Inv, TypeOK
<1>5. TypeOK'
  BY <1>1, <1>2, <1>3, <1>4 DEF Inv, TypeOK
<1>6. NeverAhead'
  BY <1>1 DEF Inv, NeverAhead
<1>7. \A k \in Task, u \in Server : Syncs(k, u)' <=> Syncs(k, u) /\ u # s
  BY <1>1 DEF Syncs
<1>8. SyncExclusive'
  BY <1>1, <1>7 DEF Inv, TypeOK, SyncExclusive
<1>9. \A k \in Task : task'[k] # None => Good(task[k])'
  BY <1>1 DEF Inv, Good
<1> QED
  BY <1>5, <1>6, <1>8, <1>9 DEF Inv

\* Every step keeps the invariant.
LEMMA StepInv == Inv /\ [Next]_vars => Inv'
<1> SUFFICES ASSUME Inv, [Next]_vars PROVE Inv'
  OBVIOUS
<1>1. CASE UNCHANGED vars
  BY <1>1 DEF vars, Inv, TypeOK, NeverAhead, SyncExclusive, Syncs, Good
<1>2. ASSUME NEW k \in Task, SyncSteps(k) PROVE Inv'
  BY <1>2, SyncAsksInv, SyncFindsInv, SyncReturnsInv, SyncMarksInv,
     BatchSavedInv, HandleBatchErrorInv, RangeDoneInv DEF SyncSteps
<1>3. ASSUME NEW k \in Task, RecoverSteps(k) PROVE Inv'
  BY <1>3, RecoverFindsInv, RecoverReturnsInv, RecoverTakesInv, StrategyInv,
     SavesInv, CheckpointRestoreInv, FullResetInv, FullBatchInv, RecoverOnInv,
     FetchInv, RecoveredInv, RecoverThrowsInv DEF RecoverSteps
<1>4. ASSUME NEW k \in Task, PartitionSteps(k) PROVE Inv'
  BY <1>4, PartitionFindsInv, TaskEndsInv, RowsInv, ValidRowInv, InvalidRowInv,
     RewindRowInv, CatchUpMissedInv, PartitionEndsInv, FallbackInv, CheckInv
     DEF PartitionSteps
<1>5. ASSUME NEW k \in Task, Errors(k) PROVE Inv'
  BY <1>5, BatchFailsInv, SyncDbErrorInv, RecoverFailsInv, RecoverOnInv,
     PartitionEndsInv, TaskEndsInv DEF Errors
<1>6. ASSUME NEW k \in Task, NEW s \in Server,
             \/ SyncTick(k, s) \/ DetectPartition(k, s) \/ MonitorTick(k, s)
             \/ ForceRecovery(k, s) \/ TriggerFullSync(k, s)
      PROVE  Inv'
  BY <1>6, TickInv, DetectInv, ForceRecoveryInv, TriggerFullSyncInv
<1>7. ASSUME NEW s \in Server, Restart(s) \/ MonitorEnds(s) PROVE Inv'
  BY <1>7, RestartInv, MonitorEndsInv
<1>8. ASSUME NEW k \in Task, ConflictSaved(k) PROVE Inv'
  BY <1>8, ConflictInv
<1> QED
  BY <1>1, <1>2, <1>3, <1>4, <1>5, <1>6, <1>7, <1>8, LedgerClosesInv
     DEF Next, Steps

\* The inductive invariant holds for ever.
LEMMA Invariance == Spec => []Inv
BY InitInv, StepInv, PTL DEF Spec

\* Rows, frames and flags have their types, at every step of every handler of
\* SyncService, RecoveryService and PartitionHandler.
THEOREM LedgerTypes == Spec => []TypeOK
<1>1. Inv => TypeOK
  BY DEF Inv
<1> QED
  BY <1>1, Invariance, PTL

\* No handler, from whatever stale copy, appended digit or answer of 0, ever
\* writes a ledger that the network has not closed.
THEOREM RowsNeverAhead == Spec => []NeverAhead
<1>1. Inv => NeverAhead
  BY DEF Inv
<1> QED
  BY <1>1, Invariance, PTL

\* One syncLedger of a replica at a time, and isSyncing tells whether there is
\* one, whichever way it ends, the recoveries it calls included.
THEOREM OneSyncAtATime == Spec => []SyncExclusive
<1>1. Inv => SyncExclusive
  BY DEF Inv
<1> QED
  BY <1>1, Invariance, PTL
=============================================================================
