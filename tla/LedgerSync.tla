----------------------------- MODULE LedgerSync -----------------------------
(***************************************************************************)
(* Ledger synchronisation (src/src/sync): SyncService follows the ledgers  *)
(* of the network, one row of sync_states per entity; PartitionHandler     *)
(* pauses and resumes the rows; RecoveryService repairs them.  All three   *)
(* write the rows, each from copies it read before an await.               *)
(*                                                                         *)
(* last_ledger_sequence is a bigint column: it is read as a string, so     *)
(* "+ 1" appends a digit until the program has assigned a number.          *)
(***************************************************************************)
EXTENDS Integers

CONSTANTS Server,          \* replicas of the backend
          Entity,          \* rows of sync_states
          Task,            \* slots for handlers in progress (a bound)
          MaxLedger,       \* where the network stops (a bound)
          MaxFaults,       \* failing calls and restarts (a bound)
          MaxEvents,       \* ledgers and faults together (a bound)
          StreamRetries,   \* retry(3)
          BatchRetries,    \* batch errors before a recovery: 3
          ManualRetries,   \* errors before manual intervention: 5
          PartitionGap,    \* ledgers behind that mean a partition: 100
          RecoveredGap,    \* ledgers behind that mean its end: 10
          SafetyMargin,    \* the safe starting point: 100 ledgers back
          FullSpan,        \* a full sync: 1000 ledgers back
          CheckpointSpan,  \* the checkpoint: 3600 ledgers back
          FullGap,         \* ledgers behind that ask for a full sync: 1000
          CheckpointGap,   \* ... and for a checkpoint restore: 10000
          None

ASSUME NumberAssumption ==
  /\ MaxLedger \in Nat /\ MaxFaults \in Nat /\ MaxEvents \in Nat
  /\ StreamRetries \in Nat /\ BatchRetries \in Nat /\ ManualRetries \in Nat
  /\ PartitionGap \in Nat /\ RecoveredGap \in Nat /\ SafetyMargin \in Nat
  /\ FullSpan \in Nat /\ CheckpointSpan \in Nat
  /\ FullGap \in Nat /\ CheckpointGap \in Nat

VARIABLES
  row,        \* the table sync_states
  task,       \* handlers between two awaits
  isSyncing,  \* per replica: SyncService.isSyncing
  polling,    \* per replica: the 5 s stream is alive
  errors,     \* per replica: errors its retry operator has seen
  isPartitioned, \* per replica: PartitionHandler.isPartitioned
  monitoring, \* per replica: the 10 s interval of the handler is alive
  ledger,     \* the last ledger of the network
  faults      \* failing calls and restarts so far

vars == <<row, task, isSyncing, polling, errors, isPartitioned, monitoring,
          ledger, faults>>

partition == <<isPartitioned, monitoring>>

process == <<isSyncing, polling, errors, isPartitioned, monitoring>>

-----------------------------------------------------------------------------
(* Data.                                                                   *)

SyncStatus == {"idle", "syncing", "partitioned", "recovering", "error"}

Row == [status : SyncStatus, last : Nat, retry : Nat]

\* What a find returned: the copies still to be handled.
List == [Entity -> Row \cup {None}]

NoList == [e \in Entity |-> None]

Found(S) == [e \in Entity |-> IF e \in S THEN row[e] ELSE None]

SyncPC == {"syncAsk", "syncFind", "syncNext", "batch", "batchCatch"}

RecoverPC == {"findAll", "recoverNext", "strategy", "manual", "full",
              "fullReset", "fullSave", "fullBatch", "incremental", "catchUp",
              "fetch", "checkpoint", "restored", "recovered", "recoverCatch",
              "recoverThrow"}

PartitionPC == {"markFind", "mark", "pause", "checkAsk", "checkFind",
                "validateFind", "validate", "rewind", "resume", "missedFind",
                "missed", "fallback", "fallbackFind", "reset"}

\* list: copies to handle; ent, copy: the entity object at hand, num says
\* whether its lastLedgerSequence is a number by now; now: what the network
\* answered; at: the next ledger to process; to, next: the same of a recovery;
\* inline: that recovery was called by syncLedger.
Frame == [pc : SyncPC \cup RecoverPC \cup PartitionPC \cup {"fullSync"},
          srv : Server, list : List, ent : Entity \cup {None},
          copy : Row \cup {None}, num : BOOLEAN, now : Nat, at : Nat,
          to : Nat, next : Nat, inline : BOOLEAN]

ASSUME NoneAssumption == None \notin Row /\ None \notin Frame

New(s, pc) == [pc |-> pc, srv |-> s, list |-> NoList, ent |-> None,
               copy |-> None, num |-> FALSE, now |-> 0, at |-> 0,
               to |-> 0, next |-> 0, inline |-> FALSE]

At(k, pc) == task[k] # None /\ task[k].pc = pc

Set(k, f) == task' = [task EXCEPT ![k] = f]

Start(k, f) == task[k] = None /\ Set(k, f)

End(k) == Set(k, None)

\* Between two rows of a loop.
Between(f, pc) == [f EXCEPT !.pc = pc, !.ent = None, !.copy = None,
                            !.num = FALSE, !.at = 0, !.to = 0, !.next = 0]

\* Take the next copy of the list.
Takes(k, e) == task[k].list[e] # None

Rest(k, e) == [task[k].list EXCEPT ![e] = None]

Through(k) == \A e \in Entity : ~Takes(k, e)

\* repository.save of the whole entity.
Save(e, r) == row' = [row EXCEPT ![e] = r]

\* lastLedgerSequence + 1, of a number and of a string of digits.
NextLedger(f) == IF f.num THEN f.copy.last + 1 ELSE 10 * f.copy.last + 1

\* Math.max(0, n - span)
Back(n, span) == IF n > span THEN n - span ELSE 0

Fault == /\ faults < MaxFaults /\ ledger + faults < MaxEvents
         /\ faults' = faults + 1

\* getCurrentLedgerSequence answers 0 when it fails.
Asked(n) == \/ n = ledger /\ UNCHANGED faults
            \/ n = 0 /\ Fault

-----------------------------------------------------------------------------
Init ==
  /\ ledger \in 0..MaxLedger
  /\ row \in [Entity -> [status : {"idle"}, last : {0, ledger}, retry : {0}]]
  /\ task = [k \in Task |-> None]
  /\ isSyncing = [s \in Server |-> FALSE]
  /\ polling = [s \in Server |-> TRUE]
  /\ errors = [s \in Server |-> 0]
  /\ isPartitioned = [s \in Server |-> FALSE]
  /\ monitoring = [s \in Server |-> FALSE]
  /\ faults = 0

LedgerCloses ==
  /\ ledger < MaxLedger /\ ledger + faults < MaxEvents
  /\ ledger' = ledger + 1
  /\ UNCHANGED <<row, task, process, faults>>

\* Everything that lives in the process starts afresh; rows stay.
Restart(s) ==
  /\ Fault
  /\ task' = [k \in Task |-> IF task[k] # None /\ task[k].srv = s
                               THEN None ELSE task[k]]
  /\ isSyncing' = [isSyncing EXCEPT ![s] = FALSE]
  /\ polling' = [polling EXCEPT ![s] = TRUE]
  /\ errors' = [errors EXCEPT ![s] = 0]
  /\ isPartitioned' = [isPartitioned EXCEPT ![s] = FALSE]
  /\ monitoring' = [monitoring EXCEPT ![s] = FALSE]
  /\ UNCHANGED <<row, ledger>>

-----------------------------------------------------------------------------
(* SyncService.syncLedger, called by the 5 s stream.                       *)

Behind(k, e) == row[e].status = "idle" /\ row[e].last < task[k].now

\* Mutant: the flag is not tested.
TickAgain(k, s) ==
  /\ polling[s]
  /\ Start(k, New(s, "syncAsk"))
  /\ isSyncing' = [isSyncing EXCEPT ![s] = TRUE]
  /\ UNCHANGED <<row, polling, errors, partition, ledger, faults>>

SyncTick(k, s) ==
  /\ polling[s] /\ ~isSyncing[s]
  /\ Start(k, New(s, "syncAsk"))
  /\ isSyncing' = [isSyncing EXCEPT ![s] = TRUE]
  /\ UNCHANGED <<row, polling, errors, partition, ledger, faults>>

SyncAsks(k) ==
  /\ At(k, "syncAsk")
  /\ \E n \in {0, ledger} :
       Asked(n) /\ Set(k, [task[k] EXCEPT !.pc = "syncFind", !.now = n])
  /\ UNCHANGED <<row, process, ledger>>

SyncFinds(k) ==
  /\ At(k, "syncFind")
  /\ Set(k, [task[k] EXCEPT !.pc = "syncNext",
                            !.list = Found({e \in Entity : Behind(k, e)})])
  /\ UNCHANGED <<row, process, ledger, faults>>

\* processLedgerRange: the row is marked, then its batches run.
SyncMarks(k, e) ==
  /\ At(k, "syncNext") /\ Takes(k, e)
  /\ LET c == [task[k].list[e] EXCEPT !.status = "syncing"]
         f == [task[k] EXCEPT !.list = Rest(k, e), !.ent = e, !.copy = c,
                              !.num = FALSE, !.pc = "batch"]
     IN Save(e, c) /\ Set(k, [f EXCEPT !.at = NextLedger(f)])
  /\ UNCHANGED <<process, ledger, faults>>

\* The batches are contiguous; the size comes from the optimizer, and the
\* string arithmetic of createBatches makes them longer.
Batches(k) == IF task[k] = None THEN {} ELSE task[k].at .. task[k].now

\* Mutant: the cursor is set to where the next batch starts.
BatchOvershoots(k, b) ==
  /\ At(k, "batch")
  /\ LET f == [task[k] EXCEPT !.copy.last = b + 1, !.num = TRUE, !.at = b + 1]
     IN Save(f.ent, f.copy) /\ Set(k, f)
  /\ UNCHANGED <<process, ledger, faults>>

BatchSaved(k, b) ==
  /\ At(k, "batch")
  /\ LET f == [task[k] EXCEPT !.copy.last = b, !.num = TRUE, !.at = b + 1]
     IN Save(f.ent, f.copy) /\ Set(k, f)
  /\ UNCHANGED <<process, ledger, faults>>

\* A conflict is counted, and the copy saved, in the middle of a batch.
ConflictSaved(k) ==
  /\ At(k, "batch") /\ Batches(k) # {}
  /\ Save(task[k].ent, task[k].copy)
  /\ UNCHANGED <<task, process, ledger, faults>>

\* A batch that fails is skipped.  If it was its last save that failed, the
\* cursor has moved in the copy.
BatchFails(k, b) ==
  /\ At(k, "batch") /\ Fault
  /\ LET f == [task[k] EXCEPT !.copy.status = "error", !.copy.retry = @ + 1,
                              !.at = b + 1, !.pc = "batchCatch"]
     IN Set(k, f) \/ Set(k, [f EXCEPT !.copy.last = b, !.num = TRUE])
  /\ UNCHANGED <<row, process, ledger>>

\* A transaction that fails counts too, and processTransaction saves that.
TransactionFails(k, b) ==
  /\ At(k, "batch") /\ Fault
  /\ \/ Save(task[k].ent, [task[k].copy EXCEPT !.retry = @ + 1])
     \/ UNCHANGED row
  /\ Set(k, [task[k] EXCEPT !.copy.status = "error", !.copy.retry = @ + 2,
                            !.at = b + 1, !.pc = "batchCatch"])
  /\ UNCHANGED <<process, ledger>>

HandleBatchError(k) ==
  /\ At(k, "batchCatch")
  /\ Save(task[k].ent, task[k].copy)
  /\ Set(k, IF task[k].copy.retry > BatchRetries
              THEN [task[k] EXCEPT !.pc = "strategy", !.inline = TRUE]
              ELSE [task[k] EXCEPT !.pc = "batch"])
  /\ UNCHANGED <<process, ledger, faults>>

\* The row reads IDLE again whatever its batches did.
RangeDone(k) ==
  /\ At(k, "batch") /\ Batches(k) = {}
  /\ LET c == [task[k].copy EXCEPT !.status = "idle"] IN
     /\ Save(task[k].ent, c)
     /\ Set(k, Between(task[k], "syncNext"))
  /\ UNCHANGED <<process, ledger, faults>>

SyncReturns(k) ==
  /\ At(k, "syncNext") /\ Through(k)
  /\ isSyncing' = [isSyncing EXCEPT ![task[k].srv] = FALSE]
  /\ End(k)
  /\ UNCHANGED <<row, polling, errors, partition, ledger, faults>>

\* Mutant: retry without a count.
RetriesForEver(k) ==
  /\ isSyncing' = [isSyncing EXCEPT ![task[k].srv] = FALSE]
  /\ errors' = [errors EXCEPT ![task[k].srv] = @ + 1]
  /\ End(k)
  /\ UNCHANGED <<row, polling, partition, ledger>>

\* syncLedger rejects.  switchMap ignores it if the next tick has come in
\* between; otherwise the retry operator counts it, and after the last retry
\* the stream is replaced by one recovery of all rows.
Throws(k) ==
  LET s == task[k].srv IN
  /\ isSyncing' = [isSyncing EXCEPT ![s] = FALSE]
  /\ \/ End(k) /\ UNCHANGED <<polling, errors>>
     \/ /\ polling[s] /\ errors[s] < StreamRetries
        /\ errors' = [errors EXCEPT ![s] = @ + 1]
        /\ End(k) /\ UNCHANGED polling
     \/ /\ polling[s] /\ errors[s] = StreamRetries
        /\ polling' = [polling EXCEPT ![s] = FALSE]
        /\ Set(k, New(s, "findAll")) /\ UNCHANGED errors
  /\ UNCHANGED <<row, partition, ledger>>

SyncDbError(k) ==
  /\ \/ At(k, "syncFind") \/ At(k, "batchCatch")
     \/ At(k, "syncNext") /\ ~Through(k)
     \/ At(k, "batch") /\ Batches(k) = {}
  /\ Fault
  /\ Throws(k)

SyncSteps(k) ==
  \/ SyncAsks(k) \/ SyncFinds(k) \/ SyncReturns(k)
  \/ \E e \in Entity : SyncMarks(k, e)
  \/ \E b \in Batches(k) : BatchSaved(k, b)
  \/ HandleBatchError(k) \/ RangeDone(k)

-----------------------------------------------------------------------------
(* RecoveryService.                                                        *)

RecoverFinds(k) ==
  /\ At(k, "findAll")
  /\ LET broken == {e \in Entity : row[e].status \in {"error", "partitioned"}}
     IN Set(k, [task[k] EXCEPT !.pc = "recoverNext", !.list = Found(broken)])
  /\ UNCHANGED <<row, process, ledger, faults>>

RecoverTakes(k, e) ==
  /\ At(k, "recoverNext") /\ Takes(k, e)
  /\ Set(k, [task[k] EXCEPT !.list = Rest(k, e), !.ent = e,
                            !.copy = task[k].list[e], !.num = FALSE,
                            !.pc = "strategy"])
  /\ UNCHANGED <<row, process, ledger, faults>>

RecoverReturns(k) ==
  /\ At(k, "recoverNext") /\ Through(k)
  /\ End(k)
  /\ UNCHANGED <<row, process, ledger, faults>>

\* determineRecoveryStrategy; the last successful sync may be an hour old.
Strategies(c, n) ==
  CASE c.retry >= ManualRetries     -> {"manual"}
    [] n - c.last > CheckpointGap   -> {"checkpoint"}
    [] n - c.last > FullGap         -> {"full"}
    [] OTHER                        -> {"full", "incremental"}

Strategy(k) ==
  /\ At(k, "strategy")
  /\ \E n \in {0, ledger} :
       /\ Asked(n)
       /\ \E pc \in Strategies(task[k].copy, n) :
            Set(k, [task[k] EXCEPT !.pc = pc])
  /\ UNCHANGED <<row, process, ledger>>

\* Save the entity with a new status, or as it is, and go on.
SaveAs(k, from, status, to) ==
  /\ At(k, from)
  /\ LET c == [task[k].copy EXCEPT !.status = status] IN
     /\ Save(task[k].ent, c)
     /\ Set(k, [task[k] EXCEPT !.copy = c, !.pc = to])
  /\ UNCHANGED <<process, ledger, faults>>

RequestManualIntervention(k) == SaveAs(k, "manual", "error", "recovered")

FullSync(k) == SaveAs(k, "full", "recovering", "fullReset")

FullReset(k) ==
  /\ At(k, "fullReset")
  /\ \E n \in {0, ledger} :
       /\ Asked(n)
       /\ Set(k, [task[k] EXCEPT !.copy.last = Back(n, FullSpan), !.num = TRUE,
                                 !.to = n, !.next = Back(n, FullSpan),
                                 !.pc = "fullSave"])
  /\ UNCHANGED <<row, process, ledger>>

FullSave(k) == SaveAs(k, "fullSave", "recovering", "fullBatch")

FullBatches(k) == IF task[k] = None THEN {} ELSE task[k].next .. task[k].to

FullBatch(k, b) ==
  /\ At(k, "fullBatch")
  /\ LET f == [task[k] EXCEPT !.copy.last = b, !.next = b + 1]
     IN Save(f.ent, f.copy) /\ Set(k, f)
  /\ UNCHANGED <<process, ledger, faults>>

FullDone(k) ==
  /\ At(k, "fullBatch") /\ FullBatches(k) = {}
  /\ Set(k, [task[k] EXCEPT !.pc = "recovered"])
  /\ UNCHANGED <<row, process, ledger, faults>>

IncrementalSync(k) == SaveAs(k, "incremental", "recovering", "catchUp")

\* From the next ledger on, all are processed; then the cursor moves.
CatchUp(k) ==
  /\ At(k, "catchUp")
  /\ \E n \in {0, ledger} :
       Asked(n) /\ Set(k, [task[k] EXCEPT !.to = n, !.pc = "fetch"])
  /\ UNCHANGED <<row, process, ledger>>

Fetch(k) ==
  /\ At(k, "fetch")
  /\ LET f == [task[k] EXCEPT !.copy.last = task[k].to, !.num = TRUE,
                              !.pc = "recovered"]
     IN Save(f.ent, f.copy) /\ Set(k, f)
  /\ UNCHANGED <<process, ledger, faults>>

CheckpointRestore(k) ==
  /\ At(k, "checkpoint")
  /\ \E n \in {0, ledger} :
       /\ Asked(n)
       /\ Set(k, [task[k] EXCEPT !.copy.last = Back(n, CheckpointSpan),
                                 !.num = TRUE, !.pc = "restored"])
  /\ UNCHANGED <<row, process, ledger>>

CheckpointSave(k) == SaveAs(k, "restored", "recovering", "incremental")

\* IDLE, whatever the strategy did; back to the batches or the next row.
Recovered(k) ==
  /\ At(k, "recovered")
  /\ LET c == [task[k].copy EXCEPT !.status = "idle", !.retry = 0] IN
     /\ Save(task[k].ent, c)
     /\ Set(k, IF task[k].inline
                 THEN [task[k] EXCEPT !.copy = c, !.inline = FALSE, !.to = 0,
                                      !.next = 0, !.pc = "batch"]
                 ELSE Between(task[k], "recoverNext"))
  /\ UNCHANGED <<process, ledger, faults>>

\* A ledger that cannot be fetched, or a save that fails: after it the cursor
\* may have moved in the entity, and the errors of a recovered one are gone.
RecoverFails(k) ==
  LET retry == IF At(k, "recovered") THEN 1 ELSE task[k].copy.retry + 1 IN
  /\ \E pc \in {"manual", "full", "fullSave", "fullBatch", "incremental",
                "fetch", "restored", "recovered"} : At(k, pc)
  /\ Fault
  /\ \E l \in {task[k].copy.last} \cup
             CASE At(k, "fullBatch") -> FullBatches(k)
               [] At(k, "fetch")     -> {task[k].to}
               [] OTHER              -> {} :
       Set(k, [task[k] EXCEPT !.copy.last = l, !.copy.status = "error",
                              !.copy.retry = retry, !.to = 0, !.next = 0,
                              !.pc = "recoverCatch"])
  /\ UNCHANGED <<row, process, ledger>>

RecoverCatches(k) == SaveAs(k, "recoverCatch", "error", "recoverThrow")

CatchDbError(k) ==
  /\ At(k, "recoverCatch") /\ Fault
  /\ Set(k, [task[k] EXCEPT !.pc = "recoverThrow"])
  /\ UNCHANGED <<row, process, ledger>>

\* Within a batch the error leaves syncLedger; recoverAllEntities logs it.
RecoverThrows(k) ==
  /\ At(k, "recoverThrow")
  /\ IF task[k].inline
       THEN Throws(k)
       ELSE /\ Set(k, Between(task[k], "recoverNext"))
            /\ UNCHANGED <<row, process, ledger>>
  /\ UNCHANGED faults

\* The public methods forceRecovery, of RecoveryService and PartitionHandler,
\* and triggerFullSync, which no code calls.
ForceRecovery(k, s) ==
  /\ \/ Start(k, New(s, "findAll"))
     \/ isPartitioned[s] /\ Start(k, New(s, "validateFind"))
     \/ \E e \in Entity : Start(k, [New(s, "strategy") EXCEPT !.ent = e,
                                                              !.copy = row[e]])
  /\ UNCHANGED <<row, process, ledger, faults>>

TriggerFullSync(k, s) ==
  /\ \E S \in {Entity} \cup {{e} : e \in Entity} :
       Start(k, [New(s, "fullSync") EXCEPT !.list = Found(S)])
  /\ UNCHANGED <<row, process, ledger, faults>>

RecoverSteps(k) ==
  \/ RecoverFinds(k) \/ RecoverReturns(k)
  \/ \E e \in Entity : RecoverTakes(k, e)
  \/ Strategy(k) \/ RequestManualIntervention(k) \/ CheckpointRestore(k)
  \/ CheckpointSave(k)
  \/ FullSync(k) \/ FullReset(k) \/ FullSave(k) \/ FullDone(k)
  \/ \E b \in FullBatches(k) : FullBatch(k, b)
  \/ IncrementalSync(k) \/ CatchUp(k) \/ Fetch(k)
  \/ Recovered(k) \/ RecoverCatches(k) \/ RecoverThrows(k)

-----------------------------------------------------------------------------
(* PartitionHandler, and the stream of SyncService that looks for one.     *)

\* For each row of the list: save its copy with some columns changed.
SaveNext(k, e, r) ==
  /\ Takes(k, e)
  /\ Save(e, r)
  /\ Set(k, [task[k] EXCEPT !.list = Rest(k, e)])
  /\ UNCHANGED <<process, ledger, faults>>

\* The list is through; go on with what a find returns now.
FindNext(k, from, S, to) ==
  /\ At(k, from) /\ Through(k)
  /\ Set(k, [task[k] EXCEPT !.pc = to, !.list = Found(S)])
  /\ UNCHANGED <<row, ledger, faults>>

WithStatus(st) == {e \in Entity : row[e].status = st}

FullSyncRow(k, e) ==
  /\ At(k, "fullSync")
  /\ SaveNext(k, e, [task[k].list[e] EXCEPT !.status = "idle", !.last = 0])

\* A database error counts as a partition; an answer of 0 hides one.
DetectPartition(k, s) ==
  /\ \/ (\E e \in Entity : ledger - row[e].last > PartitionGap)
        /\ UNCHANGED faults
     \/ Fault
  /\ Start(k, New(s, "markFind"))
  /\ UNCHANGED <<row, process, ledger>>

MarkFinds(k) == FindNext(k, "markFind", Entity, "mark") /\ UNCHANGED process

MarkRow(k, e) ==
  /\ At(k, "mark")
  /\ SaveNext(k, e, [task[k].list[e] EXCEPT !.status = "partitioned"])

\* handlePartition raises its flag and lists the rows that sync; an interval
\* that is running goes on.
HandlePartition(k) ==
  /\ FindNext(k, "mark", WithStatus("syncing"), "pause")
  /\ isPartitioned' = [isPartitioned EXCEPT ![task[k].srv] = TRUE]
  /\ UNCHANGED <<isSyncing, polling, errors, monitoring>>

PauseRow(k, e) ==
  /\ At(k, "pause")
  /\ SaveNext(k, e, [task[k].list[e] EXCEPT !.status = "partitioned"])

StartRecoveryMonitoring(k) ==
  /\ At(k, "pause") /\ Through(k)
  /\ monitoring' = [monitoring EXCEPT ![task[k].srv] = TRUE]
  /\ End(k)
  /\ UNCHANGED <<row, isSyncing, polling, errors, isPartitioned, ledger,
                 faults>>

\* checkNetworkRecovery asks the network and then reads the rows.
MonitorTick(k, s) ==
  /\ monitoring[s] /\ isPartitioned[s]
  /\ Start(k, New(s, "checkAsk"))
  /\ UNCHANGED <<row, process, ledger, faults>>

CheckAsks(k) ==
  /\ At(k, "checkAsk")
  /\ Set(k, [task[k] EXCEPT !.now = ledger, !.pc = "checkFind"])
  /\ UNCHANGED <<row, process, ledger, faults>>

\* initiateRecovery, though the flag may be down by now.
CheckFinds(k) ==
  /\ At(k, "checkFind")
  /\ \A e \in Entity : task[k].now - row[e].last < RecoveredGap
  /\ Set(k, New(task[k].srv, "validateFind"))
  /\ UNCHANGED <<row, process, ledger, faults>>

\* Not yet: the gap is too wide, a call failed, or the next tick has come.
NotRecovered(k) ==
  /\ At(k, "checkAsk") \/ At(k, "checkFind")
  /\ End(k)
  /\ UNCHANGED <<row, process, ledger, faults>>

\* takeWhile: the interval ends at the first tick that finds the flag down.
MonitorEnds(s) ==
  /\ monitoring[s] /\ ~isPartitioned[s]
  /\ monitoring' = [monitoring EXCEPT ![s] = FALSE]
  /\ UNCHANGED <<row, task, isSyncing, polling, errors, isPartitioned, ledger,
                 faults>>

ValidateFinds(k) ==
  FindNext(k, "validateFind", Entity, "validate") /\ UNCHANGED process

ValidRow(k, e) ==
  /\ At(k, "validate") /\ Takes(k, e) /\ task[k].list[e].last > 0
  /\ Set(k, [task[k] EXCEPT !.list = Rest(k, e)])
  /\ UNCHANGED <<row, process, ledger, faults>>

\* There is no ledger 0, or the ledger cannot be fetched: getSafeStartingPoint.
InvalidRow(k, e) ==
  /\ At(k, "validate") /\ Takes(k, e)
  /\ \E n \in {0, ledger} :
       /\ IF task[k].list[e].last = 0 THEN Asked(n) ELSE Fault
       /\ Set(k, [task[k] EXCEPT
                   !.list = Rest(k, e), !.ent = e,
                   !.copy = [task[k].list[e] EXCEPT !.last =
                                                     Back(n, SafetyMargin)],
                   !.pc = "rewind"])
  /\ UNCHANGED <<row, process, ledger>>

\* The copy is saved as it was found, but for its cursor.
RewindRow(k) ==
  /\ At(k, "rewind")
  /\ Save(task[k].ent, task[k].copy)
  /\ Set(k, Between(task[k], "validate"))
  /\ UNCHANGED <<process, ledger, faults>>

ResumeFinds(k) ==
  /\ FindNext(k, "validate", WithStatus("partitioned"), "resume")
  /\ UNCHANGED process

ResumeRow(k, e) ==
  /\ At(k, "resume")
  /\ SaveNext(k, e, [task[k].list[e] EXCEPT !.status = "idle"])

CatchUpMissed(k) ==
  /\ At(k, "resume") /\ Through(k)
  /\ \E n \in {0, ledger} :
       Asked(n) /\ Set(k, [task[k] EXCEPT !.now = n, !.pc = "missedFind"])
  /\ UNCHANGED <<row, process, ledger>>

\* Rows that have missed nothing are left alone.
MissedFinds(k) ==
  /\ FindNext(k, "missedFind",
              {e \in Entity : row[e].last < task[k].now}, "missed")
  /\ UNCHANGED process

\* targetLedgerSequence is written too; nothing reads it.
MissedRow(k, e) ==
  /\ At(k, "missed")
  /\ SaveNext(k, e, [task[k].list[e] EXCEPT !.status = "recovering"])

\* The last read, for the event of the end, may still fail.
PartitionOver(k) ==
  /\ At(k, "missed") /\ Through(k)
  /\ isPartitioned' = [isPartitioned EXCEPT ![task[k].srv] = FALSE]
  /\ \/ End(k) /\ UNCHANGED faults
     \/ Set(k, New(task[k].srv, "fallback")) /\ Fault
  /\ UNCHANGED <<row, isSyncing, polling, errors, monitoring, ledger>>

\* handleRecoveryFailure: every row is set back.
PartitionRecoveryFails(k) ==
  /\ \E pc \in {"validateFind", "rewind", "resume", "missedFind", "missed"} :
       At(k, pc)
  /\ Fault
  /\ Set(k, New(task[k].srv, "fallback"))
  /\ UNCHANGED <<row, process, ledger>>

Fallback(k) ==
  /\ At(k, "fallback")
  /\ \E n \in {0, ledger} :
       /\ Asked(n)
       /\ Set(k, [task[k] EXCEPT !.now = Back(n, SafetyMargin),
                                 !.pc = "fallbackFind"])
  /\ UNCHANGED <<row, process, ledger>>

FallbackFinds(k) ==
  FindNext(k, "fallbackFind", Entity, "reset") /\ UNCHANGED process

ResetRow(k, e) ==
  /\ At(k, "reset")
  /\ SaveNext(k, e, [status |-> "recovering", last |-> task[k].now,
                     retry |-> task[k].list[e].retry + 1])

LoopEnds(k) ==
  /\ At(k, "reset") \/ At(k, "fullSync")
  /\ Through(k)
  /\ End(k)
  /\ UNCHANGED <<row, process, ledger, faults>>

\* Outside a try block: the rejection is logged, the task is over.
TaskDbError(k) ==
  /\ \E pc \in {"findAll", "fullSync", "markFind", "mark", "pause",
                "fallbackFind", "reset"} : At(k, pc)
  /\ Fault
  /\ End(k)
  /\ UNCHANGED <<row, process, ledger>>

PartitionSteps(k) ==
  \/ MarkFinds(k) \/ HandlePartition(k) \/ StartRecoveryMonitoring(k)
  \/ CheckAsks(k) \/ CheckFinds(k) \/ NotRecovered(k)
  \/ \E e \in Entity : \/ MarkRow(k, e) \/ PauseRow(k, e) \/ ValidRow(k, e)
                       \/ InvalidRow(k, e) \/ ResumeRow(k, e)
                       \/ MissedRow(k, e) \/ ResetRow(k, e)
                       \/ FullSyncRow(k, e)
  \/ ValidateFinds(k) \/ RewindRow(k) \/ ResumeFinds(k) \/ CatchUpMissed(k)
  \/ MissedFinds(k) \/ PartitionOver(k)
  \/ Fallback(k) \/ FallbackFinds(k) \/ LoopEnds(k)

-----------------------------------------------------------------------------
Steps(k) == SyncSteps(k) \/ RecoverSteps(k) \/ PartitionSteps(k)

Errors(k) == \/ \E b \in Batches(k) : BatchFails(k, b) \/ TransactionFails(k, b)
             \/ SyncDbError(k) \/ RecoverFails(k) \/ CatchDbError(k)
             \/ PartitionRecoveryFails(k) \/ TaskDbError(k)

Next ==
  \/ LedgerCloses
  \/ \E s \in Server : Restart(s) \/ MonitorEnds(s)
  \/ \E k \in Task, s \in Server :
       \/ SyncTick(k, s) \/ DetectPartition(k, s) \/ MonitorTick(k, s)
       \/ ForceRecovery(k, s) \/ TriggerFullSync(k, s)
  \/ \E k \in Task : Steps(k) \/ ConflictSaved(k) \/ Errors(k)

Spec == Init /\ [][Next]_vars

-----------------------------------------------------------------------------
(* Every variable has its type.                                            *)
TypeOK ==
  /\ row \in [Entity -> Row]
  /\ task \in [Task -> Frame \cup {None}]
  /\ isSyncing \in [Server -> BOOLEAN]
  /\ polling \in [Server -> BOOLEAN]
  /\ errors \in [Server -> 0..StreamRetries]
  /\ isPartitioned \in [Server -> BOOLEAN]
  /\ monitoring \in [Server -> BOOLEAN]
  /\ ledger \in 0..MaxLedger
  /\ faults \in 0..MaxFaults

(* No row claims a ledger that the network has not closed: neither the     *)
(* digits that "+ 1" appends nor a stale copy or an answer of 0 ever makes *)
(* last_ledger_sequence run ahead.                                         *)
NeverAhead == \A e \in Entity : row[e].last <= ledger

(* isSyncing of a replica is up exactly while one syncLedger of it runs,   *)
(* a recovery it has called included: two never overlap, and no exit, by   *)
(* whatever error, leaves the flag up.                                     *)
Syncs(k, s) == /\ task[k] # None /\ task[k].srv = s
               /\ task[k].pc \in SyncPC \/ task[k].inline

SyncExclusive ==
  \A s \in Server :
    /\ isSyncing[s] => \E k \in Task : Syncs(k, s)
    /\ \A j, k \in Task : Syncs(j, s) /\ Syncs(k, s) => j = k /\ isSyncing[s]
=============================================================================
