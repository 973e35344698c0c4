------------------------------ MODULE LogBuffer ------------------------------
(***************************************************************************)
(* The buffer of LoggingService (src/src/logging/logging.service.ts) and   *)
(* its flushes to Elasticsearch.  A flush empties the buffer, awaits the   *)
(* bulk request and puts the last ten entries back if it fails; entries    *)
(* are logged, and other flushes started, in between.  An entry is its     *)
(* number.                                                                 *)
(***************************************************************************)
EXTENDS Integers, Sequences, FiniteSets

CONSTANTS Flusher,       \* flushes in progress (a bound)
          BufferSize,    \* entries that start a flush: 100
          RetryKeep,     \* entries a failed flush puts back: 10
          MaxEntries,    \* entries ever logged (a bound)
          MaxLosses      \* failing flushes, rejections, stops (a bound)

ASSUME LogAssumption ==
  /\ IsFiniteSet(Flusher)
  /\ BufferSize \in Nat \ {0} /\ RetryKeep \in Nat \ {0}
  /\ MaxEntries \in Nat /\ MaxLosses \in Nat

VARIABLES
  logBuffer,
  flushing,     \* per flush: logsToFlush, empty when it is not running
  logged,       \* entries logged so far
  indexed,      \* entries Elasticsearch has
  lost,         \* entries that no buffer and no flush holds any more
  losses        \* failing flushes, rejections and stops so far

logVars == <<logBuffer, flushing, logged, indexed, lost, losses>>

LogInit ==
  /\ logBuffer = <<>> /\ flushing = [f \in Flusher |-> <<>>]
  /\ logged = 0 /\ indexed = {} /\ lost = {} /\ losses = 0

Entries(s) == {s[i] : i \in DOMAIN s}

Loss == losses < MaxLosses /\ losses' = losses + 1

\* Mutant: the buffer is cleared by the end of the flush only.
FlushUncleared(f, entries) ==
  /\ flushing[f] = <<>> /\ entries # <<>>
  /\ flushing' = [flushing EXCEPT ![f] = entries]
  /\ logBuffer' = entries

\* flushLogs, up to its first await.
FlushLogs(f, entries) ==
  /\ flushing[f] = <<>> /\ entries # <<>>
  /\ flushing' = [flushing EXCEPT ![f] = entries]
  /\ logBuffer' = <<>>

\* A full buffer is flushed, and so is an entry that asks for it.
Log ==
  LET entries == Append(logBuffer, logged + 1) IN
  /\ logged < MaxEntries /\ logged' = logged + 1
  /\ \/ \E f \in Flusher : FlushLogs(f, entries)
     \/ Len(entries) < BufferSize /\ logBuffer' = entries /\ UNCHANGED flushing
  /\ UNCHANGED <<indexed, lost, losses>>

\* The interval of 5 s.
PeriodicFlush ==
  /\ \E f \in Flusher : FlushLogs(f, logBuffer)
  /\ UNCHANGED <<logged, indexed, lost, losses>>

EndFlush(f) == flushing' = [flushing EXCEPT ![f] = <<>>]

BulkIndexed(f) ==
  /\ flushing[f] # <<>>
  /\ indexed' = indexed \cup Entries(flushing[f])
  /\ EndFlush(f)
  /\ UNCHANGED <<logBuffer, logged, lost, losses>>

\* Entries that do not parse are left out, documents that Elasticsearch
\* rejects are reported to the console: for the flush it is a success.
BulkRejects(f) ==
  /\ flushing[f] # <<>> /\ Loss
  /\ \E bad \in SUBSET Entries(flushing[f]) \ {{}} :
       /\ indexed' = indexed \cup (Entries(flushing[f]) \ bad)
       /\ lost' = lost \cup bad
  /\ EndFlush(f)
  /\ UNCHANGED <<logBuffer, logged>>

\* Mutant: all of them are put back.
RetryAll(s) == s

\* slice(-10)
RetryLogs(s) == IF Len(s) <= RetryKeep THEN s
                ELSE SubSeq(s, Len(s) - RetryKeep + 1, Len(s))

\* The request fails, or its answer is lost after it was carried out.
BulkFails(f) ==
  LET batch == flushing[f]
      retry == RetryLogs(batch)
  IN /\ batch # <<>> /\ Loss
     /\ logBuffer' = retry \o logBuffer
     /\ lost' = lost \cup (Entries(batch) \ Entries(retry))
     /\ indexed' \in {indexed, indexed \cup Entries(batch)}
     /\ EndFlush(f)
     /\ UNCHANGED logged

\* The process ends.  onModuleDestroy does not run: nothing enables the
\* shutdown hooks.
LoggerStops ==
  /\ Loss
  /\ lost' = lost \cup Entries(logBuffer)
                  \cup UNION {Entries(flushing[f]) : f \in Flusher}
  /\ logBuffer' = <<>> /\ flushing' = [f \in Flusher |-> <<>>]
  /\ UNCHANGED <<logged, indexed>>

LogNext ==
  \/ Log \/ PeriodicFlush \/ LoggerStops
  \/ \E f \in Flusher : BulkIndexed(f) \/ BulkRejects(f) \/ BulkFails(f)

\* The interval fires, and a request comes to an end.
LogFairness ==
  /\ WF_logVars(PeriodicFlush)
  /\ \A f \in Flusher : WF_logVars(BulkIndexed(f) \/ BulkFails(f))

LogSpec == LogInit /\ [][LogNext]_logVars /\ LogFairness

-----------------------------------------------------------------------------
Positions(s, n) == {i \in DOMAIN s : s[i] = n}

Places(n) ==
  ({"buffer"} \X Positions(logBuffer, n)) \cup
  UNION {{f} \X Positions(flushing[f], n) : f \in Flusher}

(* However flushes overlap and fail, an entry waits in one place only, in  *)
(* the buffer or in one flush, until it is indexed or lost; none is lost   *)
(* as long as every request succeeds.                                      *)
LogConserved ==
  /\ \A n \in 1..logged :
       /\ Cardinality(Places(n)) <= 1
       /\ Places(n) = {} => n \in indexed \cup lost
  /\ lost # {} => losses > 0

(* An outage of Elasticsearch does not fill the memory: flushes that fail  *)
(* put back no more than their last entries, and the next entry beyond the *)
(* limit starts a flush.                                                   *)
BufferBounded ==
  Len(logBuffer) +
      RetryKeep * Cardinality({f \in Flusher : flushing[f] # <<>>})
    < BufferSize + RetryKeep * Cardinality(Flusher)

(* An entry does not stay in memory for ever.                              *)
LogSettles ==
  \A n \in 1..MaxEntries : []<>(Places(n) = {})
=============================================================================
