--------------------------- MODULE LogBufferProofs ---------------------------
(***************************************************************************)
(* The log buffer loses no entry while requests succeed, holds none twice  *)
(* and stays bounded, for any number of flushes and any sizes.  The        *)
(* counting of places is replaced by what it means: sequences without      *)
(* repetition that share no entry.                                         *)
(***************************************************************************)
EXTENDS LogBuffer, TLAPS, FiniteSetTheorems

NoRepeat(s) == \A i, j \in DOMAIN s : s[i] = s[j] => i = j

Held == Entries(logBuffer) \cup UNION {Entries(flushing[f]) : f \in Flusher}

Running == {f \in Flusher : flushing[f] # <<>>}

LogTypeOK ==
  /\ logged \in Nat /\ losses \in Nat
  /\ logBuffer \in Seq(1..logged)
  /\ flushing \in [Flusher -> Seq(1..logged)]

HeldOnce ==
  /\ NoRepeat(logBuffer)
  /\ \A f \in Flusher :
       /\ NoRepeat(flushing[f])
       /\ Entries(flushing[f]) \cap Entries(logBuffer) = {}
       /\ \A g \in Flusher \ {f} :
            Entries(flushing[f]) \cap Entries(flushing[g]) = {}

Accounted ==
  /\ 1..logged \subseteq Held \cup indexed \cup lost
  /\ lost # {} => losses > 0

LogInv == LogTypeOK /\ HeldOnce /\ Accounted /\ BufferBounded

-----------------------------------------------------------------------------
(* Sequences.                                                              *)
LEMMA EmptyFacts == Entries(<<>>) = {} /\ NoRepeat(<<>>)
BY DEF Entries, NoRepeat

LEMMA AppendFacts ==
  ASSUME NEW S, NEW s \in Seq(S), NEW e, e \notin Entries(s), NoRepeat(s)
  PROVE  /\ Entries(Append(s, e)) = Entries(s) \cup {e}
         /\ NoRepeat(Append(s, e))
         /\ Append(s, e) # <<>> /\ Len(Append(s, e)) = Len(s) + 1
<1>1. /\ DOMAIN Append(s, e) = 1 .. Len(s) + 1
      /\ Len(s) \in Nat /\ DOMAIN s = 1..Len(s)
      /\ \A i \in 1..Len(s) : Append(s, e)[i] = s[i]
      /\ Append(s, e)[Len(s) + 1] = e
      /\ Len(Append(s, e)) = Len(s) + 1
  OBVIOUS
<1>2. Entries(Append(s, e)) = Entries(s) \cup {e}
  <2>1. Entries(Append(s, e)) \subseteq Entries(s) \cup {e}
    BY <1>1 DEF Entries
  <2>2. Entries(s) \subseteq Entries(Append(s, e))
    BY <1>1 DEF Entries
  <2>3. e \in Entries(Append(s, e))
    BY <1>1 DEF Entries
  <2> QED
    BY <2>1, <2>2, <2>3
<1>3. NoRepeat(Append(s, e))
  BY <1>1 DEF Entries, NoRepeat
<1> QED
  BY <1>1, <1>2, <1>3

LEMMA ConcatFacts ==
  ASSUME NEW S, NEW s \in Seq(S), NEW t \in Seq(S)
  PROVE  /\ Entries(s \o t) = Entries(s) \cup Entries(t)
         /\ NoRepeat(s) /\ NoRepeat(t) /\ Entries(s) \cap Entries(t) = {}
              => NoRepeat(s \o t)
<1>1. /\ DOMAIN (s \o t) = 1 .. Len(s) + Len(t)
      /\ Len(s) \in Nat /\ DOMAIN s = 1..Len(s)
      /\ Len(t) \in Nat /\ DOMAIN t = 1..Len(t)
      /\ \A i \in 1 .. Len(s) + Len(t) :
           (s \o t)[i] = IF i <= Len(s) THEN s[i] ELSE t[i - Len(s)]
  OBVIOUS
<1>2. Entries(s \o t) = Entries(s) \cup Entries(t)
  <2>1. Entries(s \o t) \subseteq Entries(s) \cup Entries(t)
    BY <1>1 DEF Entries
  <2>2. Entries(s) \subseteq Entries(s \o t)
    BY <1>1 DEF Entries
  <2>3. ASSUME NEW i \in 1..Len(t) PROVE t[i] \in Entries(s \o t)
    <3>1. Len(s) + i \in 1 .. Len(s) + Len(t) /\ (s \o t)[Len(s) + i] = t[i]
      BY <1>1
    <3> QED
      BY <1>1, <3>1 DEF Entries
  <2> QED
    BY <1>1, <2>1, <2>2, <2>3 DEF Entries
<1>3. ASSUME NoRepeat(s), NoRepeat(t), Entries(s) \cap Entries(t) = {},
             NEW i \in 1 .. Len(s) + Len(t), NEW j \in 1 .. Len(s) + Len(t),
             (s \o t)[i] = (s \o t)[j]
      PROVE  i = j
  <2>1. \A k \in 1..Len(s), l \in 1..Len(t) : s[k] # t[l]
    BY <1>1, <1>3 DEF Entries
  <2>2. CASE i <= Len(s) /\ j <= Len(s)
    BY <1>1, <1>3, <2>2 DEF NoRepeat
  <2>3. CASE i > Len(s) /\ j > Len(s)
    <3>1. i - Len(s) \in 1..Len(t) /\ j - Len(s) \in 1..Len(t)
      BY <1>1, <2>3
    <3>2. t[i - Len(s)] = t[j - Len(s)]
      BY <1>1, <1>3, <2>3
    <3>3. i - Len(s) = j - Len(s)
      BY <1>1, <1>3, <3>1, <3>2 DEF NoRepeat
    <3> QED
      BY <1>1, <3>3
  <2>4. CASE i <= Len(s) /\ j > Len(s)
    <3>1. s[i] = t[j - Len(s)] /\ i \in 1..Len(s) /\ j - Len(s) \in 1..Len(t)
      BY <1>1, <1>3, <2>4
    <3> QED
      BY <2>1, <3>1
  <2>5. CASE j <= Len(s) /\ i > Len(s)
    <3>1. s[j] = t[i - Len(s)] /\ j \in 1..Len(s) /\ i - Len(s) \in 1..Len(t)
      BY <1>1, <1>3, <2>5
    <3> QED
      BY <2>1, <3>1
  <2> QED
    BY <1>1, <2>2, <2>3, <2>4, <2>5
<1> QED
  BY <1>1, <1>2, <1>3 DEF NoRepeat

\* What a failed flush puts back is a part of what it took, and short.
LEMMA RetryFacts ==
  ASSUME NEW S, NEW s \in Seq(S), NoRepeat(s)
  PROVE  /\ RetryLogs(s) \in Seq(S)
         /\ Entries(RetryLogs(s)) \subseteq Entries(s)
         /\ NoRepeat(RetryLogs(s))
         /\ Len(RetryLogs(s)) <= RetryKeep
<1>0. Len(s) \in Nat /\ RetryKeep \in Nat /\ RetryKeep > 0 /\ DOMAIN s = 1..Len(s)
  BY LogAssumption
<1>1. CASE Len(s) <= RetryKeep
  BY <1>0, <1>1 DEF RetryLogs
<1>2. CASE Len(s) > RetryKeep
  <2> DEFINE m == Len(s) - RetryKeep
             r == SubSeq(s, m + 1, Len(s))
  <2>1. RetryLogs(s) = r
    BY <1>0, <1>2 DEF RetryLogs
  <2>2. m \in Nat /\ m + 1 \in 1..Len(s) /\ Len(s) - (m + 1) + 1 = RetryKeep
    BY <1>0, <1>2
  <2>3. /\ r \in Seq(S) /\ Len(r) = RetryKeep /\ DOMAIN r = 1..RetryKeep
        /\ \A i \in 1..RetryKeep : r[i] = s[m + i] /\ m + i \in 1..Len(s)
    BY <1>0, <2>2
  <2> HIDE DEF m, r
  <2>4. Entries(r) \subseteq Entries(s)
    BY <1>0, <2>3 DEF Entries
  <2>5. NoRepeat(r)
    BY SMTT(30), <1>0, <2>2, <2>3 DEF NoRepeat
  <2> QED
    BY <1>0, <2>1, <2>3, <2>4, <2>5
<1> QED
  BY <1>0, <1>1, <1>2

LEMMA WiderSeq ==
  ASSUME NEW m \in Nat, NEW s \in Seq(1..m)
  PROVE  s \in Seq(1 .. m + 1)
<1>1. \A i \in 1..Len(s) : s[i] \in 1 .. m + 1
  <2>1. \A i \in 1..Len(s) : s[i] \in 1..m
    OBVIOUS
  <2> QED
    BY <2>1
<1> QED
  BY <1>1

LEMMA EntriesInRange ==
  ASSUME NEW m \in Nat, NEW s \in Seq(1..m)
  PROVE  Entries(s) \subseteq 1..m
BY DEF Entries

\* The flushes that run are some of the flushes.
LEMMA RunningFacts ==
  ASSUME NEW S \in SUBSET Flusher
  PROVE  /\ IsFiniteSet(S)
         /\ Cardinality(S) \in Nat /\ Cardinality(Flusher) \in Nat
         /\ Cardinality(S) <= Cardinality(Flusher)
         /\ RetryKeep * Cardinality(S) \in Nat
         /\ RetryKeep * Cardinality(S) <= RetryKeep * Cardinality(Flusher)
<1>1. IsFiniteSet(Flusher) /\ RetryKeep \in Nat
  BY LogAssumption
<1>2. /\ IsFiniteSet(S) /\ Cardinality(S) \in Nat
      /\ Cardinality(Flusher) \in Nat
      /\ Cardinality(S) <= Cardinality(Flusher)
  BY <1>1, FS_Subset, FS_CardinalityType
<1>3. \A k, a, b \in Nat : a <= b => k * a <= k * b /\ k * a \in Nat
  OBVIOUS
<1> QED
  BY <1>1, <1>2, <1>3

-----------------------------------------------------------------------------
(* The steps.                                                              *)
LEMMA LogInitInv == LogInit => LogInv
<1> SUFFICES ASSUME LogInit PROVE LogInv
  OBVIOUS
<1>1. \A f \in Flusher : flushing[f] = <<>>
  BY DEF LogInit
<1>2. LogTypeOK
  BY DEF LogInit, LogTypeOK
<1>3. HeldOnce
  BY <1>1, EmptyFacts DEF LogInit, HeldOnce
<1>4. Accounted
  BY DEF LogInit, Accounted
<1>5. BufferBounded
  <2>1. Running = {} /\ Cardinality({}) = 0
    BY <1>1, FS_EmptySet DEF Running
  <2>2. RetryKeep * Cardinality(Flusher) \in Nat /\ Len(logBuffer) = 0
    BY RunningFacts DEF LogInit
  <2>3. RetryKeep * Cardinality(Running) = 0
    BY <2>1, LogAssumption
  <2> QED
    BY <2>2, <2>3, LogAssumption DEF BufferBounded, Running
<1> QED
  BY <1>2, <1>3, <1>4, <1>5 DEF LogInv

\* A flush takes the buffer, with an entry that is new or without.
LEMMA FlushInv ==
  ASSUME LogInv, NEW f \in Flusher, NEW entries, FlushLogs(f, entries),
         UNCHANGED <<indexed, lost, losses>>,
         logged' \in {logged, logged + 1}, entries \in Seq(1..logged'),
         NoRepeat(entries),
         Entries(entries) = Entries(logBuffer) \cup (1..logged' \ 1..logged)
  PROVE  LogInv'
<1>0. logged \in Nat /\ logged' \in Nat
  BY DEF LogInv, LogTypeOK
<1>1. \A g \in Flusher : flushing[g] \in Seq(1..logged')
  <2>1. \A g \in Flusher : flushing[g] \in Seq(1..logged)
    BY DEF LogInv, LogTypeOK
  <2> QED
    BY <1>0, <2>1, WiderSeq
<1>2. /\ flushing'[f] = entries /\ flushing[f] = <<>>
      /\ \A g \in Flusher \ {f} : flushing'[g] = flushing[g]
      /\ logBuffer' = <<>> /\ entries # <<>>
  BY DEF FlushLogs, LogInv, LogTypeOK
<1>3. LogTypeOK'
  BY <1>0, <1>1, <1>2 DEF FlushLogs, LogInv, LogTypeOK
<1>4. \A g \in Flusher \ {f} : Entries(flushing[g]) \cap Entries(entries) = {}
  <2> SUFFICES ASSUME NEW g \in Flusher \ {f}
               PROVE  Entries(flushing[g]) \cap Entries(entries) = {}
    OBVIOUS
  <2>1. Entries(flushing[g]) \subseteq 1..logged
    BY <1>0, EntriesInRange DEF LogInv, LogTypeOK
  <2>2. Entries(flushing[g]) \cap Entries(logBuffer) = {}
    BY DEF LogInv, HeldOnce
  <2> QED
    BY <2>1, <2>2
<1>5. HeldOnce'
  BY <1>2, <1>4, EmptyFacts DEF LogInv, HeldOnce
<1>6. Accounted'
  <2>1. Held' = Held \cup (1..logged' \ 1..logged)
    <3>1. /\ Entries(flushing'[f]) = Entries(entries)
          /\ Entries(flushing[f]) = {} /\ Entries(logBuffer') = {}
      BY <1>2, EmptyFacts
    <3>2. Held' = Entries(entries) \cup
                  UNION {Entries(flushing[g]) : g \in Flusher \ {f}}
      BY <1>2, <3>1 DEF Held
    <3>3. Held = Entries(logBuffer) \cup
                 UNION {Entries(flushing[g]) : g \in Flusher \ {f}}
      BY <3>1 DEF Held
    <3> QED
      BY <3>2, <3>3
  <2> QED
    BY <2>1 DEF LogInv, Accounted
<1>7. BufferBounded'
  <2>1. RetryKeep * Cardinality(Running') <= RetryKeep * Cardinality(Flusher)
    BY RunningFacts DEF Running
  <2>2. /\ RetryKeep * Cardinality(Running') \in Nat
        /\ RetryKeep * Cardinality(Flusher) \in Nat /\ Len(logBuffer') = 0
    BY <1>2, RunningFacts DEF Running
  <2> QED
    BY <2>1, <2>2, LogAssumption DEF BufferBounded, Running
<1> QED
  BY <1>3, <1>5, <1>6, <1>7 DEF LogInv

LEMMA LogStepLogInv == LogInv /\ Log => LogInv'
<1> SUFFICES ASSUME LogInv, Log PROVE LogInv'
  OBVIOUS
<1> DEFINE e == Append(logBuffer, logged + 1)
<1>0. logged \in Nat /\ logged' = logged + 1 /\ logBuffer \in Seq(1..logged)
  BY DEF Log, LogInv, LogTypeOK
<1>1. logged + 1 \notin Entries(logBuffer)
  BY <1>0, EntriesInRange
<1>2. /\ Entries(e) = Entries(logBuffer) \cup {logged + 1}
      /\ NoRepeat(e) /\ Len(e) = Len(logBuffer) + 1
  BY <1>0, <1>1, AppendFacts DEF LogInv, HeldOnce
<1>3. e \in Seq(1..logged') /\ 1..logged' \ 1..logged = {logged + 1}
  BY <1>0, WiderSeq
<1>4. CASE \E f \in Flusher : FlushLogs(f, e)
  <2>1. PICK f \in Flusher : FlushLogs(f, e)
    BY <1>4
  <2> HIDE DEF e
  <2> QED
    BY <1>0, <1>2, <1>3, <2>1, FlushInv DEF Log
<1>5. CASE Len(e) < BufferSize /\ logBuffer' = e /\ UNCHANGED flushing
  <2> HIDE DEF e
  <2>1. \A g \in Flusher : flushing[g] \in Seq(1..logged')
    <3>1. \A g \in Flusher : flushing[g] \in Seq(1..logged)
      BY DEF LogInv, LogTypeOK
    <3> QED
      BY <1>0, <3>1, WiderSeq
  <2>2. LogTypeOK'
    BY <1>0, <1>3, <1>5, <2>1 DEF Log, LogInv, LogTypeOK
  <2>3. \A g \in Flusher : logged + 1 \notin Entries(flushing[g])
    BY <1>0, EntriesInRange DEF LogInv, LogTypeOK
  <2>4. HeldOnce'
    BY <1>2, <1>5, <2>3 DEF LogInv, HeldOnce
  <2>5. Held' = Held \cup {logged + 1}
    BY <1>2, <1>5 DEF Held
  <2>6. Accounted'
    BY <1>0, <1>3, <2>5 DEF Log, LogInv, Accounted
  <2>7. BufferBounded'
    <3>1. /\ RetryKeep * Cardinality(Running') <= RetryKeep * Cardinality(Flusher)
          /\ RetryKeep * Cardinality(Running') \in Nat
          /\ RetryKeep * Cardinality(Flusher) \in Nat
      BY RunningFacts DEF Running
    <3>2. Len(logBuffer') \in Nat /\ Len(logBuffer') < BufferSize
      BY <1>3, <1>5
    <3> QED
      BY <3>1, <3>2, LogAssumption DEF BufferBounded, Running
  <2> QED
    BY <2>2, <2>4, <2>6, <2>7 DEF LogInv
<1> QED
  BY <1>4, <1>5 DEF Log

LEMMA PeriodicFlushInv == LogInv /\ PeriodicFlush => LogInv'
<1> SUFFICES ASSUME LogInv, PeriodicFlush PROVE LogInv'
  OBVIOUS
<1>1. /\ logged' = logged /\ logBuffer \in Seq(1..logged)
      /\ NoRepeat(logBuffer) /\ UNCHANGED <<indexed, lost, losses>>
  BY DEF PeriodicFlush, LogInv, LogTypeOK, HeldOnce
<1>2. PICK f \in Flusher : FlushLogs(f, logBuffer)
  BY DEF PeriodicFlush
<1> QED
  BY <1>1, <1>2, FlushInv

\* A flush is over: r goes back to the front of the buffer, the other entries
\* are indexed or lost.
LEMMA FlushEndsInv ==
  ASSUME LogInv, NEW f \in Flusher, flushing[f] # <<>>, EndFlush(f),
         logged' = logged,
         NEW r \in Seq(1..logged), NoRepeat(r), Len(r) <= RetryKeep,
         Entries(r) \subseteq Entries(flushing[f]),
         logBuffer' = r \o logBuffer,
         losses' \in Nat, lost' # {} => losses' > 0,
         indexed \subseteq indexed', lost \subseteq lost',
         Entries(flushing[f]) \ Entries(r) \subseteq indexed' \cup lost'
  PROVE  LogInv'
<1>0. /\ logged \in Nat /\ logBuffer \in Seq(1..logged)
      /\ flushing \in [Flusher -> Seq(1..logged)]
  BY DEF LogInv, LogTypeOK
<1>1. /\ flushing'[f] = <<>>
      /\ \A g \in Flusher \ {f} : flushing'[g] = flushing[g]
      /\ flushing' \in [Flusher -> Seq(1..logged)]
  BY <1>0 DEF EndFlush
<1>2. LogTypeOK'
  BY <1>0, <1>1 DEF LogTypeOK
<1>3. Entries(logBuffer') = Entries(r) \cup Entries(logBuffer)
  BY <1>0, ConcatFacts
<1>4. HeldOnce'
  <2>1. NoRepeat(logBuffer')
    BY <1>0, ConcatFacts DEF LogInv, HeldOnce
  <2>2. \A g \in Flusher \ {f} :
          Entries(flushing[g]) \cap Entries(logBuffer') = {}
    BY <1>3 DEF LogInv, HeldOnce
  <2> QED
    BY <1>1, <2>1, <2>2, EmptyFacts DEF LogInv, HeldOnce
<1>5. Accounted'
  <2>1. Held \subseteq Held' \cup indexed' \cup lost'
    BY <1>1, <1>3 DEF Held
  <2> QED
    BY <2>1 DEF LogInv, Accounted
<1>6. BufferBounded'
  <2>1. Running' = Running \ {f} /\ f \in Running
    BY <1>1 DEF Running
  <2>2. Cardinality(Running') = Cardinality(Running) - 1
    BY ZenonT(60), <2>1, RunningFacts, FS_RemoveElement DEF Running
  <2>3. /\ Cardinality(Running) \in Nat /\ Cardinality(Running') \in Nat
        /\ RetryKeep * Cardinality(Running) \in Nat
        /\ RetryKeep * Cardinality(Running') \in Nat
        /\ RetryKeep * Cardinality(Flusher) \in Nat
    BY RunningFacts DEF Running
  <2>4. RetryKeep * Cardinality(Running')
          = RetryKeep * Cardinality(Running) - RetryKeep
    <3>1. \A k, a, b \in Nat : b = a - 1 => k * b = k * a - k
      OBVIOUS
    <3> QED
      BY <2>2, <2>3, <3>1, LogAssumption
  <2>5. Len(logBuffer') = Len(r) + Len(logBuffer)
    BY <1>0
  <2>6. Len(r) \in Nat /\ Len(logBuffer) \in Nat
    BY <1>0
  <2>7. Len(logBuffer) + RetryKeep * Cardinality(Running)
          < BufferSize + RetryKeep * Cardinality(Flusher)
    BY DEF LogInv, BufferBounded, Running
  <2>8. Len(logBuffer') + RetryKeep * Cardinality(Running')
          < BufferSize + RetryKeep * Cardinality(Flusher)
    <3>1. \A x, z, p, k, b \in Nat :
            z <= k /\ x + p < b => (z + x) + (p - k) < b
      OBVIOUS
    <3>2. BufferSize + RetryKeep * Cardinality(Flusher) \in Nat
      BY <2>3, LogAssumption
    <3>3. (Len(r) + Len(logBuffer)) +
            (RetryKeep * Cardinality(Running) - RetryKeep)
            < BufferSize + RetryKeep * Cardinality(Flusher)
      BY <2>3, <2>6, <2>7, <3>1, <3>2, LogAssumption
    <3> QED
      BY <2>4, <2>5, <3>3
  <2> QED
    BY <2>8 DEF BufferBounded, Running
<1> QED
  BY <1>2, <1>4, <1>5, <1>6 DEF LogInv

\* Nothing goes back.
LEMMA NothingBack ==
  ASSUME LogInv, UNCHANGED logBuffer
  PROVE  /\ <<>> \in Seq(1..logged) /\ NoRepeat(<<>>)
         /\ Len(<<>>) <= RetryKeep /\ Entries(<<>>) = {}
         /\ logBuffer' = <<>> \o logBuffer
<1>1. logBuffer \in Seq(1..logged)
  BY DEF LogInv, LogTypeOK
<1> QED
  BY <1>1, EmptyFacts, LogAssumption

LEMMA BulkInv ==
  ASSUME LogInv, NEW f \in Flusher,
         BulkIndexed(f) \/ BulkRejects(f) \/ BulkFails(f)
  PROVE  LogInv'
<1>0. /\ logged \in Nat /\ losses \in Nat
      /\ flushing[f] \in Seq(1..logged) /\ NoRepeat(flushing[f])
      /\ lost # {} => losses > 0
  BY DEF LogInv, LogTypeOK, HeldOnce, Accounted
<1>1. CASE BulkIndexed(f)
  BY <1>0, <1>1, NothingBack, FlushEndsInv DEF BulkIndexed
<1>2. CASE BulkRejects(f)
  <2>1. PICK bad \in SUBSET Entries(flushing[f]) :
          /\ indexed' = indexed \cup (Entries(flushing[f]) \ bad)
          /\ lost' = lost \cup bad
    BY <1>2 DEF BulkRejects
  <2>2. losses' \in Nat /\ losses' > 0
    BY <1>0, <1>2 DEF BulkRejects, Loss
  <2> QED
    BY <1>2, <2>1, <2>2, NothingBack, FlushEndsInv DEF BulkRejects
<1>3. CASE BulkFails(f)
  <2> DEFINE r == RetryLogs(flushing[f])
  <2>1. /\ r \in Seq(1..logged) /\ Entries(r) \subseteq Entries(flushing[f])
        /\ NoRepeat(r) /\ Len(r) <= RetryKeep
    BY <1>0, RetryFacts
  <2>2. losses' \in Nat /\ losses' > 0
    BY <1>0, <1>3 DEF BulkFails, Loss
  <2>3. /\ logBuffer' = r \o logBuffer /\ indexed \subseteq indexed'
        /\ lost' = lost \cup (Entries(flushing[f]) \ Entries(r))
        /\ flushing[f] # <<>> /\ EndFlush(f) /\ logged' = logged
    BY <1>3 DEF BulkFails
  <2> HIDE DEF r
  <2> QED
    BY <2>1, <2>2, <2>3, FlushEndsInv
<1> QED
  BY <1>1, <1>2, <1>3

LEMMA LoggerStopsInv == LogInv /\ LoggerStops => LogInv'
<1> SUFFICES ASSUME LogInv, LoggerStops PROVE LogInv'
  OBVIOUS
<1>1. /\ logBuffer' = <<>> /\ \A f \in Flusher : flushing'[f] = <<>>
      /\ flushing' = [f \in Flusher |-> <<>>]
      /\ logged' = logged /\ indexed' = indexed /\ lost' = lost \cup Held
      /\ losses' = losses + 1
  BY DEF LoggerStops, Loss, Held
<1>2. LogTypeOK'
  BY <1>1 DEF LogInv, LogTypeOK
<1>3. HeldOnce'
  BY <1>1, EmptyFacts DEF HeldOnce
<1>4. Accounted'
  BY <1>1 DEF LogInv, LogTypeOK, Accounted
<1>5. BufferBounded'
  <2>1. Running' = {} /\ Cardinality({}) = 0
    BY <1>1, FS_EmptySet DEF Running
  <2>2. RetryKeep * Cardinality(Flusher) \in Nat /\ Len(logBuffer') = 0
    BY <1>1, RunningFacts
  <2>3. RetryKeep * Cardinality(Running') = 0
    BY <2>1, LogAssumption
  <2> QED
    BY <2>2, <2>3, LogAssumption DEF BufferBounded, Running
<1> QED
  BY <1>2, <1>3, <1>4, <1>5 DEF LogInv

LEMMA LogStepInv == LogInv /\ [LogNext]_logVars => LogInv'
<1> SUFFICES ASSUME LogInv, [LogNext]_logVars PROVE LogInv'
  OBVIOUS
<1>1. CASE Log
  BY <1>1, LogStepLogInv
<1>2. CASE PeriodicFlush
  BY <1>2, PeriodicFlushInv
<1>3. CASE LoggerStops
  BY <1>3, LoggerStopsInv
<1>4. CASE \E f \in Flusher : BulkIndexed(f) \/ BulkRejects(f) \/ BulkFails(f)
  BY <1>4, BulkInv
<1>5. CASE UNCHANGED logVars
  BY <1>5 DEF logVars, LogInv, LogTypeOK, HeldOnce, Accounted, Held,
              BufferBounded
<1> QED
  BY <1>1, <1>2, <1>3, <1>4, <1>5 DEF LogNext

-----------------------------------------------------------------------------
\* What HeldOnce says of the places of an entry.
LEMMA OnePlace ==
  ASSUME LogInv, NEW n \in 1..logged
  PROVE  /\ Cardinality(Places(n)) <= 1
         /\ Places(n) = {} => n \in indexed \cup lost
<1>1. \A p, q \in Places(n) : p = q
  <2>1. \A p \in Places(n) :
          \/ \E i \in DOMAIN logBuffer : logBuffer[i] = n /\ p = <<"buffer", i>>
          \/ \E f \in Flusher : \E i \in DOMAIN flushing[f] :
                flushing[f][i] = n /\ p = <<f, i>>
    BY DEF Places, Positions
  <2>2. \A i, j \in DOMAIN logBuffer :
          logBuffer[i] = n /\ logBuffer[j] = n => i = j
    BY DEF LogInv, HeldOnce, NoRepeat
  <2>3. \A f \in Flusher : \A i, j \in DOMAIN flushing[f] :
          flushing[f][i] = n /\ flushing[f][j] = n => i = j
    BY DEF LogInv, HeldOnce, NoRepeat
  <2>4. \A f \in Flusher :
          ~(n \in Entries(flushing[f]) /\ n \in Entries(logBuffer))
    BY DEF LogInv, HeldOnce
  <2>5. \A f, g \in Flusher :
          n \in Entries(flushing[f]) /\ n \in Entries(flushing[g]) => f = g
    BY DEF LogInv, HeldOnce
  <2>6. \A i \in DOMAIN logBuffer : logBuffer[i] = n => n \in Entries(logBuffer)
    BY DEF Entries
  <2>7. \A f \in Flusher : \A i \in DOMAIN flushing[f] :
          flushing[f][i] = n => n \in Entries(flushing[f])
    BY DEF Entries
  <2> QED
    BY <2>1, <2>2, <2>3, <2>4, <2>5, <2>6, <2>7
<1>2. Cardinality(Places(n)) <= 1
  <2>1. CASE Places(n) = {}
    BY <2>1, FS_EmptySet
  <2>2. CASE Places(n) # {}
    <3>1. PICK p : Places(n) = {p}
      BY <1>1, <2>2
    <3> QED
      BY <3>1, FS_Singleton
  <2> QED
    BY <2>1, <2>2
<1>3. ASSUME Places(n) = {} PROVE n \in indexed \cup lost
  <2>1. n \notin Entries(logBuffer)
    <3>1. SUFFICES ASSUME NEW i \in DOMAIN logBuffer, logBuffer[i] = n
                   PROVE  FALSE
      BY DEF Entries
    <3>2. <<"buffer", i>> \in Places(n)
      BY <3>1 DEF Places, Positions
    <3> QED
      BY <1>3, <3>2
  <2>2. \A f \in Flusher : n \notin Entries(flushing[f])
    <3>1. SUFFICES ASSUME NEW f \in Flusher, NEW i \in DOMAIN flushing[f],
                          flushing[f][i] = n
                   PROVE  FALSE
      BY DEF Entries
    <3>2. <<f, i>> \in Places(n)
      BY <3>1 DEF Places, Positions
    <3> QED
      BY <1>3, <3>2
  <2> QED
    BY <2>1, <2>2 DEF LogInv, Accounted, Held
<1> QED
  BY <1>2, <1>3

(* An entry waits in one place until it is indexed or lost, and none is    *)
(* lost while requests succeed.                                            *)
THEOREM EntriesAreConserved == LogSpec => []LogConserved
<1>1. LogInv => LogConserved
  BY OnePlace DEF LogConserved, LogInv, Accounted
<1> QED
  BY <1>1, LogInitInv, LogStepInv, PTL DEF LogSpec

(* The buffer and what running flushes may put back stay within the limit. *)
THEOREM BufferIsBounded == LogSpec => []BufferBounded
<1>1. LogInv => BufferBounded
  BY DEF LogInv
<1> QED
  BY <1>1, LogInitInv, LogStepInv, PTL DEF LogSpec
=============================================================================
