------------------------------- MODULE BlobWal -------------------------------
(***************************************************************************)
(* The blob write-ahead log of a storage engine under DurabilitySync.      *)
(*                                                                         *)
(* ServerEngine.WriteKeyedBlob appends a record to the WAL, waits in       *)
(* GroupCommitter.SyncTo until it is on disk, and puts the blob into the   *)
(* memtable, where readers find it.  It takes no lock of its own: writers  *)
(* interleave freely, appends rotate the active segment, and one goroutine *)
(* (runRounds) syncs on behalf of whoever is waiting.                      *)
(*                                                                         *)
(* Append, and each critical section of GroupCommitter, is one step.  Sync *)
(* is two: it reads the active segment's name under the WAL's mutex and    *)
(* flushes the segment of that name without it, so that an append may      *)
(* rotate in between.  Sizes are counted in records.                       *)
(*                                                                         *)
(* The life of a newly created log is modelled, from the branch of         *)
(* OpenOrCreate that finds no segments.  The other branch takes up the     *)
(* chain of an earlier process with sequenceCounter 0 and is left out.     *)
(***************************************************************************)
EXTENDS Naturals

CONSTANTS
  Writers,       \* the goroutines that write blobs
  SegmentCap,    \* walMaxSegmentBytes, in records; 0 is no cap
  MaxSequence    \* bound: the last sequence number assigned

ASSUME WalAssumption == SegmentCap \in Nat /\ MaxSequence \in Nat

VARIABLES
  sequenceCounter,
  segmentOf,   \* record -> the segment it was appended to
  active,      \* the active segment
  size,        \* records in the active segment
  durable,     \* the records the platform has flushed
  memTable,    \* the records whose blobs readers find
  pc, seq,     \* writer -> where it is in WriteKeyedBlob, its record
  waiters,     \* GroupCommitter: the writers waiting for a round
  inFlight, syncedSeq,
  round,       \* where runRounds is, or "off"
  batch,       \* the waiters of this round that it has not answered
  target,      \* the segment this round flushes
  outcome      \* what this round's doSync returned

walvars == <<sequenceCounter, segmentOf, active, size, durable>>
groupvars == <<waiters, inFlight, syncedSeq, round, batch, target, outcome>>
vars == <<sequenceCounter, segmentOf, active, size, durable, memTable, pc, seq,
          waiters, inFlight, syncedSeq, round, batch, target, outcome>>

Appended == 1..sequenceCounter

TypeOK ==
  /\ sequenceCounter \in 0..MaxSequence
  /\ segmentOf \in [1..MaxSequence -> Nat]
  /\ active \in Nat /\ size \in Nat
  /\ durable \subseteq Appended /\ memTable \subseteq Appended
  /\ pc \in [Writers -> {"idle", "appended", "waiting", "synced"}]
  /\ seq \in [Writers -> 0..sequenceCounter]
  /\ waiters \subseteq Writers /\ batch \subseteq Writers
  /\ inFlight \in BOOLEAN
  /\ syncedSeq \in 0..sequenceCounter
  /\ round \in {"off", "take", "name", "flush", "settle", "answer"}
  /\ target \in Nat
  /\ outcome \in {"ok", "error"}

Init ==
  /\ sequenceCounter = 0 /\ segmentOf = [n \in 1..MaxSequence |-> 0]
  /\ active = 0 /\ size = 0
  /\ durable = {} /\ memTable = {}
  /\ pc = [w \in Writers |-> "idle"]
  /\ seq = [w \in Writers |-> 0]
  /\ waiters = {} /\ inFlight = FALSE /\ syncedSeq = 0
  /\ round = "off" /\ batch = {} /\ target = 0 /\ outcome = "ok"

-----------------------------------------------------------------------------
(* The log.                                                                *)

\* Mutant: a flush covers the records the segment is still to get.
recordsInForever(segment) == {n \in 1..MaxSequence : segmentOf[n] = segment}

recordsIn(segment) == {n \in Appended : segmentOf[n] = segment}

\* Whether one more record would push the active segment past the cap.  A
\* segment always takes its first record.
full == SegmentCap > 0 /\ size > 0 /\ size + 1 > SegmentCap

\* Mutant: the previous segment is sealed without being flushed.
rotateUnflushed ==
  /\ active' = active + 1
  /\ UNCHANGED durable

\* A new segment is created; the previous one is flushed and sealed.
rotate ==
  /\ active' = active + 1
  /\ durable' = durable \cup recordsIn(active)

Append(w) ==
  /\ pc[w] = "idle"
  /\ sequenceCounter < MaxSequence
  /\ IF full THEN rotate /\ size' = 1
             ELSE size' = size + 1 /\ UNCHANGED <<active, durable>>
  /\ sequenceCounter' = sequenceCounter + 1
  /\ segmentOf' = [segmentOf EXCEPT ![sequenceCounter + 1] = active']
  /\ seq' = [seq EXCEPT ![w] = sequenceCounter + 1]
  /\ pc' = [pc EXCEPT ![w] = "appended"]
  /\ UNCHANGED <<memTable, groupvars>>

\* The append is refused, with the rotation done or with the previous segment
\* flushed but not sealed (refused earlier, it changes nothing).  No sequence
\* number is used.
AppendFails(w) ==
  /\ pc[w] = "idle"
  /\ full
  /\ \/ rotate /\ size' = 0
     \/ /\ durable' = durable \cup recordsIn(active)
        /\ UNCHANGED <<active, size>>
  /\ UNCHANGED <<sequenceCounter, segmentOf, memTable, pc, seq, groupvars>>

-----------------------------------------------------------------------------
(* GroupCommitter.                                                         *)

\* Mutant: a caller that comes while a round is running joins that round.
SyncToJoinsRound(w) ==
  /\ pc[w] = "appended"
  /\ pc' = [pc EXCEPT ![w] = IF syncedSeq >= seq[w] THEN "synced" ELSE "waiting"]
  /\ IF syncedSeq >= seq[w]
     THEN UNCHANGED <<waiters, batch, inFlight, round>>
     ELSE /\ IF round \in {"flush", "settle", "answer"}
             THEN batch' = batch \cup {w} /\ UNCHANGED waiters
             ELSE waiters' = waiters \cup {w} /\ UNCHANGED batch
          /\ inFlight' = TRUE
          /\ round' = IF inFlight THEN round ELSE "take"
  /\ UNCHANGED <<walvars, memTable, seq, syncedSeq, target, outcome>>

\* A record already covered returns at once.  Otherwise the caller waits, and
\* starts runRounds unless it is running.
SyncTo(w) ==
  /\ pc[w] = "appended"
  /\ IF syncedSeq >= seq[w]
     THEN /\ pc' = [pc EXCEPT ![w] = "synced"]
          /\ UNCHANGED <<waiters, inFlight, round>>
     ELSE /\ pc' = [pc EXCEPT ![w] = "waiting"]
          /\ waiters' = waiters \cup {w}
          /\ inFlight' = TRUE
          /\ round' = IF inFlight THEN round ELSE "take"
  /\ UNCHANGED <<walvars, memTable, seq, syncedSeq, batch, target, outcome>>

\* Mutant: the goroutine returns without clearing inFlight.
takeBatchStaysInFlight ==
  /\ round = "take"
  /\ batch' = waiters /\ waiters' = {}
  /\ round' = IF waiters = {} THEN "off" ELSE "name"
  /\ UNCHANGED <<walvars, memTable, pc, seq, inFlight, syncedSeq, target, outcome>>

\* runRounds takes whoever is waiting, or returns.
takeBatch ==
  /\ round = "take"
  /\ batch' = waiters /\ waiters' = {}
  /\ inFlight' = (waiters # {})
  /\ round' = IF waiters = {} THEN "off" ELSE "name"
  /\ UNCHANGED <<walvars, memTable, pc, seq, syncedSeq, target, outcome>>

\* Sync, under the WAL's mutex: which segment is active.
Sync ==
  /\ round = "name"
  /\ target' = active
  /\ round' = "flush"
  /\ UNCHANGED <<walvars, memTable, pc, seq, waiters, inFlight, syncedSeq, batch,
                 outcome>>

\* Sync, without the mutex: the platform flushes that segment, or fails to.
FlushSegment ==
  /\ round = "flush"
  /\ \/ durable' = durable \cup recordsIn(target) /\ outcome' = "ok"
     \/ UNCHANGED durable /\ outcome' = "error"
  /\ round' = "settle"
  /\ UNCHANGED <<sequenceCounter, segmentOf, active, size, memTable, pc, seq,
                 waiters, inFlight, syncedSeq, batch, target>>

\* After a sync that worked, syncedSeq moves up to the last record of the batch.
settle ==
  /\ round = "settle"
  /\ LET reached == {seq[w] : w \in batch} \cup {syncedSeq}
     IN  IF outcome = "ok"
         THEN \E n \in reached : (\A m \in reached : m <= n) /\ syncedSeq' = n
         ELSE UNCHANGED syncedSeq
  /\ round' = "answer"
  /\ UNCHANGED <<walvars, memTable, pc, seq, waiters, inFlight, batch, target, outcome>>

\* Mutant: the waiters are not told that the sync failed.
answerWithoutError(w) ==
  /\ round = "answer"
  /\ w \in batch
  /\ batch' = batch \ {w}
  /\ pc' = [pc EXCEPT ![w] = "synced"]
  /\ round' = IF batch = {w} THEN "take" ELSE "answer"
  /\ UNCHANGED <<walvars, memTable, seq, waiters, inFlight, syncedSeq, target, outcome>>

\* One waiter of the batch gets the outcome; after the last, the next round.
answer(w) ==
  /\ round = "answer"
  /\ w \in batch
  /\ batch' = batch \ {w}
  /\ pc' = [pc EXCEPT ![w] = IF outcome = "ok" THEN "synced" ELSE "idle"]
  /\ round' = IF batch = {w} THEN "take" ELSE "answer"
  /\ UNCHANGED <<walvars, memTable, seq, waiters, inFlight, syncedSeq, target, outcome>>

\* The writer, told that its record is on disk, shows the blob to readers.
Put(w) ==
  /\ pc[w] = "synced"
  /\ memTable' = memTable \cup {seq[w]}
  /\ pc' = [pc EXCEPT ![w] = "idle"]
  /\ UNCHANGED <<walvars, seq, groupvars>>

-----------------------------------------------------------------------------

WriteKeyedBlob(w) == Append(w) \/ AppendFails(w) \/ SyncTo(w) \/ Put(w)

runRounds ==
  takeBatch \/ Sync \/ FlushSegment \/ settle \/ \E w \in Writers : answer(w)

Next == (\E w \in Writers : WriteKeyedBlob(w)) \/ runRounds

Spec == Init /\ [][Next]_vars

\* A goroutine that can run does.
FairSpec == Spec /\ WF_vars(runRounds)

-----------------------------------------------------------------------------
(* Properties.                                                             *)

\* "SyncTo(seq) only returns once every write up to and including seq is
\* durable": syncedSeq, which later callers return on without waiting, is never
\* ahead of the disk, though batches, rotations and failed syncs interleave.
SyncedIsDurable == \A n \in 1..syncedSeq : n \in durable

\* A blob that readers see survives a crash.
VisibleIsDurable == memTable \subseteq durable

\* What is on disk is a prefix of the log: a crash never leaves a hole that
\* Recover, which reads segments in order, would end at.
DurableIsPrefix == \A n \in durable : \A m \in 1..n : m \in durable

\* No caller of SyncTo is abandoned by a round that ends as it arrives.
WaitersAreAnswered == \A w \in Writers : pc[w] = "waiting" ~> pc[w] # "waiting"
=============================================================================
