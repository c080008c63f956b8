---------------------------- MODULE BlobWalProofs ----------------------------
(***************************************************************************)
(* Durability of the blob WAL, for any number of writers, records and any  *)
(* segment size.                                                           *)
(*                                                                         *)
(* Segments are filled in order, and every one before the active one is    *)
(* flushed (LogInv); so one flush of a segment makes all records up to its *)
(* last durable.  A round's batch was appended before the round read the   *)
(* active segment's name, so its records are at or before the segment that *)
(* is flushed, whatever rotates meanwhile (RoundInv).                      *)
(***************************************************************************)
EXTENDS BlobWal, TLAPS

\* The log: segments in order, all but the active one on disk, and the disk a
\* prefix of the log.
LogInv ==
  /\ \A n \in Appended : segmentOf[n] <= active
  /\ \A n \in Appended : \A m \in 1..n : segmentOf[m] <= segmentOf[n]
  /\ \A n \in Appended : segmentOf[n] < active => n \in durable
  /\ DurableIsPrefix

\* The round: the records of its batch are in the segment it flushes or before
\* it, and on disk once the flush worked.
RoundInv ==
  /\ \A w \in batch : seq[w] \in Appended
  /\ \A w \in Writers : pc[w] # "idle" => seq[w] \in Appended
  /\ \A w \in waiters : pc[w] = "waiting"
  /\ \A w \in batch : pc[w] = "waiting" /\ w \notin waiters
  /\ round \in {"flush", "settle", "answer"} =>
       target <= active /\ \A w \in batch : segmentOf[seq[w]] <= target
  /\ (round \in {"settle", "answer"} /\ outcome = "ok") =>
       \A w \in batch : seq[w] \in durable

\* What has been promised.
AckInv ==
  /\ SyncedIsDurable
  /\ VisibleIsDurable
  /\ \A w \in Writers : pc[w] = "synced" => seq[w] \in durable

IInv == TypeOK /\ LogInv /\ RoundInv /\ AckInv

-----------------------------------------------------------------------------

\* An empty log.
LEMMA InitIInv == Init => IInv
<1> SUFFICES ASSUME Init PROVE IInv OBVIOUS
<1> USE DEF Init
<1>1. TypeOK
  <2>1. inFlight \in BOOLEAN BY Zenon
  <2> QED BY <2>1, WalAssumption DEF TypeOK, Appended
<1>2. LogInv BY DEF LogInv, Appended, DurableIsPrefix
<1>3. RoundInv BY DEF RoundInv
<1>4. AckInv BY DEF AckInv, SyncedIsDurable, VisibleIsDurable
<1> QED BY <1>1, <1>2, <1>3, <1>4 DEF IInv

\* Flushing a segment that is not ahead of the active one leaves the disk a
\* prefix of the log, and covers every record up to the segment's last.
LEMMA FlushedPrefix ==
  ASSUME TypeOK, LogInv, NEW segment \in Nat, segment <= active
  PROVE  LET d == durable \cup recordsIn(segment)
         IN  /\ d \subseteq Appended
             /\ \A n \in d : \A m \in 1..n : m \in d
             /\ \A n \in Appended : segmentOf[n] <= segment => n \in d
<1> DEFINE d == durable \cup recordsIn(segment)
<1>1. d \subseteq Appended BY DEF recordsIn, TypeOK
<1>2. ASSUME NEW n \in Appended, segmentOf[n] <= segment
      PROVE  n \in d
  <2>1. segmentOf[n] \in Nat /\ active \in Nat BY WalAssumption DEF TypeOK, Appended
  <2>2. CASE segmentOf[n] < segment
    <3>1. segmentOf[n] < active BY <2>1, <2>2
    <3> QED BY <3>1 DEF LogInv
  <2>3. CASE segmentOf[n] = segment BY <2>3 DEF recordsIn
  <2> QED BY <1>2, <2>1, <2>2, <2>3
<1>3. ASSUME NEW n \in d, NEW m \in 1..n
      PROVE  m \in d
  <2>1. CASE n \in durable BY <2>1 DEF LogInv, DurableIsPrefix
  <2>2. CASE n \in recordsIn(segment)
    <3>1. n \in Appended /\ segmentOf[n] = segment /\ m \in Appended
      BY <2>2 DEF recordsIn, Appended, TypeOK
    <3>2. segmentOf[m] <= segment BY <3>1 DEF LogInv
    <3> QED BY <1>2, <3>1, <3>2
  <2> QED BY <1>3, <2>1, <2>2
<1> QED BY <1>1, <1>2, <1>3

\* An append preserves the invariant.  Rotating first makes every record of
\* the log durable, so the new segment starts with nothing before it missing.
LEMMA AppendIInv ==
  ASSUME IInv, NEW w \in Writers, Append(w)
  PROVE  IInv'
<1>0. TypeOK /\ LogInv /\ RoundInv /\ AckInv BY DEF IInv
<1> DEFINE n == sequenceCounter + 1
<1>1. /\ sequenceCounter \in Nat /\ n \in 1..MaxSequence /\ sequenceCounter' = n
      /\ segmentOf' = [segmentOf EXCEPT ![n] = active'] /\ segmentOf'[n] = active'
      /\ \A m \in Appended : segmentOf'[m] = segmentOf[m]
      /\ seq' = [seq EXCEPT ![w] = n] /\ pc' = [pc EXCEPT ![w] = "appended"]
      /\ pc[w] = "idle"
      /\ UNCHANGED <<memTable, waiters, inFlight, syncedSeq, round, batch, target, outcome>>
  BY <1>0, WalAssumption DEF Append, groupvars, TypeOK, Appended
<1>2. /\ active' \in Nat /\ active <= active' /\ size' \in Nat
      /\ durable \subseteq durable' /\ durable' \subseteq Appended
      /\ \A m \in durable' : \A k \in 1..m : k \in durable'
      /\ \A m \in Appended : segmentOf[m] < active' => m \in durable'
  <2>1. CASE full
    <3>1. active' = active + 1 /\ durable' = durable \cup recordsIn(active) /\ size' = 1
      BY <2>1 DEF Append, rotate
    <3>2. active \in Nat /\ \A m \in Appended : segmentOf[m] \in Nat
      BY <1>0, WalAssumption DEF TypeOK, Appended
    <3>3. /\ durable' \subseteq Appended
          /\ \A m \in durable' : \A k \in 1..m : k \in durable'
          /\ \A m \in Appended : segmentOf[m] <= active => m \in durable'
      BY <1>0, <3>1, <3>2, FlushedPrefix
    <3> QED BY <3>1, <3>2, <3>3
  <2>2. CASE ~full
    <3>1. active' = active /\ durable' = durable /\ size' = size + 1
      BY <2>2 DEF Append
    <3> QED BY <1>0, <3>1 DEF LogInv, DurableIsPrefix, TypeOK
  <2> QED BY <2>1, <2>2
<1>3. Appended' = Appended \cup {n} /\ n \notin Appended BY <1>1 DEF Appended
<1>4. TypeOK'
  <2>1. segmentOf' \in [1..MaxSequence -> Nat] BY <1>0, <1>1, <1>2 DEF TypeOK
  <2>2. seq' \in [Writers -> 0..sequenceCounter'] /\ syncedSeq' \in 0..sequenceCounter'
    BY <1>0, <1>1 DEF TypeOK
  <2>3. pc' \in [Writers -> {"idle", "appended", "waiting", "synced"}]
    BY <1>0, <1>1 DEF TypeOK
  <2>4. inFlight' \in BOOLEAN BY Zenon, <1>0, <1>1 DEF TypeOK
  <2> QED BY <1>0, <1>1, <1>2, <1>3, <2>1, <2>2, <2>3, <2>4 DEF TypeOK
<1>5. LogInv'
  <2>1. \A m \in Appended' : segmentOf'[m] \in Nat BY <1>4, WalAssumption DEF TypeOK, Appended
  <2>2. \A m \in Appended' : segmentOf'[m] <= active'
    BY <1>0, <1>1, <1>2, <1>3, <2>1 DEF LogInv, TypeOK
  <2>3. ASSUME NEW m \in Appended', NEW k \in 1..m
        PROVE  segmentOf'[k] <= segmentOf'[m]
    <3>1. CASE m = n
      <4>1. k \in Appended' BY <1>1, <1>3, <3>1 DEF Appended
      <4> QED BY <1>1, <2>2, <3>1, <4>1
    <3>2. CASE m # n
      <4>1. m \in Appended /\ k \in Appended BY <1>1, <1>3, <2>3, <3>2 DEF Appended
      <4> QED BY <1>0, <1>1, <4>1 DEF LogInv
    <3> QED BY <3>1, <3>2
  <2>4. \A m \in Appended' : segmentOf'[m] < active' => m \in durable'
    BY <1>1, <1>2, <1>3, <2>1
  <2> QED BY <1>2, <2>2, <2>3, <2>4 DEF LogInv, DurableIsPrefix
<1>6. RoundInv'
  <2>1. w \notin batch /\ w \notin waiters BY <1>0, <1>1 DEF RoundInv
  <2>2. \A v \in Writers \ {w} : seq'[v] = seq[v] /\ pc'[v] = pc[v]
    BY <1>0, <1>1 DEF TypeOK
  <2>3. seq'[w] = n /\ pc'[w] = "appended" BY <1>0, <1>1 DEF TypeOK
  <2>4. \A v \in batch : v \in Writers /\ v # w /\ seq'[v] = seq[v] /\ pc'[v] = pc[v]
    BY <1>0, <2>1, <2>2 DEF TypeOK
  <2>5. \A v \in waiters : pc'[v] = "waiting"
    BY <1>0, <2>1, <2>2 DEF TypeOK, RoundInv
  <2>6. round \in {"flush", "settle", "answer"} =>
          target <= active' /\ \A v \in batch : segmentOf'[seq'[v]] <= target
    BY <1>0, <1>1, <1>2, <2>4 DEF RoundInv, TypeOK
  <2> QED BY <1>0, <1>1, <1>2, <1>3, <2>2, <2>3, <2>4, <2>5, <2>6 DEF RoundInv
<1>7. AckInv'
  BY <1>0, <1>1, <1>2 DEF AckInv, SyncedIsDurable, VisibleIsDurable, TypeOK
<1> QED BY <1>4, <1>5, <1>6, <1>7 DEF IInv
\* A step that assigns no sequence number and moves no writer: more may become
\* durable, and the active segment may move past what is.
LEMMA DiskIInv ==
  ASSUME IInv, active' \in Nat, active <= active', size' \in Nat,
         durable \subseteq durable', durable' \subseteq Appended,
         \A n \in durable' : \A m \in 1..n : m \in durable',
         \A n \in Appended : segmentOf[n] < active' => n \in durable',
         UNCHANGED <<sequenceCounter, segmentOf, memTable, pc, seq, groupvars>>
  PROVE  IInv'
<1>0. TypeOK /\ LogInv /\ RoundInv /\ AckInv BY DEF IInv
<1>1. /\ UNCHANGED <<sequenceCounter, segmentOf, memTable, pc, seq, waiters, inFlight,
                     syncedSeq, round, batch, target, outcome>>
      /\ Appended' = Appended
  BY DEF groupvars, Appended
<1>2. TypeOK'
  <2>1. inFlight' \in BOOLEAN BY Zenon, <1>0, <1>1 DEF TypeOK
  <2> QED BY <1>0, <1>1, <2>1 DEF TypeOK
<1>3. \A n \in Appended : segmentOf[n] \in Nat /\ active \in Nat /\ target \in Nat
  BY <1>0, WalAssumption DEF TypeOK, Appended
<1>4. LogInv' BY <1>0, <1>1, <1>3 DEF LogInv, DurableIsPrefix
<1>5. RoundInv' BY <1>0, <1>1, <1>3 DEF RoundInv, TypeOK
<1>6. AckInv' BY <1>0, <1>1 DEF AckInv, SyncedIsDurable, VisibleIsDurable
<1> QED BY <1>2, <1>4, <1>5, <1>6 DEF IInv

\* A refused append preserves the invariant, wherever its rotation stopped.
LEMMA AppendFailsIInv ==
  ASSUME IInv, NEW w \in Writers, AppendFails(w)
  PROVE  IInv'
<1>0. TypeOK /\ LogInv BY DEF IInv
<1>1. active \in Nat /\ size \in Nat /\ \A n \in Appended : segmentOf[n] \in Nat
  BY <1>0, WalAssumption DEF TypeOK, Appended
<1>2. /\ durable' = durable \cup recordsIn(active)
      /\ active' \in {active, active + 1} /\ size' \in {0, size}
      /\ UNCHANGED <<sequenceCounter, segmentOf, memTable, pc, seq, groupvars>>
  BY DEF AppendFails, rotate
<1>3. /\ durable' \subseteq Appended
      /\ \A n \in durable' : \A m \in 1..n : m \in durable'
      /\ \A n \in Appended : segmentOf[n] <= active => n \in durable'
  BY <1>0, <1>1, <1>2, FlushedPrefix
<1>4. /\ active' \in Nat /\ active <= active' /\ size' \in Nat
      /\ \A n \in Appended : segmentOf[n] < active' => n \in durable'
  BY <1>1, <1>2, <1>3
<1> QED BY <1>2, <1>3, <1>4, DiskIInv

\* The steps of GroupCommitter and of a writer leave the log as it is.
LEMMA SameLog ==
  ASSUME LogInv, UNCHANGED walvars
  PROVE  LogInv' /\ Appended' = Appended /\ durable' = durable
BY DEF LogInv, walvars, DurableIsPrefix, Appended

\* A caller of SyncTo returns on syncedSeq, which is on disk, or waits.
LEMMA SyncToIInv ==
  ASSUME IInv, NEW w \in Writers, SyncTo(w)
  PROVE  IInv'
<1>0. TypeOK /\ LogInv /\ RoundInv /\ AckInv BY DEF IInv
<1>1. /\ pc[w] = "appended" /\ pc'[w] \in {"synced", "waiting"}
      /\ \A v \in Writers \ {w} : pc'[v] = pc[v]
      /\ pc'[w] = "synced" => syncedSeq >= seq[w] /\ waiters' = waiters
      /\ waiters' \subseteq waiters \cup {w}
      /\ pc'[w] = "synced" => w \notin waiters'
      /\ round' \in {round, "take"}
      /\ UNCHANGED <<walvars, memTable, seq, syncedSeq, batch, target, outcome>>
  BY <1>0 DEF SyncTo, TypeOK, RoundInv
<1>2. LogInv' /\ Appended' = Appended /\ durable' = durable BY <1>0, <1>1, SameLog
<1>3. TypeOK'
  <2>1. inFlight' \in BOOLEAN BY Zenon, <1>0 DEF SyncTo, TypeOK
  <2>2. pc' \in [Writers -> {"idle", "appended", "waiting", "synced"}]
    BY <1>0 DEF SyncTo, TypeOK
  <2> QED BY <1>0, <1>1, <1>2, <2>1, <2>2 DEF TypeOK, walvars
<1>4. w \notin batch /\ w \notin waiters BY <1>0, <1>1 DEF RoundInv
<1>5. RoundInv'
  <2>1. \A v \in batch : v \in Writers /\ pc'[v] = pc[v]
    BY <1>0, <1>1, <1>4 DEF TypeOK
  <2>2. \A v \in waiters' : pc'[v] = "waiting"
    BY <1>0, <1>1, <1>4 DEF TypeOK, RoundInv
  <2>3. \A v \in Writers : pc'[v] # "idle" => seq[v] \in Appended
    BY <1>0, <1>1 DEF RoundInv
  <2> QED BY <1>0, <1>1, <1>2, <2>1, <2>2, <2>3 DEF RoundInv, walvars
<1>6. AckInv'
  <2>1. pc'[w] = "synced" => seq[w] \in durable
    <3>1. SUFFICES ASSUME pc'[w] = "synced" PROVE seq[w] \in durable OBVIOUS
    <3>2. seq[w] \in 1..syncedSeq
      BY <1>0, <1>1, <3>1 DEF RoundInv, TypeOK, Appended
    <3> QED BY <1>0, <3>2 DEF AckInv, SyncedIsDurable
  <2> QED BY <1>0, <1>1, <1>2, <2>1 DEF AckInv, SyncedIsDurable, VisibleIsDurable
<1> QED BY <1>2, <1>3, <1>5, <1>6 DEF IInv

\* A writer puts a blob into the memtable once its record is on disk.
LEMMA PutIInv ==
  ASSUME IInv, NEW w \in Writers, Put(w)
  PROVE  IInv'
<1>0. TypeOK /\ LogInv /\ RoundInv /\ AckInv BY DEF IInv
<1>1. /\ pc[w] = "synced" /\ pc' = [pc EXCEPT ![w] = "idle"]
      /\ memTable' = memTable \cup {seq[w]}
      /\ UNCHANGED <<walvars, seq, waiters, inFlight, syncedSeq, round, batch, target,
                     outcome>>
  BY DEF Put, groupvars
<1>2. LogInv' /\ Appended' = Appended /\ durable' = durable BY <1>0, <1>1, SameLog
<1>3. seq[w] \in durable /\ seq[w] \in Appended BY <1>0, <1>1 DEF AckInv, RoundInv
<1>4. TypeOK'
  <2>1. inFlight' \in BOOLEAN BY Zenon, <1>0, <1>1 DEF TypeOK
  <2> QED BY <1>0, <1>1, <1>2, <1>3, <2>1 DEF TypeOK, walvars
<1>5. RoundInv'
  <2>1. w \notin batch /\ w \notin waiters BY <1>0, <1>1 DEF RoundInv
  <2> QED BY <1>0, <1>1, <1>2, <2>1 DEF RoundInv, TypeOK, walvars
<1>6. AckInv'
  BY <1>0, <1>1, <1>2, <1>3 DEF AckInv, SyncedIsDurable, VisibleIsDurable, TypeOK
<1> QED BY <1>2, <1>4, <1>5, <1>6 DEF IInv

\* The goroutine that syncs preserves the invariant.
LEMMA RoundsIInv ==
  ASSUME IInv, runRounds
  PROVE  IInv'
<1>0. TypeOK /\ LogInv /\ RoundInv /\ AckInv BY DEF IInv
<1>1. CASE takeBatch
  <2>1. /\ batch' = waiters /\ waiters' = {} /\ round' \in {"off", "name"}
        /\ UNCHANGED <<walvars, memTable, pc, seq, syncedSeq, target, outcome>>
    BY <1>1 DEF takeBatch
  <2>2. LogInv' /\ Appended' = Appended /\ durable' = durable BY <1>0, <2>1, SameLog
  <2>3. inFlight' \in BOOLEAN BY Zenon, <1>1 DEF takeBatch
  <2>4. TypeOK' BY <1>0, <2>1, <2>2, <2>3 DEF TypeOK, walvars
  <2>5. RoundInv' BY <1>0, <2>1, <2>2 DEF RoundInv, TypeOK
  <2>6. AckInv' BY <1>0, <2>1, <2>2 DEF AckInv, SyncedIsDurable, VisibleIsDurable
  <2> QED BY <2>2, <2>4, <2>5, <2>6 DEF IInv
<1>2. CASE Sync
  <2>1. /\ target' = active /\ round' = "flush"
        /\ UNCHANGED <<walvars, memTable, pc, seq, waiters, inFlight, syncedSeq, batch,
                       outcome>>
    BY <1>2 DEF Sync
  <2>2. LogInv' /\ Appended' = Appended /\ durable' = durable BY <1>0, <2>1, SameLog
  <2>3. inFlight' \in BOOLEAN BY Zenon, <1>0, <2>1 DEF TypeOK
  <2>4. TypeOK' BY <1>0, <2>1, <2>2, <2>3 DEF TypeOK, walvars
  <2>5. RoundInv' BY <1>0, <2>1, <2>2 DEF RoundInv, LogInv, TypeOK, walvars
  <2>6. AckInv' BY <1>0, <2>1, <2>2 DEF AckInv, SyncedIsDurable, VisibleIsDurable
  <2> QED BY <2>2, <2>4, <2>5, <2>6 DEF IInv
<1>3. CASE FlushSegment
  <2>1. /\ round = "flush" /\ round' = "settle"
        /\ \/ durable' = durable \cup recordsIn(target) /\ outcome' = "ok"
           \/ durable' = durable /\ outcome' = "error"
        /\ UNCHANGED <<sequenceCounter, segmentOf, active, size, memTable, pc, seq,
                       waiters, inFlight, syncedSeq, batch, target>>
        /\ Appended' = Appended
    BY <1>3 DEF FlushSegment, Appended
  <2>2. /\ durable \subseteq durable' /\ durable' \subseteq Appended
        /\ \A n \in durable' : \A m \in 1..n : m \in durable'
        /\ outcome' = "ok" =>
             \A n \in Appended : segmentOf[n] <= target => n \in durable'
    <3>1. target \in Nat /\ target <= active BY <1>0, <2>1 DEF TypeOK, RoundInv
    <3>2. CASE durable' = durable \cup recordsIn(target)
      BY <1>0, <3>1, <3>2, FlushedPrefix
    <3>3. CASE durable' = durable /\ outcome' = "error"
      BY <1>0, <3>3 DEF LogInv, DurableIsPrefix, TypeOK
    <3> QED BY <2>1, <3>2, <3>3
  <2>3. inFlight' \in BOOLEAN BY Zenon, <1>0, <2>1 DEF TypeOK
  <2>4. TypeOK' BY <1>0, <2>1, <2>2, <2>3 DEF TypeOK
  <2>5. LogInv' BY <1>0, <2>1, <2>2 DEF LogInv, DurableIsPrefix
  <2>6. RoundInv' BY <1>0, <2>1, <2>2 DEF RoundInv
  <2>7. AckInv' BY <1>0, <2>1, <2>2 DEF AckInv, SyncedIsDurable, VisibleIsDurable
  <2> QED BY <2>4, <2>5, <2>6, <2>7 DEF IInv
<1>4. CASE settle
  <2>1. /\ round = "settle" /\ round' = "answer"
        /\ \/ outcome = "ok" /\ (\/ syncedSeq' = syncedSeq
                                 \/ \E w \in batch : syncedSeq' = seq[w])
           \/ syncedSeq' = syncedSeq
        /\ UNCHANGED <<walvars, memTable, pc, seq, waiters, inFlight, batch, target, outcome>>
    BY <1>4 DEF settle
  <2>2. LogInv' /\ Appended' = Appended /\ durable' = durable BY <1>0, <2>1, SameLog
  <2>3. syncedSeq' \in 0..sequenceCounter /\ \A n \in 1..syncedSeq' : n \in durable
    <3>1. CASE syncedSeq' = syncedSeq BY <1>0, <3>1 DEF TypeOK, AckInv, SyncedIsDurable
    <3>2. ASSUME outcome = "ok", NEW w \in batch, syncedSeq' = seq[w]
          PROVE  syncedSeq' \in 0..sequenceCounter /\ \A n \in 1..syncedSeq' : n \in durable
      <4>1. seq[w] \in durable BY <1>0, <2>1, <3>2 DEF RoundInv
      <4> QED BY <1>0, <3>2, <4>1 DEF LogInv, DurableIsPrefix, TypeOK
    <3> QED BY <2>1, <3>1, <3>2
  <2>4. inFlight' \in BOOLEAN BY Zenon, <1>0, <2>1 DEF TypeOK
  <2>5. TypeOK' BY <1>0, <2>1, <2>2, <2>3, <2>4 DEF TypeOK, walvars
  <2>6. RoundInv' BY <1>0, <2>1, <2>2 DEF RoundInv, walvars
  <2>7. AckInv' BY <1>0, <2>1, <2>2, <2>3 DEF AckInv, SyncedIsDurable, VisibleIsDurable
  <2> QED BY <2>2, <2>5, <2>6, <2>7 DEF IInv
<1>5. ASSUME NEW w \in Writers, answer(w)
      PROVE  IInv'
  <2>1. /\ round = "answer" /\ w \in batch /\ batch' = batch \ {w}
        /\ pc' = [pc EXCEPT ![w] = IF outcome = "ok" THEN "synced" ELSE "idle"]
        /\ round' \in {"take", "answer"}
        /\ UNCHANGED <<walvars, memTable, seq, waiters, inFlight, syncedSeq, target, outcome>>
    BY <1>5 DEF answer
  <2>2. LogInv' /\ Appended' = Appended /\ durable' = durable BY <1>0, <2>1, SameLog
  <2>3. inFlight' \in BOOLEAN BY Zenon, <1>0, <2>1 DEF TypeOK
  <2>4. TypeOK' BY <1>0, <2>1, <2>2, <2>3 DEF TypeOK, walvars
  <2>5. w \notin waiters BY <1>0, <2>1 DEF RoundInv
  <2>6. RoundInv' BY <1>0, <2>1, <2>2, <2>5 DEF RoundInv, TypeOK, walvars
  <2>7. AckInv'
    BY <1>0, <2>1, <2>2 DEF AckInv, RoundInv, SyncedIsDurable, VisibleIsDurable, TypeOK
  <2> QED BY <2>2, <2>4, <2>6, <2>7 DEF IInv
<1> QED BY <1>1, <1>2, <1>3, <1>4, <1>5 DEF runRounds

-----------------------------------------------------------------------------
(* The theorems.                                                           *)

\* Every reachable state satisfies the invariant.
THEOREM Invariance == Spec => []IInv
<1>1. IInv /\ [Next]_vars => IInv'
  <2>1. SUFFICES ASSUME IInv, [Next]_vars PROVE IInv' OBVIOUS
  <2>2. ASSUME NEW w \in Writers, WriteKeyedBlob(w)
        PROVE  IInv'
    BY <2>1, <2>2, AppendIInv, AppendFailsIInv, SyncToIInv, PutIInv DEF WriteKeyedBlob
  <2>3. CASE runRounds BY <2>1, <2>3, RoundsIInv
  <2>4. CASE UNCHANGED vars
    <3>1. TypeOK /\ LogInv BY <2>1 DEF IInv
    <3>2. UNCHANGED <<sequenceCounter, segmentOf, active, size, durable, memTable, pc, seq>>
          /\ UNCHANGED groupvars
      BY <2>4 DEF vars, groupvars
    <3>3. active <= active' /\ durable' \subseteq Appended BY <3>1, <3>2 DEF TypeOK
    <3> QED BY <2>1, <3>1, <3>2, <3>3, DiskIInv DEF TypeOK, LogInv, DurableIsPrefix
  <2> QED BY <2>1, <2>2, <2>3, <2>4 DEF Next
<1> QED BY <1>1, InitIInv, PTL DEF Spec

\* The state has its types; no record that was not appended is counted durable.
THEOREM TypeCorrect == Spec => []TypeOK
<1>1. IInv => TypeOK BY DEF IInv
<1> QED BY <1>1, Invariance, PTL

\* What SyncTo promises of syncedSeq.
THEOREM SyncedMeansDurable == Spec => []SyncedIsDurable
<1>1. IInv => SyncedIsDurable BY DEF IInv, AckInv
<1> QED BY <1>1, Invariance, PTL

\* What WriteKeyedBlob promises under DurabilitySync.
THEOREM VisibleMeansDurable == Spec => []VisibleIsDurable
<1>1. IInv => VisibleIsDurable BY DEF IInv, AckInv
<1> QED BY <1>1, Invariance, PTL

\* Rotation and group commit never leave a hole on disk.
THEOREM NoHoles == Spec => []DurableIsPrefix
<1>1. IInv => DurableIsPrefix BY DEF IInv, LogInv
<1> QED BY <1>1, Invariance, PTL
=============================================================================
