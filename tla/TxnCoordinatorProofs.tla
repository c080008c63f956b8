------------------------ MODULE TxnCoordinatorProofs ------------------------
(***************************************************************************)
(* Proofs about TxnCoordinator, for every set of groups and namespaces.    *)
(***************************************************************************)
EXTENDS TxnCoordinator, TLAPS

-----------------------------------------------------------------------------
(* The inductive invariant.                                                *)

\* No number in use is above the EPOCH file, and an open decision log has its file.
EpochInv ==
  /\ \A e \in live \cup dead : 0 < e /\ e <= epochFile
  /\ epoch <= epochFile
  /\ \A g \in Groups : gepoch[g] <= epochFile
  /\ log = "open" => up /\ epoch \in live \ dead

\* The groups in flight are those that run, and they run in the present epoch.
PhaseInv ==
  /\ inflight = {g \in Groups : phase[g] \in Running}
  /\ ~up => inflight = {}
  /\ \A g \in Groups : /\ phase[g] \in Running => gepoch[g] = epoch /\ epoch \in live
                       /\ phase[g] \in Running => log = "open" \/ closed
                       /\ phase[g] = "idle" => gepoch[g] = 0
                       /\ gepoch[g] = 0 => phase[g] \in {"idle", "abandoned"}

\* How far a group's parts have come, by its phase.
PartInv ==
  \A g \in Groups :
    /\ ondisk[g] \subseteq added[g] /\ added[g] \subseteq Parts[g]
    /\ phase[g] \in {"idle", "abandoned"} => added[g] = {}
    /\ phase[g] \in {"queued", "acked", "nacked", "committed"} => ondisk[g] = Parts[g]
    /\ g \in decided => ondisk[g] = Parts[g]

\* The queue of the decision log, and what its answers mean.
QueueInv ==
  /\ \A i \in 1..Len(queue) : phase[queue[i]] = "queued"
  /\ \A i, j \in 1..Len(queue) : queue[i] = queue[j] => i = j
  /\ queue # <<>> => log = "open"
  /\ \A g \in Groups :
       /\ phase[g] = "queued" => \E i \in 1..Len(queue) : queue[i] = g
       /\ phase[g] = "acked" => g \in decided
       /\ g \in committed /\ log = "open" => phase[g] = "committed"
       /\ g \in decided => phase[g] \in {"acked", "nacked", "committed", "failed", "lost"}
       /\ phase[g] = "committed" /\ log = "open" /\ gepoch[g] = epoch => g \in committed

\* An epoch without a file has only groups that committed or never published, and an
\* epoch that has not failed has only those and running ones.
FileInv ==
  \A g \in Groups :
    /\ gepoch[g] # 0 /\ gepoch[g] \notin live \cup dead => phase[g] \in {"committed", "abandoned"}
    /\ phase[g] = "committed" /\ gepoch[g] \in live \cup dead => g \in decided
    /\ log = "open" /\ ~failed /\ gepoch[g] = epoch => phase[g] \in Running \cup {"committed", "abandoned"}

\* A record follows the records of its group's predecessors, on disk and in the queue.
OrderInv ==
  /\ \A g \in Groups : \A p \in preds[g] :
       /\ gepoch[p] = gepoch[g] /\ gepoch[g] # 0
       /\ g \in decided => p \in decided
  /\ ~logErr => \A i \in 1..Len(queue) : \A p \in preds[queue[i]] :
       p \in decided \/ \E j \in 1..(i - 1) : queue[j] = p
  /\ \A p \in Groups :
       log = "open" /\ ~logErr /\ gepoch[p] = epoch /\ enqueued[p] = "ok" =>
         p \in decided \/ \E j \in 1..Len(queue) : queue[j] = p
  /\ \A g \in Groups : phase[g] \in {"idle", "begun", "published"} => enqueued[g] = "no"

IInv == TypeOK /\ EpochInv /\ PhaseInv /\ PartInv /\ QueueInv /\ FileInv /\ OrderInv

-----------------------------------------------------------------------------
(* One lemma per action.                                                   *)

\* startEpochLocked picks the epoch after the one in the EPOCH file: no decision file on
\* disk carries a later one.
LEMMA NextEpoch == ASSUME TypeOK, EpochInv PROVE nextEpoch = epochFile + 1
<1> DEFINE S == {epochFile, epoch} \cup live \cup dead
<1>1. epochFile \in S /\ \A e \in S : e \in Nat /\ e <= epochFile
  BY DEF TypeOK, EpochInv
<1>2. Max(S) \in S /\ \A e \in S : Max(S) >= e
  BY <1>1 DEF Max
<1>3. Max(S) = epochFile
  <2> HIDE DEF S
  <2> QED BY <1>1, <1>2
<1> QED BY <1>3 DEF nextEpoch

\* The Boolean part of TypeOK, which the provers want apart from the rest.
BoolOK == up \in BOOLEAN /\ logErr \in BOOLEAN /\ failed \in BOOLEAN /\ closed \in BOOLEAN

\* An empty directory satisfies the inductive invariant.
LEMMA InitIInv == Init => IInv
<1> SUFFICES ASSUME Init PROVE IInv OBVIOUS
<1> USE DEF Init, Running
<1>0. BoolOK BY Zenon DEF BoolOK
<1>1. TypeOK BY <1>0 DEF TypeOK, Phases, BoolOK
<1>2. EpochInv BY DEF EpochInv
<1>3. PhaseInv BY DEF PhaseInv
<1>4. PartInv BY PartsAssumption DEF PartInv
<1>5. QueueInv BY DEF QueueInv
<1>6. FileInv BY DEF FileInv
<1>7. OrderInv BY DEF OrderInv
<1> QED BY <1>1, <1>2, <1>3, <1>4, <1>5, <1>6, <1>7 DEF IInv

\* Begin, with the epoch file it writes and the decision log it opens.
LEMMA BeginIInv == ASSUME IInv, NEW g \in Groups, Begin(g) PROVE IInv'
<1> USE DEF IInv, Running
<1>0. nextEpoch = epochFile + 1 BY NextEpoch
<1>a. BoolOK' BY Zenon DEF Begin, startEpoch, TypeOK, BoolOK
<1>b. CASE log = "nil" /\ startEpoch
  <2> USE <1>0, <1>a, <1>b DEF Begin, startEpoch
  <2>1. TypeOK' BY DEF TypeOK, Phases, BoolOK
  <2>2. EpochInv' BY DEF TypeOK, EpochInv, PhaseInv
  <2>3. PhaseInv' BY DEF TypeOK, EpochInv, PhaseInv
  <2>4. PartInv' BY DEF TypeOK, PartInv
  <2>5. QueueInv' BY DEF TypeOK, QueueInv, EpochInv
  <2>6. FileInv' BY DEF TypeOK, FileInv, EpochInv
  <2>7. OrderInv' BY DEF TypeOK, OrderInv, EpochInv, PhaseInv
  <2> QED BY <2>1, <2>2, <2>3, <2>4, <2>5, <2>6, <2>7
<1>c. CASE log = "open" /\ UNCHANGED <<diskVars, epoch, log, queue, logErr, committed, failed>>
  <2> USE <1>0, <1>a, <1>c DEF Begin, diskVars
  <2>1. TypeOK' BY DEF TypeOK, Phases, BoolOK
  <2>2. EpochInv' BY DEF TypeOK, EpochInv, PhaseInv
  <2>3. PhaseInv' BY DEF TypeOK, EpochInv, PhaseInv
  <2>4. PartInv' BY DEF TypeOK, PartInv
  <2>5. QueueInv' BY DEF TypeOK, QueueInv, EpochInv
  <2>6. FileInv' BY DEF TypeOK, FileInv, EpochInv
  <2>7. OrderInv' BY DEF TypeOK, OrderInv, EpochInv, PhaseInv
  <2> QED BY <2>1, <2>2, <2>3, <2>4, <2>5, <2>6, <2>7
<1> QED BY <1>b, <1>c DEF Begin

\* A group that stops before its decision is queued, because a part or a group it waits
\* for failed, or the decision log refused it.
LEMMA GiveUpIInv == ASSUME IInv, NEW g \in Groups, GiveUp(g) PROVE IInv'
<1> USE DEF IInv, Running
<1>0. nextEpoch = epochFile + 1 BY NextEpoch
<1>a. \/ UNCHANGED <<epochFile, live>>
      \/ log = "nil" /\ epochFile' = epochFile + 1 /\ UNCHANGED live
      \/ log = "nil" /\ epochFile' = epochFile + 1 /\ live' = live \cup {epochFile + 1}
  BY <1>0 DEF GiveUp
<1>b. /\ up /\ phase[g] = "idle" /\ phase' = [phase EXCEPT ![g] = "abandoned"]
      /\ UNCHANGED <<dead, decided, up, coordVars, gepoch, preds, enqueued, added, ondisk>>
  BY DEF GiveUp
<1>c. /\ epochFile' \in Nat /\ live' \subseteq Nat
      /\ epochFile <= epochFile' /\ live \subseteq live'
      /\ \A e \in live' : 0 < e /\ e <= epochFile'
  <2>0. /\ epochFile \in Nat /\ live \subseteq Nat
        /\ \A e \in live : 0 < e /\ e <= epochFile
    BY DEF TypeOK, EpochInv
  <2>1. CASE UNCHANGED <<epochFile, live>> BY <2>0, <2>1
  <2>2. CASE epochFile' = epochFile + 1 /\ UNCHANGED live BY <2>0, <2>2
  <2>3. CASE epochFile' = epochFile + 1 /\ live' = live \cup {epochFile + 1} BY <2>0, <2>3
  <2> QED BY <1>a, <2>1, <2>2, <2>3
<1> USE <1>b DEF coordVars
<1>1. TypeOK' BY <1>c DEF TypeOK, Phases
<1>2. EpochInv' BY <1>a, <1>c DEF TypeOK, EpochInv
<1> USE <1>a
<1>3. PhaseInv' BY DEF TypeOK, EpochInv, PhaseInv
<1>4. PartInv' BY DEF TypeOK, PartInv
<1>5. QueueInv' BY DEF TypeOK, QueueInv
<1>6. FileInv' BY DEF TypeOK, FileInv, EpochInv, PhaseInv
<1>7. OrderInv' BY DEF TypeOK, OrderInv
<1> QED BY <1>1, <1>2, <1>3, <1>4, <1>5, <1>6, <1>7

-----------------------------------------------------------------------------
(* The four ways a group ends share finished and the seal it may lead to.  *)

\* Group g leaves the running groups for the final phase end.
Ends(g, end) ==
  /\ up /\ phase[g] \in Running \ {"queued"}
  /\ end \in {"abandoned", "failed", "committed"}
  /\ end = "abandoned" => phase[g] = "begun" /\ added[g] = {}
  /\ end = "committed" => phase[g] = "acked"
  /\ inflight' = inflight \ {g}
  /\ committed' = IF end = "committed" THEN committed \cup {g} ELSE committed
  /\ phase' = [phase EXCEPT ![g] = end]
  /\ enqueued' \in [Groups -> {"no", "ok", "err"}]
  /\ \A h \in Groups : enqueued'[h] = "ok" => enqueued[h] = "ok"
  /\ \A h \in Groups \ {g} : enqueued'[h] = enqueued[h]
  /\ UNCHANGED <<epochFile, dead, up, epoch, queue, logErr, closed, gepoch, preds, added, ondisk>>

\* What Abandon, Finish and Fail share: the group leaves the epoch, which is sealed by its
\* last group if the coordinator closed or a group of it failed.
LEMMA EndsIInv ==
  ASSUME IInv, NEW g \in Groups, NEW end, Ends(g, end), failed' \in BOOLEAN,
         \/ (~failed' => ~failed /\ end # "failed") /\ UNCHANGED <<log, live, decided>>
         \/ inflight' = {} /\ ~failed /\ end # "failed" /\ log = "open" /\ sealLocked
  PROVE  IInv'
<1> USE DEF IInv, Running, Ends
<1>1. TypeOK' BY Zenon DEF TypeOK, Phases, sealLocked
<1>2. EpochInv' BY Zenon DEF TypeOK, EpochInv, sealLocked
<1>3. PhaseInv' BY DEF TypeOK, EpochInv, PhaseInv, sealLocked
<1>4. PartInv' BY DEF TypeOK, PartInv, sealLocked
<1>5. QueueInv'
  <2>1. \A h \in Groups : phase[h] = "queued" => h # g /\ phase'[h] = "queued" /\ h \in inflight'
    BY DEF TypeOK, PhaseInv
  <2>2. sealLocked /\ inflight' = {} => queue = <<>>
    BY SMTT(30), <2>1 DEF TypeOK, QueueInv
  <2>3. \A h \in Groups : phase'[h] # phase[h] => h = g
    BY DEF TypeOK
  <2>4. decided' \subseteq decided BY DEF sealLocked
  <2>5. \A i \in 1..Len(queue) : queue[i] \in Groups BY DEF TypeOK
  <2>6. CASE UNCHANGED <<log, live, decided>>
    BY <2>1, <2>3, <2>5, <2>6 DEF TypeOK, QueueInv, PhaseInv
  <2>7. CASE sealLocked /\ inflight' = {}
    BY <2>1, <2>2, <2>3, <2>4, <2>7 DEF TypeOK, QueueInv, PhaseInv, sealLocked
  <2> QED BY <2>6, <2>7
<1>6. FileInv' BY DEF TypeOK, FileInv, EpochInv, PhaseInv, QueueInv, sealLocked
<1>7. OrderInv'
  <2>1. CASE UNCHANGED <<log, live, decided>>
    BY <2>1 DEF TypeOK, OrderInv
  <2>2. CASE sealLocked /\ inflight' = {}
    BY <2>2, <1>5 DEF TypeOK, OrderInv, sealLocked, QueueInv
  <2> QED BY <2>1, <2>2
<1> QED BY <1>1, <1>2, <1>3, <1>4, <1>5, <1>6, <1>7

\* Abandon, of a group that published nothing.
LEMMA AbandonIInv == ASSUME IInv, NEW g \in Groups, Abandon(g) PROVE IInv'
<1>1. Ends(g, "abandoned")
  BY DEF IInv, TypeOK, Abandon, finished, Ends, Running, closeEnqueued
<1>2. failed' \in BOOLEAN
  BY Zenon DEF IInv, TypeOK, Abandon, finished, sealLocked
<1>3. \/ (~failed' => ~failed) /\ UNCHANGED <<log, live, decided>>
      \/ inflight' = {} /\ ~failed /\ log = "open" /\ sealLocked
  BY Zenon DEF Abandon, finished
<1> QED BY <1>1, <1>2, <1>3, EndsIInv

\* Fail, of a group that has published parts: its epoch can no longer be sealed.
LEMMA FailIInv == ASSUME IInv, NEW g \in Groups, Fail(g) PROVE IInv'
<1>0. gepoch[g] = epoch BY DEF IInv, PhaseInv, Fail, Running
<1>1. Ends(g, "failed")
  BY <1>0 DEF IInv, TypeOK, Fail, finished, Ends, Running, closeEnqueued
<1>2. failed' \in BOOLEAN
  BY Zenon DEF IInv, TypeOK, Fail, finished, sealLocked
<1>3. failed' /\ UNCHANGED <<log, live, decided>>
  BY Zenon DEF Fail, finished
<1> QED BY <1>1, <1>2, <1>3, EndsIInv

\* Finish after the decision record is durable.
LEMMA FinishCommittedIInv == ASSUME IInv, NEW g \in Groups, FinishCommitted(g) PROVE IInv'
<1>0. gepoch[g] = epoch BY DEF IInv, PhaseInv, FinishCommitted, Running
<1>1. Ends(g, "committed")
  BY <1>0 DEF IInv, TypeOK, FinishCommitted, finished, Ends, Running, closeEnqueued
<1>2. failed' \in BOOLEAN
  BY Zenon DEF IInv, TypeOK, FinishCommitted, finished, sealLocked
<1>3. \/ (~failed' => ~failed) /\ UNCHANGED <<log, live, decided>>
      \/ inflight' = {} /\ ~failed /\ log = "open" /\ sealLocked
  BY Zenon DEF FinishCommitted, finished
<1> QED BY <1>1, <1>2, <1>3, EndsIInv

\* Finish after the decision log reported an error.
LEMMA FinishFailedIInv == ASSUME IInv, NEW g \in Groups, FinishFailed(g) PROVE IInv'
<1>0. gepoch[g] = epoch BY DEF IInv, PhaseInv, FinishFailed, Running
<1>1. Ends(g, "failed")
  BY <1>0 DEF IInv, TypeOK, FinishFailed, finished, Ends, Running, closeEnqueued
<1>2. failed' \in BOOLEAN
  BY Zenon DEF IInv, TypeOK, FinishFailed, finished, sealLocked
<1>3. failed' /\ UNCHANGED <<log, live, decided>>
  BY Zenon DEF FinishFailed, finished
<1> QED BY <1>1, <1>2, <1>3, EndsIInv

-----------------------------------------------------------------------------
(* Publishing and deciding.                                                *)

\* AddPart, in whichever order the namespaces publish.
LEMMA AddPartIInv ==
  ASSUME IInv, NEW g \in Groups, NEW ns \in Parts[g], NEW b \in SUBSET Groups, AddPart(g, ns, b)
  PROVE  IInv'
<1> USE PartsAssumption DEF IInv, Running, AddPart, recordPart, diskVars, coordVars
<1>1. TypeOK' BY Zenon DEF TypeOK, Phases
<1>2. EpochInv' BY DEF TypeOK, EpochInv
<1>3. PhaseInv' BY Zenon DEF TypeOK, PhaseInv
<1>4. PartInv' BY DEF TypeOK, PartInv
<1>5. QueueInv' BY DEF TypeOK, QueueInv
<1>6. FileInv' BY DEF TypeOK, FileInv
<1>7. OrderInv'
  <2>1. g \notin decided /\ gepoch[g] # 0 /\ \A i \in 1..Len(queue) : queue[i] # g
    BY Zenon DEF TypeOK, QueueInv, PhaseInv
  <2>2. /\ \A h \in Groups \ {g} : preds'[h] = preds[h]
        /\ preds'[g] = preds[g] \cup b /\ \A h \in b : gepoch[h] = gepoch[g]
    BY DEF TypeOK
  <2>3. \A h \in Groups : phase'[h] \in {"idle", "begun", "published"} =>
                         phase[h] \in {"idle", "begun", "published"}
    BY DEF TypeOK
  <2>4. \A i \in 1..Len(queue) : queue[i] \in Groups BY DEF TypeOK
  <2>5. UNCHANGED <<queue, decided, gepoch, epoch, log, logErr, enqueued>> OBVIOUS
  <2> QED BY <2>1, <2>2, <2>3, <2>4, <2>5 DEF OrderInv
<1> QED BY <1>1, <1>2, <1>3, <1>4, <1>5, <1>6, <1>7

\* A namespace's log writer makes queued parts durable.
LEMMA PartsOnDiskIInv ==
  ASSUME IInv, NEW ns \in Namespaces, NEW batch \in SUBSET Groups, PartsOnDisk(ns, batch)
  PROVE  IInv'
<1> USE DEF IInv, PartsOnDisk, diskVars, coordVars, groupVars
<1>1. TypeOK' BY DEF TypeOK
<1>2. EpochInv' BY DEF EpochInv
<1>3. PhaseInv' BY DEF PhaseInv
<1>4. PartInv' BY PartsAssumption DEF TypeOK, PartInv
<1>5. QueueInv' BY DEF QueueInv
<1>6. FileInv' BY DEF FileInv
<1>7. OrderInv' BY DEF OrderInv
<1> QED BY <1>1, <1>2, <1>3, <1>4, <1>5, <1>6, <1>7

\* Decide, which queues the record behind those of the groups it follows.
LEMMA DecideIInv == ASSUME IInv, NEW g \in Groups, Decide(g) PROVE IInv'
<1> USE DEF IInv, Running, Decide, queueDecision, decideAccepts, closeEnqueued, diskVars
<1>0. /\ Len(queue') = Len(queue) + 1 /\ Len(queue) \in Nat
      /\ \A i \in 1..Len(queue) : queue'[i] = queue[i]
      /\ queue'[Len(queue) + 1] = g
  BY DEF TypeOK
<1>1. TypeOK' BY DEF TypeOK, Phases
<1>2. EpochInv' BY DEF TypeOK, EpochInv
<1>3. PhaseInv' BY Zenon DEF TypeOK, PhaseInv
<1>4. PartInv' BY DEF TypeOK, PartInv
<1>5. QueueInv' BY <1>0 DEF TypeOK, QueueInv
<1>6. FileInv' BY DEF TypeOK, FileInv
<1>7. OrderInv' BY <1>0 DEF TypeOK, OrderInv, PhaseInv
<1> QED BY <1>1, <1>2, <1>3, <1>4, <1>5, <1>6, <1>7

\* What is left of the queue once its first k entries are gone.
LEMMA Dequeued ==
  ASSUME IInv, NEW k \in 1..Len(queue), Dequeue(k)
  PROVE  /\ queue' \in Seq(Groups) /\ Len(queue) \in Nat /\ Len(queue') = Len(queue) - k
         /\ \A i \in 1..Len(queue') : i + k \in 1..Len(queue) /\ queue'[i] = queue[i + k]
         /\ First(k) \subseteq Groups
         /\ \A g \in First(k) : phase[g] = "queued"
         /\ \A g \in Groups : phase[g] = "queued" /\ g \notin First(k) =>
                                \E i \in 1..Len(queue') : queue'[i] = g
         /\ \A i \in 1..Len(queue') : queue'[i] \notin First(k)
<1> USE DEF Dequeue
<1>0. queue \in Seq(Groups) /\ Len(queue) \in Nat BY DEF IInv, TypeOK
<1>1. queue' \in Seq(Groups) /\ Len(queue') = Len(queue) - k BY <1>0
<1>2. \A i \in 1..Len(queue') : i + k \in 1..Len(queue) /\ queue'[i] = queue[i + k] BY <1>0, <1>1
<1>3. First(k) \subseteq Groups /\ \A g \in First(k) : phase[g] = "queued"
  <2>1. \A i \in 1..k : i \in 1..Len(queue) BY <1>0
  <2> QED BY <1>0, <2>1 DEF First, IInv, QueueInv
<1>4. ASSUME NEW g \in Groups, phase[g] = "queued", g \notin First(k)
      PROVE  \E i \in 1..Len(queue') : queue'[i] = g
  <2>1. PICK j \in 1..Len(queue) : queue[j] = g BY <1>4 DEF IInv, QueueInv
  <2>2. j > k BY <1>0, <1>4, <2>1 DEF First
  <2>3. j - k \in 1..Len(queue') /\ queue'[j - k] = g BY <1>0, <1>1, <1>2, <2>1, <2>2
  <2> QED BY Zenon, <2>3
<1>5. \A i \in 1..Len(queue') : queue'[i] \notin First(k)
  BY <1>0, <1>1, <1>2 DEF First, IInv, QueueInv
<1> QED BY <1>0, <1>1, <1>2, <1>3, <1>4, <1>5

\* The log writer answers the first k queued groups, with the records of the first n of
\* them on disk; the three outcomes of a batch are instances.
LEMMA BatchIInv ==
  ASSUME IInv, NEW k \in 1..Len(queue), NEW n \in 0..k, NEW answer \in {"acked", "nacked"},
         up, log = "open", Dequeue(k), phase' = Answered(k, answer),
         decided' = decided \cup First(n),
         n > 0 => ~logErr, logErr => logErr', ~logErr' => n = k, logErr' \in BOOLEAN,
         answer = "acked" => n = k,
         UNCHANGED <<epochFile, live, dead, up, epoch, log, committed, inflight, failed,
                     closed, gepoch, preds, enqueued, added, ondisk>>
  PROVE  IInv'
<1> USE DEF IInv, Running
<1>a. /\ queue \in Seq(Groups) /\ Len(queue) \in Nat /\ k \in Nat /\ n \in Nat /\ n <= k
      /\ queue' \in Seq(Groups) /\ Len(queue') = Len(queue) - k /\ Len(queue') \in Nat
      /\ \A i \in 1..Len(queue') : i + k \in 1..Len(queue) /\ queue'[i] = queue[i + k]
  BY Dequeued DEF TypeOK
<1>b. /\ First(k) \subseteq Groups /\ First(n) \subseteq First(k)
      /\ \A g \in First(k) : phase[g] = "queued"
      /\ \A g \in Groups : phase[g] = "queued" /\ g \notin First(k) =>
                             \E i \in 1..Len(queue') : queue'[i] = g
      /\ \A i \in 1..Len(queue') : queue'[i] \notin First(k) /\ queue'[i] \in Groups
  <2>1. First(n) \subseteq First(k)
    <3>1. \A i \in 1..n : i \in 1..k BY <1>a
    <3> QED BY <3>1 DEF First
  <2>2. \A i \in 1..Len(queue') : queue'[i] \in Groups BY <1>a
  <2> QED BY <2>1, <2>2, Dequeued
<1>c. \A g \in Groups : phase'[g] = IF g \in First(k) THEN answer ELSE phase[g]
  BY DEF Answered
<1>1. TypeOK' BY <1>a, <1>b DEF TypeOK, Phases, Answered
<1>2. EpochInv' BY DEF TypeOK, EpochInv
<1>3. PhaseInv' BY <1>b, <1>c DEF TypeOK, PhaseInv
<1>4. PartInv' BY <1>b, <1>c DEF TypeOK, PartInv
<1>5. QueueInv'
  <2>1. ASSUME NEW i \in 1..Len(queue') PROVE phase'[queue'[i]] = "queued"
    <3>1. i + k \in 1..Len(queue) /\ queue'[i] = queue[i + k] BY Zenon, <1>a
    <3>2. phase[queue[i + k]] = "queued" BY <3>1 DEF QueueInv
    <3> QED BY Zenon, <1>b, <1>c, <3>1, <3>2
  <2>2. ASSUME NEW i \in 1..Len(queue'), NEW j \in 1..Len(queue'), queue'[i] = queue'[j] PROVE i = j
    <3>1. /\ i + k \in 1..Len(queue) /\ queue'[i] = queue[i + k]
          /\ j + k \in 1..Len(queue) /\ queue'[j] = queue[j + k]
      BY <1>a
    <3>2. \A x, y \in 1..Len(queue) : queue[x] = queue[y] => x = y BY DEF QueueInv
    <3>3. i + k = j + k BY ONLY <2>2, <3>1, <3>2, Zenon
    <3> QED BY <1>a, <3>3
  <2> QED BY <1>b, <1>c, <2>1, <2>2 DEF TypeOK, QueueInv
<1>6. FileInv' BY <1>b, <1>c DEF TypeOK, FileInv
<1>7. OrderInv'
  <2>1. ASSUME NEW j \in 1..Len(queue)
        PROVE  \/ j \in 1..k /\ queue[j] \in First(k)
               \/ j > k /\ j - k \in 1..Len(queue') /\ queue'[j - k] = queue[j]
    <3>1. CASE j <= k
      <4>1. j \in 1..k BY <1>a, <3>1
      <4> QED BY <4>1 DEF First
    <3>2. CASE j > k
      <4>1. j - k \in 1..Len(queue') /\ (j - k) + k = j BY <1>a, <3>2
      <4>2. queue'[j - k] = queue[(j - k) + k] BY ONLY <1>a, <4>1, Zenon
      <4> QED BY <3>2, <4>1, <4>2
    <3> QED BY <1>a, <3>1, <3>2
  <2>2. ASSUME NEW g \in First(n), NEW p \in preds[g] PROVE p \in decided'
    <3>1. PICK i \in 1..n : queue[i] = g BY DEF First
    <3>2. i \in 1..Len(queue) /\ ~logErr BY <1>a, <3>1
    <3>3. p \in decided \/ \E j \in 1..(i - 1) : queue[j] = p BY <3>1, <3>2 DEF OrderInv
    <3>4. \A j \in 1..(i - 1) : j \in 1..n BY <1>a, <3>1
    <3> QED BY <3>3, <3>4 DEF First
  <2>3. ASSUME ~logErr', NEW i \in 1..Len(queue'), NEW p \in preds[queue'[i]]
        PROVE  p \in decided' \/ \E j \in 1..(i - 1) : queue'[j] = p
    <3>1. \/ p \in decided
          \/ \E j \in 1..(i + k - 1) : queue[j] = p
      BY <1>a, <2>3 DEF OrderInv
    <3>2. CASE \E j \in 1..(i + k - 1) : queue[j] = p
      <4>1. PICK j \in 1..(i + k - 1) : queue[j] = p BY <3>2
      <4>2. CASE j <= k
        <5>1. j \in 1..n BY <1>a, <2>3, <4>1, <4>2
        <5> QED BY <4>1, <5>1 DEF First
      <4>3. CASE j > k
        <5>1. j \in 1..Len(queue) /\ j - k \in 1..(i - 1) BY <1>a, <4>1, <4>3
        <5>2. queue'[j - k] = p BY <1>a, <2>1, <4>1, <4>3, <5>1
        <5> QED BY <5>1, <5>2
      <4> QED BY <1>a, <4>1, <4>2, <4>3
    <3> QED BY <3>1, <3>2
  <2>4. ASSUME NEW p \in Groups, log = "open", ~logErr', gepoch[p] = epoch, enqueued[p] = "ok"
        PROVE  p \in decided' \/ \E j \in 1..Len(queue') : queue'[j] = p
    <3>1. ~logErr /\ n = k BY <2>4
    <3>2. p \in decided \/ \E j \in 1..Len(queue) : queue[j] = p BY <2>4, <3>1 DEF OrderInv
    <3> QED BY <2>1, <3>1, <3>2
  <2>5. \A g \in Groups : phase'[g] \in {"idle", "begun", "published"} => phase'[g] = phase[g]
    BY <1>c
  <2> QED BY <2>2, <2>3, <2>4, <2>5 DEF OrderInv
<1> QED BY <1>1, <1>2, <1>3, <1>4, <1>5, <1>6, <1>7

\* The decision log makes a batch of records durable.
LEMMA WriteDecisionsIInv == ASSUME IInv, NEW k \in 1..Len(queue), WriteDecisions(k) PROVE IInv'
<1>1. k \in 0..k BY DEF IInv, TypeOK
<1> QED BY <1>1, BatchIInv DEF WriteDecisions, IInv, TypeOK

\* The decision log fails part of the way through a batch.
LEMMA FailDecisionsIInv ==
  ASSUME IInv, NEW k \in 1..Len(queue), NEW j \in 0..k, FailDecisions(k, j) PROVE IInv'
<1>1. logErr' \in BOOLEAN BY Zenon DEF FailDecisions
<1> QED BY <1>1, BatchIInv DEF FailDecisions

\* The decision log refuses a batch after an earlier failure.
LEMMA RefuseDecisionsIInv == ASSUME IInv, NEW k \in 1..Len(queue), RefuseDecisions(k) PROVE IInv'
<1>1. 0 \in 0..k /\ First(0) = {} BY DEF IInv, TypeOK, First
<1>2. decided' = decided \cup First(0) BY <1>1 DEF RefuseDecisions, diskVars
<1>3. /\ up /\ log = "open" /\ Dequeue(k) /\ phase' = Answered(k, "nacked") /\ logErr /\ logErr'
      /\ UNCHANGED <<epochFile, live, dead, up, epoch, log, committed, inflight, failed,
                     closed, gepoch, preds, enqueued, added, ondisk>>
  BY DEF RefuseDecisions, diskVars
<1>4. logErr' \in BOOLEAN BY DEF RefuseDecisions, IInv, TypeOK
<1> QED BY <1>1, <1>2, <1>3, <1>4, BatchIInv

-----------------------------------------------------------------------------
(* Closing, crashing, opening.                                             *)

\* Close seals an idle epoch.
LEMMA CloseIInv == ASSUME IInv, Close PROVE IInv'
<1> USE DEF IInv, Running, Close, groupVars
<1>0. closed' \in BOOLEAN /\ failed' \in BOOLEAN BY Zenon DEF TypeOK, sealLocked
<1>1. TypeOK' BY <1>0 DEF TypeOK, sealLocked
<1>2. EpochInv' BY DEF TypeOK, EpochInv, sealLocked
<1>3. PhaseInv' BY DEF TypeOK, EpochInv, PhaseInv, sealLocked
<1>4. PartInv' BY DEF TypeOK, PartInv, sealLocked
<1>5. QueueInv' BY DEF TypeOK, QueueInv, PhaseInv, sealLocked
<1>6. FileInv' BY DEF TypeOK, FileInv, EpochInv, PhaseInv, sealLocked
<1>7. OrderInv' BY DEF TypeOK, OrderInv, sealLocked
<1> QED BY <1>1, <1>2, <1>3, <1>4, <1>5, <1>6, <1>7

\* The process ends anywhere, with any prefix of the queued records on disk.
LEMMA CrashIInv == ASSUME IInv, Crash PROVE IInv'
<1> USE DEF IInv, Running, Crash, processEnds
<1>0. up' \in BOOLEAN /\ logErr' \in BOOLEAN /\ failed' \in BOOLEAN /\ closed' \in BOOLEAN BY Zenon
<1>a. PICK k \in Nat : /\ k <= Len(queue) /\ (k > 0 => ~logErr)
                      /\ decided' = decided \cup First(k)
  <2>1. Len(queue) \in Nat BY DEF TypeOK
  <2>2. CASE log = "open" /\ ~logErr
    <3>1. \E k \in 0..Len(queue) : decided' = decided \cup First(k) BY <2>2
    <3> QED BY <2>1, <2>2, <3>1
  <2>3. CASE ~(log = "open" /\ ~logErr)
    <3>1. decided' = decided \cup First(0) BY <2>3
    <3> QED BY <2>1, <3>1
  <2> QED BY <2>2, <2>3
<1>b. \A g \in First(k) : phase[g] = "queued" /\ g \in Groups
  <2>1. \A i \in 1..k : i \in 1..Len(queue) BY <1>a DEF TypeOK
  <2> QED BY <2>1 DEF First, TypeOK, QueueInv
<1>1. TypeOK' BY <1>0 DEF TypeOK, Phases, First
<1>2. EpochInv' BY DEF TypeOK, EpochInv
<1>3. PhaseInv' BY SMTT(30) DEF TypeOK, PhaseInv
<1>4. PartInv'
  <2>1. \A g \in Groups : ondisk[g] \subseteq ondisk'[g] /\ ondisk'[g] \subseteq added[g] /\ added'[g] = ondisk'[g]
    OBVIOUS
  <2>2. \A g \in Groups : added[g] \subseteq Parts[g] BY DEF PartInv
  <2> QED BY Zenon, <1>a, <1>b, <2>1, <2>2 DEF TypeOK, PartInv
<1>5. QueueInv' BY <1>a, <1>b DEF TypeOK, QueueInv
<1>6. FileInv' BY DEF TypeOK, FileInv, PhaseInv
<1>7. OrderInv'
  <2>1. ASSUME NEW g \in First(k), NEW p \in preds[g] PROVE p \in decided'
    <3>1. PICK i \in 1..k : queue[i] = g BY DEF First
    <3>2. i \in 1..Len(queue) /\ ~logErr BY <1>a, <3>1 DEF TypeOK
    <3>3. p \in decided \/ \E j \in 1..(i - 1) : queue[j] = p BY <3>1, <3>2 DEF OrderInv
    <3>4. \A j \in 1..(i - 1) : j \in 1..k BY <1>a, <3>1
    <3> QED BY <1>a, <3>3, <3>4 DEF First
  <2>2. \A g \in Groups : phase'[g] \in {"idle", "begun", "published"} => phase'[g] = phase[g]
    BY DEF TypeOK
  <2> QED BY <1>a, <2>1, <2>2 DEF TypeOK, OrderInv
<1> QED BY <1>1, <1>2, <1>3, <1>4, <1>5, <1>6, <1>7

\* The next process reads what the last one left.
LEMMA OpenIInv == ASSUME IInv, Open PROVE IInv'
<1> USE DEF IInv, Running, Open, coordVars, groupVars
<1>0. up' \in BOOLEAN BY Zenon
<1>1. TypeOK' BY <1>0 DEF TypeOK
<1>2. EpochInv' BY Zenon DEF TypeOK, EpochInv
<1>3. PhaseInv' BY DEF TypeOK, PhaseInv
<1>4. PartInv' BY DEF TypeOK, PartInv
<1>5. QueueInv' BY DEF TypeOK, QueueInv
<1>6. FileInv' BY DEF TypeOK, FileInv, EpochInv
<1>7. OrderInv' BY DEF TypeOK, OrderInv
<1> QED BY <1>1, <1>2, <1>3, <1>4, <1>5, <1>6, <1>7

-----------------------------------------------------------------------------
(* The theorems.                                                           *)

\* A step that changes nothing.
LEMMA StutterIInv == ASSUME IInv, UNCHANGED cvars PROVE IInv'
<1> USE DEF IInv, cvars, diskVars, coordVars, groupVars
<1>1. TypeOK' BY DEF TypeOK
<1>2. EpochInv' BY DEF EpochInv
<1>3. PhaseInv' BY DEF PhaseInv
<1>4. PartInv' BY DEF PartInv
<1>5. QueueInv' BY DEF QueueInv
<1>6. FileInv' BY DEF FileInv
<1>7. OrderInv' BY SMTT(30) DEF OrderInv
<1> QED BY <1>1, <1>2, <1>3, <1>4, <1>5, <1>6, <1>7

\* Every step of the coordinator, its log and its host preserves the inductive invariant.
LEMMA NextIInv == ASSUME IInv, [Next]_cvars PROVE IInv'
<1>1. CASE \E g \in Groups : Begin(g) BY <1>1, BeginIInv
<1>2. CASE \E g \in Groups : GiveUp(g) BY <1>2, GiveUpIInv
<1>3. CASE \E g \in Groups : Abandon(g) BY <1>3, AbandonIInv
<1>4. CASE \E g \in Groups : Fail(g) BY <1>4, FailIInv
<1>5. CASE \E g \in Groups : Decide(g) BY <1>5, DecideIInv
<1>6. CASE \E g \in Groups : FinishCommitted(g) BY <1>6, FinishCommittedIInv
<1>7. CASE \E g \in Groups : FinishFailed(g) BY <1>7, FinishFailedIInv
<1>8. CASE \E g \in Groups : \E ns \in Parts[g], b \in SUBSET Groups : AddPart(g, ns, b)
  BY <1>8, AddPartIInv
<1>9. CASE \E ns \in Namespaces, batch \in SUBSET Groups : PartsOnDisk(ns, batch)
  BY <1>9, PartsOnDiskIInv
<1>10. CASE \E k \in 1..Len(queue) : WriteDecisions(k) BY <1>10, WriteDecisionsIInv
<1>11. CASE \E k \in 1..Len(queue) : RefuseDecisions(k) BY <1>11, RefuseDecisionsIInv
<1>12. CASE \E k \in 1..Len(queue) : \E j \in 0..k : FailDecisions(k, j)
  BY <1>12, FailDecisionsIInv
<1>13. CASE Close BY <1>13, CloseIInv
<1>14. CASE Crash BY <1>14, CrashIInv
<1>15. CASE Open BY <1>15, OpenIInv
<1>16. CASE UNCHANGED cvars BY <1>16, StutterIInv
<1> QED BY Zenon, <1>1, <1>2, <1>3, <1>4, <1>5, <1>6, <1>7, <1>8, <1>9, <1>10, <1>11, <1>12,
           <1>13, <1>14, <1>15, <1>16 DEF Next

\* Whatever the interleaving of groups, log writers, faults of the decision log, crashes
\* and restarts, the coordinator stays within its inductive invariant.
THEOREM Invariance == Spec => []IInv
<1>1. Init => IInv BY InitIInv
<1>2. IInv /\ [Next]_cvars => IInv' BY NextIInv
<1> QED BY <1>1, <1>2, PTL DEF Spec

\* Type correctness of the coordinator's state.
THEOREM TypeCorrect == Spec => []TypeOK
<1>1. IInv => TypeOK BY DEF IInv
<1> QED BY <1>1, Invariance, PTL

\* A cross-namespace transaction that recovery keeps is kept in every namespace it wrote
\* to (Finish: every part on disk, then the decision, then the seal).
THEOREM Atomicity == Spec => []RecoveryIsAtomic
<1>1. IInv => RecoveryIsAtomic
  BY DEF IInv, TypeOK, EpochInv, PhaseInv, PartInv, FileInv, RecoveryIsAtomic, DiskCommitted, Phases, Running
<1> QED BY <1>1, Invariance, PTL

\* A transaction whose Finish returned nil is committed, whole, for every later process.
THEOREM Durability == Spec => []AckedGroupsSurvive
<1>1. IInv => AckedGroupsSurvive
  BY DEF IInv, PartInv, FileInv, AckedGroupsSurvive, DiskCommitted
<1> QED BY <1>1, Invariance, PTL

\* Recovery never keeps a transaction and rolls back one it was appended behind.
THEOREM Ordering == Spec => []KeptGroupsRestOnKeptGroups
<1>1. IInv => KeptGroupsRestOnKeptGroups
  BY DEF IInv, TypeOK, OrderInv, KeptGroupsRestOnKeptGroups, DiskCommitted
<1> QED BY <1>1, Invariance, PTL

\* startEpochLocked never gives a new epoch a number that some group's marker carries.
THEOREM FreshEpochs == Spec => EpochsAreNeverReused
<1>1. ASSUME IInv, [Next]_cvars
      PROVE  [epoch' # epoch /\ epoch' # 0 => \A g \in Groups : gepoch[g] # epoch']_cvars
  <2>1. SUFFICES ASSUME Next, epoch' # epoch, epoch' # 0
                 PROVE  \A g \in Groups : gepoch[g] # epoch'
    BY SMTT(30), <1>1
  <2>2. PICK g \in Groups : Begin(g) /\ startEpoch
    BY <2>1 DEF Next, Begin, GiveUp, Abandon, Fail, Decide, queueDecision, FinishCommitted, FinishFailed, finished,
                AddPart, recordPart, PartsOnDisk, WriteDecisions, RefuseDecisions, FailDecisions, Close, Crash, processEnds,
                Open, coordVars
  <2>3. epoch' = epochFile + 1 BY <1>1, <2>2, NextEpoch DEF IInv, startEpoch
  <2> QED BY <1>1, <2>3 DEF IInv, TypeOK, EpochInv
<1> QED BY <1>1, Invariance, PTL DEF Spec, EpochsAreNeverReused

-----------------------------------------------------------------------------
(* Stable answers.                                                         *)

\* A record on disk belongs to a group that is not reported as failed, unless its
\* decision was queued, and the groups a crash interrupted are of an earlier epoch
\* than the present one.
StableInv ==
  \A g \in Groups :
    /\ phase[g] \in {"queued", "nacked"} => enqueued[g] = "ok"
    /\ g \in decided => \/ phase[g] \in {"acked", "nacked", "committed", "lost"}
                        \/ phase[g] = "failed" /\ enqueued[g] = "ok"
    /\ phase[g] = "lost" => gepoch[g] # epoch

\* The groups a batch of the decision log answers are the ones waiting for it.
LEMMA BatchIsQueued ==
  ASSUME QueueInv, NEW k \in 1..Len(queue)
  PROVE  \A g \in First(k) : phase[g] = "queued"
<1>1. \A i \in 1..k : i \in 1..Len(queue) OBVIOUS
<1> QED BY <1>1 DEF First, QueueInv

\* A batch cut short by a crash or a failed write is a part of the batch.
LEMMA ShorterBatch ==
  ASSUME NEW k \in Nat, NEW j \in 0..k
  PROVE  First(j) \subseteq First(k)
<1>1. \A i \in 1..j : i \in 1..k OBVIOUS
<1> QED BY <1>1 DEF First

\* Every step preserves StableInv: a failure is reported for a group with a record only
\* by the decision log's own answer.
LEMMA NextStableInv ==
  ASSUME IInv, IInv', StableInv, [Next]_cvars
  PROVE  StableInv'
<1> USE DEF StableInv
<1>0. TypeOK /\ EpochInv /\ PhaseInv /\ QueueInv /\ OrderInv BY Zenon DEF IInv
<1>1. ASSUME NEW g \in Groups, Begin(g) PROVE StableInv'
  <2>1. nextEpoch = epochFile + 1 BY <1>0, NextEpoch
  <2> QED BY <1>0, <1>1, <2>1 DEF Begin, startEpoch, diskVars, TypeOK, EpochInv
<1>2. ASSUME NEW g \in Groups, GiveUp(g) PROVE StableInv'
  BY <1>0, <1>2 DEF GiveUp, coordVars, TypeOK
<1>3. ASSUME NEW g \in Groups, Abandon(g) \/ Fail(g) \/ FinishCommitted(g) \/ FinishFailed(g)
      PROVE  StableInv'
  <2>1. decided' \subseteq decided /\ UNCHANGED <<gepoch, epoch>>
    BY Zenon, <1>3 DEF Abandon, Fail, FinishCommitted, FinishFailed, finished, sealLocked
  <2>2. \/ phase[g] = "begun" /\ phase' = [phase EXCEPT ![g] = "abandoned"]
        \/ phase[g] \in {"begun", "published"} /\ phase' = [phase EXCEPT ![g] = "failed"]
        \/ phase[g] = "acked" /\ phase' = [phase EXCEPT ![g] = "committed"] /\ UNCHANGED enqueued
        \/ phase[g] = "nacked" /\ phase' = [phase EXCEPT ![g] = "failed"] /\ UNCHANGED enqueued
    BY Zenon, <1>3 DEF Abandon, Fail, FinishCommitted, FinishFailed
  <2>3. \A h \in Groups \ {g} : enqueued'[h] = enqueued[h]
    BY Zenon, <1>0, <1>3 DEF Abandon, Fail, FinishCommitted, FinishFailed, closeEnqueued, TypeOK
  <2> QED BY <1>0, <2>1, <2>2, <2>3 DEF TypeOK
<1>4. ASSUME NEW g \in Groups, Decide(g) PROVE StableInv'
  <2>1. /\ phase' = [phase EXCEPT ![g] = "queued"] /\ phase[g] = "published"
        /\ UNCHANGED <<decided, gepoch, epoch>>
    BY Zenon, <1>4 DEF Decide, queueDecision, diskVars
  <2>2. enqueued' = [enqueued EXCEPT ![g] = "ok"]
    BY Zenon, <1>0, <1>4 DEF Decide, queueDecision, closeEnqueued, OrderInv
  <2> QED BY <1>0, <2>1, <2>2 DEF TypeOK
<1>5. ASSUME NEW g \in Groups, NEW ns, NEW b, AddPart(g, ns, b) PROVE StableInv'
  <2>1. /\ phase[g] = "begun"
        /\ \/ phase' = [phase EXCEPT ![g] = "published"]
           \/ phase' = [phase EXCEPT ![g] = "begun"]
        /\ UNCHANGED <<decided, gepoch, epoch, enqueued>>
    BY Zenon, <1>5 DEF AddPart, recordPart, diskVars, coordVars
  <2> QED BY <1>0, <2>1 DEF TypeOK
<1>6. ASSUME NEW ns, NEW batch, PartsOnDisk(ns, batch) PROVE StableInv'
  BY Zenon, <1>6 DEF PartsOnDisk, diskVars, coordVars, groupVars
<1>7. ASSUME NEW k \in 1..Len(queue), WriteDecisions(k) PROVE StableInv'
  <2>1. /\ phase' = Answered(k, "acked") /\ UNCHANGED <<gepoch, epoch, enqueued>>
        /\ decided' = decided \cup First(k)
    BY SMTT(30), <1>7 DEF WriteDecisions
  <2>2. \A g \in Groups : phase'[g] = IF g \in First(k) THEN "acked" ELSE phase[g]
    BY <2>1 DEF Answered
  <2> QED BY <2>1, <2>2
<1>8. ASSUME NEW k \in 1..Len(queue), RefuseDecisions(k) \/ \E j \in 0..k : FailDecisions(k, j)
      PROVE  StableInv'
  <2>1. /\ phase' = Answered(k, "nacked") /\ UNCHANGED <<gepoch, epoch, enqueued>>
        /\ decided' \subseteq decided \cup First(k)
    <3>1. CASE RefuseDecisions(k) BY ONLY Zenon, <3>1 DEF RefuseDecisions, diskVars
    <3>2. ASSUME NEW j \in 0..k, FailDecisions(k, j)
          PROVE  /\ phase' = Answered(k, "nacked") /\ UNCHANGED <<gepoch, epoch, enqueued>>
                 /\ decided' \subseteq decided \cup First(k)
      <4>1. First(j) \subseteq First(k) BY <1>8, ShorterBatch
      <4>2. /\ phase' = Answered(k, "nacked") /\ UNCHANGED <<gepoch, epoch, enqueued>>
            /\ decided' = decided \cup First(j)
        BY ONLY Zenon, <3>2 DEF FailDecisions
      <4> QED BY ONLY Zenon, <4>1, <4>2
    <3> QED BY ONLY Zenon, <1>8, <3>1, <3>2
  <2>2. \A g \in First(k) : phase[g] = "queued"
    BY Zenon, <1>0, <1>8, BatchIsQueued
  <2>3. \A g \in Groups : phase'[g] = IF g \in First(k) THEN "nacked" ELSE phase[g]
    BY <2>1 DEF Answered
  <2> QED BY SMTT(30), <2>1, <2>2, <2>3
<1>9. CASE Close
  BY <1>9 DEF Close, sealLocked, groupVars
<1>10. CASE Crash
  <2>1. \A g \in Groups : g \in decided' => g \in decided \/ phase[g] = "queued"
    BY <1>0, <1>10 DEF Crash, processEnds, First, QueueInv, TypeOK
  <2>2. \A g \in Groups : phase[g] \in Running => gepoch[g] # 0
    BY <1>0 DEF PhaseInv, Running
  <2>3. \A g \in Groups : phase[g] = "lost" => gepoch[g] # 0 BY ONLY <1>0 DEF PhaseInv
  <2>4. /\ epoch' = 0 /\ gepoch' = gepoch /\ enqueued' = enqueued
        /\ \A g \in Groups : phase'[g] = IF phase[g] \in Running THEN "lost" ELSE phase[g]
    BY Zenon, <1>10 DEF Crash, processEnds
  <2> QED BY <2>1, <2>2, <2>3, <2>4 DEF Running
<1>11. CASE Open BY <1>11 DEF Open, coordVars, groupVars
<1>12. CASE UNCHANGED cvars BY <1>12 DEF cvars, diskVars, coordVars, groupVars
<1> QED BY Zenon, <1>1, <1>2, <1>3, <1>4, <1>5, <1>6, <1>7, <1>8, <1>9, <1>10, <1>11, <1>12 DEF Next

\* A namespace reopened by the running writer is told of each part what every later
\* process will be told, unless the decision log failed on that part's group.
THEOREM StableAnswers == Spec => []AnswersAreStable
<1>1. Init => StableInv BY DEF Init, StableInv
<1>2. IInv /\ IInv' /\ StableInv /\ [Next]_cvars => StableInv' BY NextStableInv
<1>3. ASSUME IInv, StableInv PROVE AnswersAreStable
  <2>1. SUFFICES ASSUME NEW g \in Groups, up, gepoch[g] # 0, log = "open", gepoch[g] = epoch,
                        ~(phase[g] = "failed" /\ enqueued[g] = "ok")
                 PROVE  /\ g \in committed => DiskCommitted(g)
                        /\ g \notin committed /\ g \notin inflight => ~DiskCommitted(g)
    BY DEF AnswersAreStable, resolvePart
  <2>2. epoch \in live BY <1>3, <2>1 DEF IInv, EpochInv
  <2>3. g \in committed => g \in decided BY <1>3, <2>1, <2>2 DEF IInv, QueueInv, FileInv
  <2>4. g \in decided /\ g \notin inflight => g \in committed
    BY <1>3, <2>1 DEF IInv, StableInv, PhaseInv, QueueInv, Running
  <2> QED BY <2>1, <2>2, <2>3, <2>4 DEF DiskCommitted
<1> QED BY <1>1, <1>2, <1>3, Invariance, PTL DEF Spec
=============================================================================
