--------------------------- MODULE TxnCoordinator ---------------------------
(***************************************************************************)
(* The coordinator of cross-namespace transactions (embed.TxnCoordinator), *)
(* its decision log (embed.decisionLog) and the life of a group            *)
(* (embed.TxnGroup), with the namespaces' commit logs reduced to "which    *)
(* parts of which group are queued, and which are on disk".                *)
(*                                                                         *)
(* A group commits when its record is in the decision file of its epoch,   *)
(* or when that file has been deleted: an epoch is sealed by deleting its  *)
(* file, so a missing file says that all of its groups committed.          *)
(***************************************************************************)
EXTENDS Integers, Sequences, FiniteSets, FiniteSetsExt

CONSTANTS
  Groups,            \* the groups that are ever begun (group ids are random, never reused)
  Namespaces,
  Parts,             \* Parts[g]: the namespaces group g writes to
  DecisionsMayFail   \* a write or an fsync of the decision log may fail

ASSUME PartsAssumption == Parts \in [Groups -> (SUBSET Namespaces) \ {{}}]
ASSUME FaultsAssumption == DecisionsMayFail \in BOOLEAN

VARIABLES
  \* On disk.
  epochFile,  \* the number in txn/EPOCH, 0 when there is no such file
  live,       \* epochs with a decisions-<epoch>.log file
  dead,       \* epochs with a decisions-<epoch>.dead file
  decided,    \* groups with an intact record in the file of their epoch
  ondisk,     \* ondisk[g]: namespaces whose commit log on disk holds g's part
  \* The coordinator.
  up,         \* the process is running, with the host open
  epoch,      \* the epoch of this process, 0 before its first group
  log,        \* "open" | "nil": the decision log of that epoch
  queue,      \* groups whose record is queued on it, in order
  logErr,     \* its failure latch
  committed,  \* groups of the epoch decided durably
  inflight,   \* groups begun and not finished
  failed,     \* some group of the epoch failed after publishing
  closed,
  \* The groups.
  phase,      \* where the group is; see Phases
  gepoch,     \* the epoch in its marker, 0 before Begin
  added,      \* added[g]: namespaces whose commit log g's part is queued on or in
  preds,      \* preds[g]: the groups whose decision must be queued before g's
  enqueued    \* "no" | "ok" | "err": the channel enqueued, and earlyErr

diskVars  == <<epochFile, live, dead, decided>>
coordVars == <<epoch, log, queue, logErr, committed, inflight, failed, closed>>
groupVars == <<phase, gepoch, preds, enqueued>>
cvars     == <<diskVars, up, coordVars, groupVars, added, ondisk>>

\* idle: not begun.  begun: Begin returned, parts are being added.  published: all
\* parts are queued and Finish runs.  queued: the decision is queued.  acked and
\* nacked: the decision log answered.  The others are final; "lost" is a group that
\* was in flight when the process died, whose client never hears of it.
Running == {"begun", "published", "queued", "acked", "nacked"}
Phases  == {"idle", "committed", "failed", "abandoned", "lost"} \cup Running

TypeOK ==
  /\ epochFile \in Nat /\ epoch \in Nat
  /\ live \subseteq Nat /\ dead \subseteq Nat
  /\ decided \subseteq Groups /\ committed \subseteq Groups /\ inflight \subseteq Groups
  /\ log \in {"open", "nil"}
  /\ queue \in Seq(Groups)
  /\ up \in BOOLEAN /\ logErr \in BOOLEAN /\ failed \in BOOLEAN /\ closed \in BOOLEAN
  /\ phase \in [Groups -> Phases]
  /\ gepoch \in [Groups -> Nat]
  /\ added \in [Groups -> SUBSET Namespaces]
  /\ ondisk \in [Groups -> SUBSET Namespaces]
  /\ preds \in [Groups -> SUBSET Groups]
  /\ enqueued \in [Groups -> {"no", "ok", "err"}]

Init ==
  /\ epochFile = 0 /\ live = {} /\ dead = {} /\ decided = {}
  /\ ondisk = [g \in Groups |-> {}] /\ added = [g \in Groups |-> {}]
  /\ up = TRUE
  /\ epoch = 0 /\ log = "nil" /\ queue = <<>> /\ logErr = FALSE
  /\ committed = {} /\ inflight = {} /\ failed = FALSE /\ closed = FALSE
  /\ phase = [g \in Groups |-> "idle"]
  /\ gepoch = [g \in Groups |-> 0]
  /\ preds = [g \in Groups |-> {}]
  /\ enqueued = [g \in Groups |-> "no"]

-----------------------------------------------------------------------------
(* What a replay is told about a part of g.                                *)

\* Mutant: files renamed .dead are not read back.
DiskCommittedWithoutDead(g) == gepoch[g] \notin live \/ g \in decided

\* Whether a process that opens the data root now would keep g's parts.
DiskCommitted(g) == gepoch[g] \notin live \cup dead \/ g \in decided

\* Mutant: a group still in flight is taken for one that ended.
resolvePartWithoutInflight(g) ==
  IF log = "open" /\ gepoch[g] = epoch
  THEN IF g \in committed THEN "committed" ELSE "aborted"
  ELSE IF DiskCommitted(g) THEN "committed" ELSE "aborted"

\* What the running writer answers.  "held" is "undecided, skip it for now".
resolvePart(g) ==
  IF log = "open" /\ gepoch[g] = epoch
  THEN CASE g \in committed -> "committed"
         [] g \notin committed /\ g \in inflight -> "held"
         [] OTHER -> "aborted"
  ELSE IF DiskCommitted(g) THEN "committed" ELSE "aborted"

-----------------------------------------------------------------------------
(* Begin.                                                                  *)

\* Mutant: only the files of the directory are looked at, not EPOCH.
nextEpochWithoutEpochFile == Max({epoch} \cup live \cup dead) + 1

nextEpoch == Max({epochFile, epoch} \cup live \cup dead) + 1

startEpoch ==
  /\ epochFile' = nextEpoch
  /\ live' = live \cup {nextEpoch}
  /\ epoch' = nextEpoch
  /\ log' = "open" /\ queue' = <<>> /\ logErr' = FALSE
  /\ committed' = {} /\ failed' = FALSE
  /\ UNCHANGED <<dead, decided>>

Begin(g) ==
  /\ up /\ ~closed /\ phase[g] = "idle"
  /\ \/ log = "nil" /\ startEpoch
     \/ log = "open" /\ UNCHANGED <<diskVars, epoch, log, queue, logErr, committed, failed>>
  /\ phase' = [phase EXCEPT ![g] = "begun"]
  /\ gepoch' = [gepoch EXCEPT ![g] = epoch']
  /\ inflight' = inflight \cup {g}
  /\ UNCHANGED <<up, closed, preds, enqueued, added, ondisk>>

\* A group given up before it has an id and an epoch: a participant's lock was refused,
\* the coordinator is closed, or the epoch could not be started.  In the last case
\* EPOCH may have moved, and a decision file may have been created, all the same.
GiveUp(g) ==
  /\ up /\ phase[g] = "idle"
  /\ \/ UNCHANGED <<epochFile, live>>
     \/ ~closed /\ log = "nil" /\ epochFile' = nextEpoch /\ live' \in {live, live \cup {nextEpoch}}
  /\ phase' = [phase EXCEPT ![g] = "abandoned"]
  /\ UNCHANGED <<dead, decided, up, coordVars, gepoch, preds, enqueued, added, ondisk>>

-----------------------------------------------------------------------------
(* The end of a group: finished, and the seal it may lead to.              *)

\* Mutant: the sealed log is closed and kept.
sealLockedKeepsLog ==
  /\ log' = "closed"
  /\ live' = live \ {epoch}
  /\ decided' = {h \in decided : gepoch[h] # epoch}
  /\ failed' = FALSE

\* sealLocked: the file is deleted, or stays when closing or removing it failed.
sealLocked ==
  /\ log' = "nil"
  /\ \/ /\ live' = live \ {epoch}
        /\ decided' = {h \in decided : gepoch[h] # epoch}
        /\ failed' = FALSE
     \/ UNCHANGED <<live, decided>> /\ failed' \in BOOLEAN

\* Mutant: an epoch in which a group failed is sealed too.
finishedSealsFailed(g, ok, published) ==
  /\ inflight' = inflight \ {g}
  /\ committed' = IF ok /\ gepoch[g] = epoch THEN committed \cup {g} ELSE committed
  /\ \/ failed' = (failed \/ (~ok /\ published)) /\ UNCHANGED <<log, live, decided>>
     \/ inflight' = {} /\ log = "open" /\ sealLocked
  /\ UNCHANGED <<epochFile, dead, up, epoch, queue, logErr, closed>>

\* finished: an epoch with nothing in flight and nothing failed is sealed once its
\* file has passed the threshold, which may be at any group.
finished(g, ok, published) ==
  LET nowFailed == failed \/ (~ok /\ published) IN
  /\ inflight' = inflight \ {g}
  /\ committed' = IF ok /\ gepoch[g] = epoch THEN committed \cup {g} ELSE committed
  /\ \/ failed' = nowFailed /\ UNCHANGED <<log, live, decided>>
     \/ inflight' = {} /\ ~nowFailed /\ log = "open" /\ sealLocked
  /\ UNCHANGED <<epochFile, dead, up, epoch, queue, logErr, closed>>

\* Mutant: a group that fails leaves the channel open.
closeEnqueuedOnSuccess(g, answer) ==
  enqueued' = [enqueued EXCEPT ![g] = IF @ = "no" /\ answer = "ok" THEN answer ELSE @]

closeEnqueued(g, answer) ==
  enqueued' = [enqueued EXCEPT ![g] = IF @ = "no" THEN answer ELSE @]

Abandon(g) ==
  /\ up /\ phase[g] = "begun" /\ added[g] = {}
  /\ closeEnqueued(g, "err")
  /\ finished(g, FALSE, FALSE)
  /\ phase' = [phase EXCEPT ![g] = "abandoned"]
  /\ UNCHANGED <<gepoch, preds, added, ondisk>>

-----------------------------------------------------------------------------
(* Publishing.                                                             *)

\* AddPart: g's part is queued on the commit log of ns, behind the group that was
\* the barrier there, if that one has not committed.
recordPart(g, ns, barrier) ==
  /\ up /\ phase[g] = "begun" /\ ns \in Parts[g] \ added[g]
  /\ added' = [added EXCEPT ![g] = @ \cup {ns}]
  /\ preds' = [preds EXCEPT ![g] = @ \cup barrier]
  /\ phase' = [phase EXCEPT ![g] = IF added'[g] = Parts[g] THEN "published" ELSE @]
  /\ UNCHANGED <<diskVars, up, coordVars, gepoch, enqueued>>

\* Barriers are pointers of the running process, whose epoch cannot end while one of its
\* groups is open or failed: a barrier is a group of the same epoch.
AddPart(g, ns, barrier) ==
  /\ barrier \in SUBSET {p \in Groups \ {g} : /\ gepoch[p] = gepoch[g] /\ ns \in added[p]
                                              /\ phase[p] \in Running \cup {"failed"}}
  /\ Cardinality(barrier) <= 1
  /\ recordPart(g, ns, barrier)
  /\ UNCHANGED ondisk

\* The log writer of ns has synced a batch with the parts of the groups in batch,
\* whatever has become of them.
PartsOnDisk(ns, batch) ==
  /\ up /\ batch # {}
  /\ batch \subseteq {g \in Groups : ns \in added[g] \ ondisk[g]}
  /\ ondisk' = [g \in Groups |-> IF g \in batch THEN ondisk[g] \cup {ns} ELSE ondisk[g]]
  /\ UNCHANGED <<diskVars, up, coordVars, groupVars, added>>

\* Fail, after a part could not be applied or queued; Finish, after a part could not
\* be written, a predecessor failed early, or decide refused.
Fail(g) ==
  /\ up /\ phase[g] \in {"begun", "published"}
  /\ closeEnqueued(g, "err")
  /\ finished(g, FALSE, TRUE)
  /\ phase' = [phase EXCEPT ![g] = "failed"]
  /\ UNCHANGED <<gepoch, preds, added, ondisk>>

-----------------------------------------------------------------------------
(* The decision.                                                           *)

decideAccepts(g) == ~closed /\ log = "open" /\ epoch = gepoch[g] /\ ~logErr

\* Mutant: the predecessors are not waited for.
queueDecisionUnordered(g) ==
  /\ up /\ phase[g] = "published"
  /\ decideAccepts(g)
  /\ queue' = Append(queue, g)
  /\ closeEnqueued(g, "ok")
  /\ phase' = [phase EXCEPT ![g] = "queued"]
  /\ UNCHANGED <<diskVars, up, epoch, log, logErr, committed, inflight, failed, closed,
                 gepoch, preds, added>>

\* Finish, once the parts are waited for: every predecessor's decision is queued, and
\* the decision log takes g's.
queueDecision(g) ==
  /\ up /\ phase[g] = "published"
  /\ \A p \in preds[g] : enqueued[p] = "ok"
  /\ decideAccepts(g)
  /\ queue' = Append(queue, g)
  /\ closeEnqueued(g, "ok")
  /\ phase' = [phase EXCEPT ![g] = "queued"]
  /\ UNCHANGED <<diskVars, up, epoch, log, logErr, committed, inflight, failed, closed,
                 gepoch, preds, added>>

\* Mutant: the decision is queued beside the parts instead of after them.
DecideBeforeParts(g) == queueDecision(g) /\ UNCHANGED ondisk

\* Finish, up to the queued decision: every part is on disk.
Decide(g) == ondisk[g] = Parts[g] /\ queueDecision(g) /\ UNCHANGED ondisk

First(k) == {queue[i] : i \in 1..k}
Answered(k, answer) == [g \in Groups |-> IF g \in First(k) THEN answer ELSE phase[g]]
Dequeue(k) == queue' = SubSeq(queue, k + 1, Len(queue))

\* Mutant: the batch is answered before it is written.
WriteDecisionsAckFirst(k) ==
  /\ up /\ log = "open" /\ ~logErr /\ k \in 1..Len(queue)
  /\ phase' = Answered(k, "acked")
  /\ Dequeue(k)
  /\ UNCHANGED <<epochFile, live, dead, decided, up, epoch, log, logErr, committed, inflight, failed,
                 closed, gepoch, preds, enqueued, added, ondisk>>

\* decisionLog.run: a batch of the first k queued records is written and synced.
WriteDecisions(k) ==
  /\ up /\ log = "open" /\ ~logErr /\ k \in 1..Len(queue)
  /\ decided' = decided \cup First(k)
  /\ phase' = Answered(k, "acked")
  /\ Dequeue(k)
  /\ UNCHANGED <<epochFile, live, dead, up, epoch, log, logErr, committed, inflight, failed,
                 closed, gepoch, preds, enqueued, added, ondisk>>

\* ... or fails, with the first j records readable on disk all the same.
FailDecisions(k, j) ==
  /\ DecisionsMayFail
  /\ up /\ log = "open" /\ ~logErr /\ k \in 1..Len(queue) /\ j \in 0..k
  /\ decided' = decided \cup First(j)
  /\ logErr' = TRUE
  /\ phase' = Answered(k, "nacked")
  /\ Dequeue(k)
  /\ UNCHANGED <<epochFile, live, dead, up, epoch, log, committed, inflight, failed,
                 closed, gepoch, preds, enqueued, added, ondisk>>

\* ... or is refused, because an earlier batch failed.
RefuseDecisions(k) ==
  /\ up /\ log = "open" /\ logErr /\ k \in 1..Len(queue)
  /\ phase' = Answered(k, "nacked")
  /\ Dequeue(k)
  /\ UNCHANGED <<diskVars, up, epoch, log, logErr, committed, inflight, failed, closed,
                 gepoch, preds, enqueued, added, ondisk>>

FinishCommitted(g) ==
  /\ up /\ phase[g] = "acked"
  /\ finished(g, TRUE, TRUE)
  /\ phase' = [phase EXCEPT ![g] = "committed"]
  /\ UNCHANGED <<gepoch, preds, enqueued, added, ondisk>>

FinishFailed(g) ==
  /\ up /\ phase[g] = "nacked"
  /\ finished(g, FALSE, TRUE)
  /\ phase' = [phase EXCEPT ![g] = "failed"]
  /\ UNCHANGED <<gepoch, preds, enqueued, added, ondisk>>

-----------------------------------------------------------------------------
(* The host closing, dying and opening again.                              *)

\* close: sealed when that is safe; otherwise (groups still in flight when the drain
\* timed out, or some failed) the file is left for the next writer to mark dead.
\* Closing the log writes what is queued on it first.
Close ==
  /\ up /\ ~closed /\ queue = <<>>
  /\ closed' = TRUE
  /\ CASE log = "nil" -> UNCHANGED <<log, live, decided, failed>>
       [] log = "open" /\ inflight = {} /\ ~failed -> sealLocked
       [] OTHER -> log' = "nil" /\ UNCHANGED <<live, decided, failed>>
  /\ UNCHANGED <<epochFile, dead, up, epoch, queue, logErr, committed, inflight, groupVars,
                 added, ondisk>>

\* The process ends, and what it had in memory with it.  A prefix of what was queued on
\* the decision log may have reached it.
processEnds ==
  /\ up /\ up' = FALSE
  /\ \E k \in IF log = "open" /\ ~logErr THEN 0..Len(queue) ELSE {0} : decided' = decided \cup First(k)
  /\ phase' = [g \in Groups |-> IF phase[g] \in Running THEN "lost" ELSE phase[g]]
  /\ epoch' = 0 /\ log' = "nil" /\ queue' = <<>> /\ logErr' = FALSE
  /\ committed' = {} /\ inflight' = {} /\ failed' = FALSE /\ closed' = FALSE
  /\ UNCHANGED <<epochFile, live, dead, gepoch, preds, enqueued>>

\* Of the parts queued on the commit logs, any may have reached them.
Crash ==
  /\ ondisk' \in [Groups -> SUBSET Namespaces]
  /\ \A g \in Groups : ondisk[g] \subseteq ondisk'[g] /\ ondisk'[g] \subseteq added[g]
  /\ added' = ondisk'
  /\ processEnds

\* openTxnCoordinator: every .log left behind becomes a .dead.
Open ==
  /\ ~up /\ up' = TRUE
  /\ dead' = dead \cup live /\ live' = {}
  /\ UNCHANGED <<epochFile, decided, coordVars, groupVars, added, ondisk>>

Next ==
  \/ \E g \in Groups : \/ Begin(g) \/ GiveUp(g) \/ Abandon(g) \/ Fail(g) \/ Decide(g)
                       \/ FinishCommitted(g) \/ FinishFailed(g)
                       \/ \E ns \in Parts[g], b \in SUBSET Groups : AddPart(g, ns, b)
  \/ \E ns \in Namespaces, batch \in SUBSET Groups : PartsOnDisk(ns, batch)
  \/ \E k \in 1..Len(queue) : \/ WriteDecisions(k) \/ RefuseDecisions(k)
                              \/ \E j \in 0..k : FailDecisions(k, j)
  \/ Close \/ Crash \/ Open

Spec == Init /\ [][Next]_cvars

-----------------------------------------------------------------------------
(* Properties.                                                             *)

\* All or nothing: whenever the decision state on disk says that a group with a part
\* in some commit log committed, every one of its parts is in its commit log.  This is
\* the order Finish imposes: parts first, decision after, seal when nothing is open.
RecoveryIsAtomic ==
  \A g \in Groups : ondisk[g] # {} /\ DiskCommitted(g) => ondisk[g] = Parts[g]

\* A group whose Finish returned nil is committed for every later process, whatever
\* epochs are sealed, left dead or started after it.
AckedGroupsSurvive ==
  \A g \in Groups : phase[g] = "committed" => DiskCommitted(g) /\ ondisk[g] = Parts[g]

\* A group that recovery keeps never rests on one that recovery rolls back: the
\* decision log is FIFO, and Finish waits for its predecessors' decisions to be queued.
KeptGroupsRestOnKeptGroups ==
  \A g \in Groups : \A p \in preds[g] :
    ondisk[g] # {} /\ DiskCommitted(g) => DiskCommitted(p)

\* What a running writer answers a namespace it reopens (resolvePart) is what the next
\* process will be told: groups it answers "held" for may still go either way, and a
\* group whose queued decision was reported as failed is excepted, since its record may
\* have reached the disk all the same.
AnswersAreStable ==
  \A g \in Groups :
    /\ up /\ gepoch[g] # 0 /\ ondisk[g] # {}
    /\ ~(phase[g] = "failed" /\ enqueued[g] = "ok")
    =>
      /\ resolvePart(g) = "committed" => DiskCommitted(g)
      /\ resolvePart(g) = "aborted" => ~DiskCommitted(g)

\* A new epoch never has the number of an epoch some group carries in its marker:
\* startEpochLocked goes past the EPOCH file, every decision file and its own epoch.
EpochsAreNeverReused ==
  [][epoch' # epoch /\ epoch' # 0 => \A g \in Groups : gepoch[g] # epoch']_cvars
=============================================================================
