------------------------- MODULE CrossNamespaceTxn -------------------------
(***************************************************************************)
(* Cross-namespace transactions end to end: embed.CommitGroup under the    *)
(* namespaces' write gates, ordinary commits beside it, each namespace's   *)
(* commit graph (its head), commit log and failure latch, the barrier that *)
(* makes a commit wait for the group ahead of it, the server's fence,      *)
(* crashes, and the replay that decides what a restart keeps.  The         *)
(* coordinator is TxnCoordinator, whose "parts on disk" are read off the   *)
(* namespaces' logs here.                                                  *)
(*                                                                         *)
(* A commit is the sequence of the transactions that led to it, as its     *)
(* hash chain is: its parent is its front.  Durability is DurabilitySync.  *)
(***************************************************************************)
EXTENDS Integers, Sequences, FiniteSets, SequencesExt

CONSTANTS
  Groups, Namespaces, Parts,             \* as in TxnCoordinator; namespaces are
                                         \* numbers, in the order of their names
  Writes,                                \* ordinary transactions
  WriteNs,                               \* WriteNs[w]: the namespace w commits in
  None,
  DecisionsMayFail,                      \* as in TxnCoordinator
  LogsMayFail,                           \* appending to or syncing a commit log may fail
  Reopens                                \* when a namespace may be closed and opened again
                                         \* under a running host: "never", "settled" (once
                                         \* every group with a part in it is), "anytime"

ASSUME NamespacesAssumption == Namespaces \subseteq Nat /\ IsFiniteSet(Namespaces)
ASSUME WritesAssumption == WriteNs \in [Writes -> Namespaces] /\ Writes \cap Groups = {}
ASSUME NoneAssumption == None \notin Groups
ASSUME ReopensAssumption == Reopens \in {"never", "settled", "anytime"}

VARIABLES
  \* The coordinator and its groups.
  epochFile, live, dead, decided, up, epoch, log, queue, logErr, committed, inflight, failed,
  closed, phase, gepoch, added, preds, enqueued,
  \* The namespaces.
  dlog,      \* dlog[ns]: the commits in the delta log on disk
  pending,   \* pending[ns]: the commits queued on its commit log writer
  latched,   \* latched[ns]: the log's failure latch, or its closed flag
  head,      \* head[ns]: head of the commit graph in memory
  barrier,   \* barrier[ns]: the group later commits chain on, if there is one
  gate,      \* gate[ns]: the group holding the write gate
  fenced,    \* fenced[ns]: the server refuses writes
  \* The transactions.
  partAck,   \* partAck[g][ns]: "wait" | "ok" | "err", what the log answered about the part
  attached,  \* attached[g]: participants whose runtime is still the one g works with
  wphase,    \* the state of an ordinary commit; see WritePhases
  wbarrier   \* the barrier it chained on, if any

cvars  == <<epochFile, live, dead, decided, up, epoch, log, queue, logErr, committed, inflight,
            failed, closed, phase, gepoch, added, preds, enqueued>>
nsVars == <<dlog, pending, latched, head, barrier, gate, fenced>>
txVars == <<partAck, attached, wphase, wbarrier>>
vars   == <<cvars, nsVars, txVars>>

WritePhases == {"idle", "admitted", "queued", "durable", "acked", "failed", "lost"}

Tx(c)     == Last(c)                   \* the transaction a commit records
Parent(c) == Front(c)
Logged(ns) == Range(dlog[ns])

\* Which groups have their part in the log of which namespace: what the coordinator's
\* decisions rest on.
OnDisk == [g \in Groups |-> {ns \in Namespaces : \E c \in Logged(ns) : Tx(c) = g}]

C == INSTANCE TxnCoordinator WITH ondisk <- OnDisk

TypeOK ==
  /\ dlog \in [Namespaces -> Seq(Seq(Groups \cup Writes))]
  /\ pending \in [Namespaces -> Seq(Seq(Groups \cup Writes))]
  /\ head \in [Namespaces -> Seq(Groups \cup Writes)]
  /\ latched \in [Namespaces -> BOOLEAN] /\ fenced \in [Namespaces -> BOOLEAN]
  /\ barrier \in [Namespaces -> SUBSET Groups]
  /\ gate \in [Namespaces -> Groups \cup {None}]
  /\ partAck \in [Groups -> [Namespaces -> {"wait", "ok", "err"}]]
  /\ attached \in [Groups -> SUBSET Namespaces]
  /\ wphase \in [Writes -> WritePhases]
  /\ wbarrier \in [Writes -> SUBSET Groups]

Init ==
  /\ dlog = [ns \in Namespaces |-> <<>>] /\ pending = [ns \in Namespaces |-> <<>>]
  /\ head = [ns \in Namespaces |-> <<>>]
  /\ latched = [ns \in Namespaces |-> FALSE] /\ fenced = [ns \in Namespaces |-> FALSE]
  /\ barrier = [ns \in Namespaces |-> {}] /\ gate = [ns \in Namespaces |-> None]
  /\ partAck = [g \in Groups |-> [ns \in Namespaces |-> "wait"]]
  /\ attached = Parts
  /\ wphase = [w \in Writes |-> "idle"] /\ wbarrier = [w \in Writes |-> {}]
  /\ C!Init

-----------------------------------------------------------------------------
(* Replay.                                                                 *)

\* Mutant: only the part itself is left out, not what was committed on top of it.
skipPartOnly(ns, c, kept) == Tx(c) \in Groups \ kept

\* groupGate.skip: left out are the parts of groups outside kept, and every commit with
\* such a part among the ancestors the log still leads to.
skip(ns, c, kept) ==
  \E n \in 1..Len(c) : /\ c[n] \in Groups \ kept
                       /\ \A m \in n..Len(c) : SubSeq(c, 1, m) \in Logged(ns)

\* replayDeltaNamespaceFrom: in log order, a commit on top of main moves main to it
\* (applyReplayedCommit); a commit elsewhere is stored without being applied.
replay(ns, kept) ==
  FoldLeft(LAMBDA main, c : IF ~skip(ns, c, kept) /\ Parent(c) = main THEN c ELSE main,
           <<>>, dlog[ns])

\* missingParentsError: a commit is neither left out nor on top of a commit of the log.
MissingParents(ns, kept) ==
  LET replayed == {c \in Logged(ns) : ~skip(ns, c, kept)} IN
  \E c \in replayed : Parent(c) \notin replayed \cup {<<>>}

\* What a process started now would recover.
KeptOnDisk == {g \in Groups : C!DiskCommitted(g)}
Recovered(ns) == replay(ns, KeptOnDisk)

\* What the running process is told when it opens a namespace again.
KeptNow == {g \in Groups : C!resolvePart(g) = "committed"}

-----------------------------------------------------------------------------
(* CommitGroup: the gates, in the order of the namespaces' names.          *)

Held(g)   == {ns \in Namespaces : gate[ns] = g}
gatesFree(g) == gate' = [ns \in Namespaces |-> IF gate[ns] = g THEN None ELSE gate[ns]]

\* Mutant: the gates are taken in the order in which the caller names the namespaces.
nextGateAsNamed(g) ==
  LET left == Parts[g] \ Held(g)
  IN  IF g = CHOOSE h \in Groups : TRUE THEN Max(left) ELSE Min(left)

nextGate(g) == Min(Parts[g] \ Held(g))

\* admitWrite looks at the participants' fences once, at some moment before the first
\* gate; a fence that is set while the group waits there does not stop it.  A group
\* that admitWrite refuses gives up.
Lock(g) ==
  /\ up /\ phase[g] = "idle" /\ Held(g) # Parts[g]
  /\ gate[nextGate(g)] = None
  /\ gate' = [gate EXCEPT ![nextGate(g)] = g]
  /\ UNCHANGED <<cvars, dlog, pending, latched, head, barrier, fenced, txVars>>

\* A gate is refused (queue full, deadline, long hold), a participant is fenced, or
\* the coordinator cannot begin.
GiveUp(g) ==
  /\ UNCHANGED <<dlog, pending, latched, head, barrier, fenced, txVars>>
  /\ C!GiveUp(g)
  /\ gatesFree(g)

Begin(g) ==
  /\ Held(g) = Parts[g]
  /\ UNCHANGED <<nsVars, txVars>>
  /\ C!Begin(g)

\* A participant's Prepare refuses, or the first Apply fails before its commit lands.
Abandon(g) ==
  /\ UNCHANGED <<dlog, pending, latched, head, barrier, fenced, txVars>>
  /\ C!Abandon(g)
  /\ gatesFree(g)

-----------------------------------------------------------------------------
(* applyGroup.                                                             *)

nextPart(g) == Min(Parts[g] \ added[g])

appended(ns, tx) == head' = [head EXCEPT ![ns] = Append(@, tx)]

\* The end of a group that published: the logs of its members are latched, the servers
\* of all participants fenced.
fail(g, members) ==
  /\ latched' = [ns \in Namespaces |-> latched[ns] \/ ns \in members \cap attached[g]]
  /\ fenced' = [ns \in Namespaces |-> fenced[ns] \/ ns \in Parts[g] \cap attached[g]]
  /\ gatesFree(g)

\* Mutant: the part is queued before it is in the graph, and so with its parent's contents.
ApplyPartQueuesParent(g) ==
  LET ns == nextPart(g) IN
  /\ phase[g] = "begun" /\ ~latched[ns]
  /\ appended(ns, g)
  /\ pending' = [pending EXCEPT ![ns] = Append(@, <<head[ns]>>)]
  /\ barrier' = [barrier EXCEPT ![ns] = {g}]
  /\ UNCHANGED <<dlog, latched, fenced, txVars>>
  /\ C!recordPart(g, ns, {p \in barrier[ns] : phase[p] # "committed"})
  /\ IF phase'[g] = "published" THEN gatesFree(g) ELSE UNCHANGED gate

\* Apply, then AddPart: persistPart queues the part and makes g the barrier.
ApplyPart(g) ==
  LET ns == nextPart(g) IN
  /\ phase[g] = "begun" /\ ~latched[ns]
  /\ appended(ns, g)
  /\ pending' = [pending EXCEPT ![ns] = Append(@, head'[ns])]
  /\ barrier' = [barrier EXCEPT ![ns] = {g}]
  /\ UNCHANGED <<dlog, latched, fenced, txVars>>
  /\ C!recordPart(g, ns, {p \in barrier[ns] : phase[p] # "committed"})
  /\ IF phase'[g] = "published" THEN gatesFree(g) ELSE UNCHANGED gate

\* AddPart is refused by the log of a namespace whose graph already has the part.
ApplyToLatched(g) ==
  LET ns == nextPart(g) IN
  /\ phase[g] = "begun" /\ latched[ns]
  /\ appended(ns, g)
  /\ fail(g, added[g] \cup {ns})
  /\ UNCHANGED <<dlog, pending, barrier, txVars>>
  /\ C!Fail(g)

\* Apply fails before the commit lands, after other parts were published.
ApplyAborts(g) ==
  /\ phase[g] = "begun" /\ added[g] # {}
  /\ fail(g, added[g])
  /\ UNCHANGED <<dlog, pending, head, barrier, txVars>>
  /\ C!Fail(g)

\* Apply fails after the commit landed in the graph: the index stores refused it.
ApplyFailsOnIndexes(g) ==
  LET ns == nextPart(g) IN
  /\ phase[g] = "begun"
  /\ appended(ns, g)
  /\ UNCHANGED <<dlog, pending, barrier, txVars>>
  /\ IF added[g] = {} THEN C!Abandon(g) /\ gatesFree(g) /\ UNCHANGED <<latched, fenced>>
                      ELSE C!Fail(g) /\ fail(g, added[g])

-----------------------------------------------------------------------------
(* TxnGroup.Finish.                                                        *)

\* Mutant: the answers of the logs are waited for and not looked at.
DecideIgnoresErrors(g) ==
  /\ \A ns \in Parts[g] : partAck[g][ns] # "wait"
  /\ UNCHANGED <<nsVars, txVars>>
  /\ C!queueDecision(g)

Decide(g) ==
  /\ \A ns \in Parts[g] : partAck[g][ns] = "ok"
  /\ UNCHANGED <<nsVars, txVars>>
  /\ C!queueDecision(g)

\* A part did not reach the disk, a group ahead failed early, or decide refuses.
FinishEarly(g) ==
  /\ phase[g] = "published"
  /\ \A ns \in Parts[g] : partAck[g][ns] # "wait"
  /\ \/ \E ns \in Parts[g] : partAck[g][ns] = "err"
     \/ \E p \in preds[g] : enqueued[p] = "err"
     \/ (\A p \in preds[g] : enqueued[p] # "no") /\ ~C!decideAccepts(g)
  /\ fail(g, Parts[g])
  /\ UNCHANGED <<dlog, pending, head, barrier, txVars>>
  /\ C!Fail(g)

FinishCommitted(g) ==
  /\ barrier' = [ns \in Namespaces |-> IF ns \in attached[g] THEN barrier[ns] \ {g} ELSE barrier[ns]]
  /\ UNCHANGED <<dlog, pending, latched, head, gate, fenced, txVars>>
  /\ C!FinishCommitted(g)

FinishFailed(g) ==
  /\ phase[g] = "nacked"
  /\ fail(g, Parts[g])
  /\ UNCHANGED <<dlog, pending, head, barrier, txVars>>
  /\ C!FinishFailed(g)

\* The decision log's writer.
DecisionBatch ==
  /\ UNCHANGED <<nsVars, txVars>>
  /\ \E k \in 1..Len(queue) : \/ C!WriteDecisions(k) \/ C!RefuseDecisions(k)
                              \/ \E j \in 0..k : C!FailDecisions(k, j)

-----------------------------------------------------------------------------
(* Ordinary commits: runTransaction and commitAtGateFront.                 *)

Admit(w) ==
  /\ up /\ wphase[w] = "idle" /\ ~fenced[WriteNs[w]]
  /\ wphase' = [wphase EXCEPT ![w] = "admitted"]
  /\ UNCHANGED <<cvars, nsVars, partAck, attached, wbarrier>>

\* Mutant: the acknowledgement waits for the disk only.
WriteUnchained(w) ==
  LET ns == WriteNs[w] IN
  /\ up /\ wphase[w] = "admitted" /\ gate[ns] = None /\ ~latched[ns]
  /\ appended(ns, w)
  /\ pending' = [pending EXCEPT ![ns] = Append(@, head'[ns])]
  /\ wphase' = [wphase EXCEPT ![w] = "queued"]
  /\ UNCHANGED <<cvars, dlog, latched, barrier, gate, fenced, partAck, attached, wbarrier>>

\* chainOnBarrier: a barrier that has committed is no longer waited for.
Write(w) ==
  LET ns == WriteNs[w] IN
  /\ up /\ wphase[w] = "admitted" /\ gate[ns] = None /\ ~latched[ns]
  /\ appended(ns, w)
  /\ pending' = [pending EXCEPT ![ns] = Append(@, head'[ns])]
  /\ wphase' = [wphase EXCEPT ![w] = "queued"]
  /\ wbarrier' = [wbarrier EXCEPT ![w] = {g \in barrier[ns] : phase[g] # "committed"}]
  /\ UNCHANGED <<cvars, dlog, latched, barrier, gate, fenced, partAck, attached>>

\* The commit lands in the graph and is not queued.
unlogged(w) ==
  /\ up /\ wphase[w] = "admitted" /\ gate[WriteNs[w]] = None
  /\ appended(WriteNs[w], w)
  /\ wphase' = [wphase EXCEPT ![w] = "failed"]
  /\ UNCHANGED <<cvars, dlog, pending, latched, barrier, gate, fenced, partAck, attached, wbarrier>>

\* PersistAsync is refused by the latch, or the index stores refused the commit before that.
WriteUnlogged(w) == latched[WriteNs[w]] /\ unlogged(w)
WriteFailsOnIndexes(w) == unlogged(w)

\* Mutant: only the commit of the barrier wakes the waiter, not its failure.
AnswerWriteOnCommit(w) ==
  /\ up /\ wphase[w] = "durable"
  /\ \A g \in wbarrier[w] : phase[g] = "committed"
  /\ wphase' = [wphase EXCEPT ![w] = "acked"]
  /\ UNCHANGED <<cvars, nsVars, partAck, attached, wbarrier>>

\* The wait returns: the record is on disk and the barrier, if any, is decided.
AnswerWrite(w) ==
  /\ up /\ wphase[w] = "durable"
  /\ \A g \in wbarrier[w] : phase[g] \in {"committed", "failed"}
  /\ wphase' = [wphase EXCEPT ![w] = IF \E g \in wbarrier[w] : phase[g] = "failed"
                                     THEN "failed" ELSE "acked"]
  /\ UNCHANGED <<cvars, nsVars, partAck, attached, wbarrier>>

-----------------------------------------------------------------------------
(* commitLogWriter.run, under DurabilitySync.                              *)

firstPending(ns, k) == {Tx(pending[ns][i]) : i \in 1..k}

\* The first j of the k commits of a batch reach the disk, and all k are answered.
\* The writer never looks at the latch: a batch queued before a failure is appended
\* after it.
batch(ns, k, j, answer) ==
  LET txs == firstPending(ns, k) IN
  /\ up /\ k \in 1..Len(pending[ns]) /\ j \in 0..k
  /\ dlog' = [dlog EXCEPT ![ns] = @ \o SubSeq(pending[ns], 1, j)]
  /\ pending' = [pending EXCEPT ![ns] = SubSeq(@, k + 1, Len(@))]
  /\ partAck' = [g \in Groups |-> IF g \in txs THEN [partAck[g] EXCEPT ![ns] = answer] ELSE partAck[g]]
  /\ wphase' = [w \in Writes |-> IF w \in txs THEN IF answer = "ok" THEN "durable" ELSE "failed"
                                 ELSE wphase[w]]
  /\ UNCHANGED <<cvars, head, barrier, gate, fenced, attached, wbarrier>>

LogBatch(ns, k) == batch(ns, k, k, "ok") /\ UNCHANGED latched

LogBatchFails(ns, k, j) ==
  /\ LogsMayFail
  /\ latched' = [latched EXCEPT ![ns] = TRUE]
  /\ batch(ns, k, j, "err")

-----------------------------------------------------------------------------
(* Namespaces reopened, the host closed, the process ended and started.    *)

\* Mutant: the namespace is replayed while its log still has commits to write.
ReopenUndrained(ns) ==
  /\ up /\ ~closed /\ gate[ns] = None
  /\ \A g \in Groups : phase[g] = "idle" /\ Held(g) # {} => ns \notin Parts[g]
  /\ \A w \in Writes : wphase[w] = "admitted" => WriteNs[w] # ns
  /\ Reopens = "settled" => \A g \in inflight : ns \notin added[g]
  /\ head' = [head EXCEPT ![ns] = replay(ns, KeptNow)]
  /\ latched' = [latched EXCEPT ![ns] = FALSE] /\ fenced' = [fenced EXCEPT ![ns] = FALSE]
  /\ barrier' = [barrier EXCEPT ![ns] = {}]
  /\ UNCHANGED <<cvars, dlog, pending, gate, partAck, attached, wphase, wbarrier>>

\* CloseIdle and a later open, or ReopenNamespace: the write gate is quiet, the log is
\* drained, and the namespace is replayed by the running writer.  A group that is past
\* the gates keeps working with the runtime it began with.  After an idle close the
\* server's runtime is a new one, without a fence; ReopenWith keeps the runtime, and
\* the fence with it.
Reopen(ns) ==
  /\ up /\ ~closed /\ gate[ns] = None /\ pending[ns] = <<>>
  /\ \A g \in Groups : phase[g] = "idle" /\ Held(g) # {} => ns \notin Parts[g]
  /\ \A w \in Writes : wphase[w] = "admitted" => WriteNs[w] # ns
  /\ Reopens # "never"
  /\ Reopens = "settled" => \A g \in inflight : ns \notin added[g]
  /\ ~MissingParents(ns, KeptNow)
  /\ head' = [head EXCEPT ![ns] = replay(ns, KeptNow)]
  /\ latched' = [latched EXCEPT ![ns] = FALSE]
  /\ fenced' \in {fenced, [fenced EXCEPT ![ns] = FALSE]}
  /\ barrier' = [barrier EXCEPT ![ns] = {}]
  /\ attached' = [g \in Groups |-> IF ns \in added[g] THEN attached[g] \ {ns} ELSE attached[g]]
  /\ UNCHANGED <<cvars, dlog, pending, gate, partAck, wphase, wbarrier>>

\* Host.Close: every namespace drains its log and closes, then the coordinator.
CloseHost ==
  /\ \A ns \in Namespaces : gate[ns] = None /\ pending[ns] = <<>>
  /\ latched' = [ns \in Namespaces |-> TRUE]
  /\ UNCHANGED <<dlog, pending, head, barrier, gate, fenced, txVars>>
  /\ C!Close

\* Of what is queued on each log, any prefix may have reached the disk.
Crash ==
  /\ up
  /\ \E n \in [Namespaces -> 0..Max({Len(pending[ns]) : ns \in Namespaces})] :
       /\ \A ns \in Namespaces : n[ns] <= Len(pending[ns])
       /\ dlog' = [ns \in Namespaces |-> dlog[ns] \o SubSeq(pending[ns], 1, n[ns])]
  /\ pending' = [ns \in Namespaces |-> <<>>] /\ head' = [ns \in Namespaces |-> <<>>]
  /\ latched' = [ns \in Namespaces |-> FALSE] /\ fenced' = [ns \in Namespaces |-> FALSE]
  /\ barrier' = [ns \in Namespaces |-> {}] /\ gate' = [ns \in Namespaces |-> None]
  /\ wphase' = [w \in Writes |-> IF wphase[w] \in {"admitted", "queued", "durable"} THEN "lost" ELSE wphase[w]]
  /\ added' = [g \in Groups |-> {ns \in added[g] : \E c \in Range(dlog'[ns]) : Tx(c) = g}]
  /\ UNCHANGED <<partAck, attached, wbarrier>>
  /\ C!processEnds

Open ==
  /\ \A ns \in Namespaces : ~MissingParents(ns, KeptOnDisk)
  /\ head' = [ns \in Namespaces |-> Recovered(ns)]
  /\ UNCHANGED <<dlog, pending, latched, barrier, gate, fenced, txVars>>
  /\ C!Open

GroupStep(g) == \/ Lock(g) \/ Begin(g) \/ ApplyPart(g) \/ ApplyToLatched(g)
                \/ Decide(g) \/ FinishEarly(g) \/ FinishCommitted(g) \/ FinishFailed(g)
WriteStep(w) == Write(w) \/ AnswerWrite(w)
LogStep(ns)  == \E k \in 1..Len(pending[ns]) : LogBatch(ns, k)

Next ==
  \/ \E g \in Groups : \/ GroupStep(g)
                       \/ GiveUp(g) \/ Abandon(g) \/ ApplyAborts(g)
  \/ \E w \in Writes : WriteStep(w) \/ Admit(w) \/ WriteUnlogged(w)
  \/ \E ns \in Namespaces : \/ LogStep(ns) \/ Reopen(ns)
                            \/ \E k \in 1..Len(pending[ns]) : \E j \in 0..k : LogBatchFails(ns, k, j)
  \/ DecisionBatch \/ CloseHost \/ Crash \/ Open

Spec == Init /\ [][Next]_vars

\* The same system with index stores that may refuse a commit that has landed.
IndexRefusal == \/ \E g \in Groups : ApplyFailsOnIndexes(g)
                \/ \E w \in Writes : WriteFailsOnIndexes(w)
SpecWithIndexFaults == Init /\ [][Next \/ IndexRefusal]_vars

\* Every goroutine that can take a step of its own eventually does; a group that finds the
\* coordinator closed gives up.
Fairness ==
  /\ \A g \in Groups : WF_vars(GroupStep(g) \/ (closed /\ GiveUp(g)))
  /\ \A w \in Writes : WF_vars(WriteStep(w) \/ WriteUnlogged(w))
  /\ \A ns \in Namespaces : WF_vars(LogStep(ns))
  /\ WF_vars(DecisionBatch)
FairSpec == Spec /\ Fairness

-----------------------------------------------------------------------------
(* Properties.                                                             *)

\* A restart shows a cross-namespace transaction in all of the namespaces it wrote to,
\* or in none of them.
RecoveredHeadsAreAtomic ==
  \A g \in Groups : \A ns1, ns2 \in Parts[g] :
    g \in Range(Recovered(ns1)) <=> g \in Range(Recovered(ns2))

\* A commit whose client was told it is durable is on the main line after a restart,
\* whether it was ordinary or cross-namespace: chainOnBarrier keeps an acknowledgement
\* back until nothing the commit descends from can be rolled back.
AckedCommitsSurvive ==
  /\ \A w \in Writes : wphase[w] = "acked" => w \in Range(Recovered(WriteNs[w]))
  /\ \A g \in Groups : phase[g] = "committed" => \A ns \in Parts[g] : g \in Range(Recovered(ns))

\* The log of a namespace can always be replayed: no commit in it that is not left out
\* follows on one the log does not hold.
LogsReplay == \A ns \in Namespaces : ~MissingParents(ns, KeptOnDisk)

\* What a crash would leave of a namespace that takes writes is a prefix of what its
\* readers see now: recovery loses the newest commits or nothing.
MemoryExtendsDisk ==
  \A ns \in Namespaces : up /\ ~latched[ns] => IsPrefix(Recovered(ns), head[ns])

\* A transaction that ended without being acknowledged and that a restart would leave
\* out stays out, however the process crashes, restarts and goes on.
RolledBackStaysOut ==
  [][\A ns \in Namespaces :
       \A x \in Groups \cup Writes :
         /\ (IF x \in Groups THEN phase[x] ELSE wphase[x]) \in {"failed", "lost"}
         /\ \A i \in 1..Len(pending[ns]) : Tx(pending[ns][i]) # x
         /\ x \notin Range(Recovered(ns))
         => x \notin Range(Recovered(ns)')]_vars

\* The coordinator inside this system behaves as TxnCoordinator says.
RefinesCoordinator == C!Spec

\* Gates are taken in one order, and nothing waits for a decision under a gate: a group
\* that holds a gate lets go of it, and a group or commit in flight is answered.
GatesAreReleased == \A g \in Groups : Held(g) # {} ~> Held(g) = {}
GroupsAreAnswered == \A g \in Groups : phase[g] \in C!Running ~> phase[g] \notin C!Running
WritesAreAnswered ==
  \A w \in Writes : wphase[w] = "admitted" ~> wphase[w] \in {"acked", "failed", "lost"}
=============================================================================
