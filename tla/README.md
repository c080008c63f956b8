# A TLA+ verification of KDB

KDB is an embedded and networked document database. This directory holds TLA+ models of the
parts of its Go implementation (`src/go/kdb`) in which several goroutines, processes or crash
points meet, TLC configurations that check them on small instances, and TLAPS proofs of the
properties that matter most, for every value of the constants. `PROJECT.json` maps every
definition to the lines it models and lists the components, the hazards, the runs, the mutants
that show each property can fail, and the theorems.

## The system and its parts

A *namespace* is a set of documents with a history of its own: a graph of commits whose head is
the current state. One process (a *host*) opens many namespaces.

| part | state | operations that change it | what makes it hard |
|---|---|---|---|
| Write gate (`server/write_gate.go`) | one running slot, a bounded queue, a long hold | acquire, refuse, release | gates of several namespaces; a hold that begins while writers queue |
| Transaction engine, commit DAG (`transaction`, `dag`) | graph, heads, merge bases | commit, merge, retain, revert | stale bases, merges, a retried commit id |
| Commit log (`embed/commit_log.go`, `persisting_dag.go`, `delta_replay.go`) | queued commits, a failure latch, the delta segments on disk | enqueue, batch, fsync, fail, replay | batches fail in the middle; acknowledgements wait for what is under them; replay must rebuild the same line |
| Cross-namespace coordinator (`embed/txn_*.go`) | epochs, decision files, groups in flight | begin, add part, decide, fail, abandon, seal, close, recover | a crash between any two files; decisions of groups that share a namespace; sealing an epoch turns absence into "committed" |
| Cross-namespace commit (`embed/group_commit.go`, `server/namespace_set.go`) | gates held, parts applied, fences | lock, prepare, apply, publish, finish; snapshot of several heads | one step of several failing; namespaces closed and reopened under it |
| Checkpoints, truncation, maintenance (`embed/checkpoint*.go`, `truncate.go`, `maintenance_loop.go`) | checkpoint, floor, segments | write checkpoint, delete segments, install snapshot, revert | a crash between them |
| Document leases (`transaction/lock_manager.go`, `server/lock_listen.go`) | locks, fencing tokens, the leases a session remembers | acquire, renew, release, expire, sweep, disconnect, and the check of the writes that make one | checks made before the write waits, or not at all; expiry; a connection that drops in mid-commit |
| Blob WAL (`storage/wal`), storage engine (`storage/engine`, `memtable`, `sstable`) | segments, synced sequence, waiters, tables | append, rotate, sync rounds, put, flush, compact | a sync that races a rotation; rounds that share one fsync; failed flushes |
| Memory admission (`server/admission.go`, `storage/budget_arbiter.go`) | zones, grants, shares | acquire, release, rebalance | limits, starvation |
| Streaming and write-back (`stream`, `server/stream_*.go`, `writeback.go`) | positions, event buffer, pending writes | publish, catch up, submit, resolve | slow consumers, lost answers, merges during catch-up |
| Peer sync and replication (`peersync`, `replication`) | frontiers, pull turns, pending tips | pull, push, ingest, graft, merge | several peers at once, interrupted transfers, convergence |
| Promotion of a recovered copy (`recovery/promote.go`) | intent, payload, live directory | stage, apply, abandon | a crash or a failure between two renames |
| Codec, SQL, indexes, schema, auth, wire formats, control plane, Kotlin and TypeScript code | - | - | pure functions, configuration or I/O; see "Not modelled" |

How they interact: a write frame arrives in a session (leases), is admitted (admission, gate), is
checked and appended to the graph (engine, DAG), is queued on the commit log, and is acknowledged
once it, and every group it rests on, is durable. A write to several namespaces goes through the
coordinator. Document bodies go through the blob WAL. Subscribers and peers are told of the
new head afterwards.

What should be true of each, in a sentence: a cross-namespace transaction survives everywhere or
nowhere, and what was acknowledged survives; the log of a namespace can always be replayed to what
readers saw; gates are released and every caller is answered; a leased document is not written by
others and a stale holder cannot write; a blob is visible only when it is on disk; a checkpoint and
the remaining log together hold everything; a merge loses no side; grants never exceed capacity; a
subscriber's state composes to the head or it is told otherwise; peers that stop writing converge.

## Modules

| module | models |
|---|---|
| `TxnCoordinator` | the coordinator, its decision log, epochs and groups, over an abstract "which parts are on disk". It is also the abstract specification that the next module implements. |
| `CrossNamespaceTxn` | the whole path: write gates, graphs, commit logs with their latch, the acknowledgement barrier, the server's fence, ordinary commits, reopening, crash and replay. It instantiates `TxnCoordinator` with the parts read off the logs. |
| `DocumentLocks` | the lock manager, the lock verbs, sessions, and the seven kinds of write frame, with their lease checks on either side of the write gate or without one. |
| `BlobWal` | `WriteKeyedBlob` under `DurabilitySync`: append with rotation, `SyncTo`, the sync rounds, and the memtable put that makes the blob visible. |
| `TxnCoordinatorProofs`, `DocumentLocksProofs`, `BlobWalProofs` | the theorems. |
| `MCTxnCoordinator`, `MCCrossNamespaceTxn`, `MCDocumentLocks`, `MCBlobWal` | the instances TLC checks. |

### TxnCoordinator

Disk: `epochFile` (txn/EPOCH), `live` and `dead` (decisions-N.log and .dead files), `decided` (groups
with an intact record), `ondisk[g]` (parts of `g` in the commit logs). Memory: the coordinator's
fields under its mutex, and each group's phase, marker epoch, predecessors and `enqueued` channel.
`Begin`, `AddPart`, `Fail`, `Abandon`, `Decide` (which waits for the parts and the predecessors),
`FinishCommitted` and `FinishFailed` are `TxnGroup`'s methods; `WriteDecisions`, `FailDecisions`
and `RefuseDecisions` are the batches of `decisionLog.run`, where a failed write or fsync may have
left any prefix of the batch on disk; `Close`, `Crash` and `Open` are the host's.
`resolvePart` is what a namespace opened by the running process is told about a group, and
`DiskCommitted` is what the next process will conclude from the files alone.

### CrossNamespaceTxn

A commit is the sequence of the transactions that led to it, so that its parent is its front, as a
hash chain is. `Lock` takes the gates one by one in name order (`admitWrite` looked at the fences at some moment
before that, and does not look again); `ApplyPart` applies, publishes and
releases; `ApplyAborts` fails between two namespaces and fences the ones that are ahead of the
disk; `LogBatch` and `LogBatchFails` are the commit log writer's batches; `Write`, `AnswerWrite`
and `WriteUnlogged` are an ordinary commit, whose acknowledgement waits on `barrier`; `Reopen` is
idle close, after which the server's runtime is a new one without a fence, or `ReopenNamespace`, whose
`ReopenWith` keeps the runtime and its fence; `replay` is `delta_replay`'s skipping of parts that did not commit
and of everything on top of them. What the engine checks in Prepare is a choice. `Reopens` says
when a namespace may be closed and reopened: `"settled"`, when no group in it is undecided, is what
delta_replay's comment takes for granted; `"anytime"` is what the code permits. `ApplyFailsOnIndexes` and
`WriteFailsOnIndexes` are in `SpecWithIndexFaults` only.

### DocumentLocks

`locks` and `fences` are the manager's maps, `leases` what a session remembers, `frame` and `pc` the
write frames in flight, `gate` the write gate. Each manager call holds its mutex and is one step. A
commit validates the session's own leases when it is taken up, looks for other sessions' locks,
then queues at the gate; an upsert does the same without a validation; frames that write several
namespaces and immediate updates look at the front of the gate instead; a replayed transaction and a
revert (`Unchecked`) go through the gate and never look. A connection that drops waits for its frames
before it releases.

Writes that are not wire frames take the steps of one that is: a document write of the control plane
(`control/data.go`, `control/docwrite.go`) those of an upsert that names no session; a streaming
client's write-back, an in-process `PutJSON`, conflict resolution, the expiry sweep and the ingest of
a peer's commits those of a replay.

`clampLeaseTTL` compares a request with 0 in milliseconds, multiplies it into a `time.Duration`, and
compares the product with the maximum. The product is an int64: `wrap` reduces it to
`-HalfRange..(HalfRange - 1)`, where `HalfRange` is 2^63 in the code. `fits` in a lease's record is
history, and says whether the client's request was within that range.

The behaviours are those of one `LockManager`. A namespace that is closed as idle and opened again
has a new runtime and with it a new manager (`server_runtime.go`), whose tokens start at 1 again while
a session opened before remembers leases of the old one; that is not modelled, and `TokensAreUnique`
says nothing about it.

### BlobWal

`segmentOf`, `active` and `size` are the segments; `durable` is what the disk holds. `Append` rotates
when the segment is full (create the new one, flush and seal the old one), and `AppendFails` stops at
each point of that. `takeBatch`, `Sync` (which reads the active segment's name), `FlushSegment`,
`settle` and `answer` are the steps of `runRounds`, which holds its mutex only in the first and the
fourth, so that an append can rotate in between. The model begins with a newly created log.

## What the runs show

Passing runs:

| run | instance | what holds |
|---|---|---|
| `coordinator` | 3 groups over 2 namespaces, failing decision log | recovery keeps all parts of a group or none (`RecoveryIsAtomic`), keeps what was acknowledged (`AckedGroupsSurvive`), never keeps a group on top of a rolled-back one (`KeptGroupsRestOnKeptGroups`), tells a reopened namespace what the next process will conclude (`AnswersAreStable`, which excepts a group whose queued decision was reported as failed), never reuses an epoch (`EpochsAreNeverReused`) |
| `cross_namespace` | 2 groups, 1 ordinary commit, aborts, reopening, crashes | recovered heads are atomic and hold every acknowledged commit, the logs replay, what a restart shows is a prefix of what readers saw, and what was rolled back stays out |
| `cross_namespace_log_faults` | 2 groups, failing commit logs | the same atomicity and durability; every behaviour is one of `TxnCoordinator` (`RefinesCoordinator`) |
| `cross_namespace_progress` | 2 groups, 1 ordinary commit, failing decision log | gates are released, groups and commits are answered |
| `document_locks` | 2 sessions, 1 document, 2 writes of any kind, 3 tokens, requests within and beyond the range of a duration | tokens are unique; leases asked for within the range end (`FittingLeasesEnd`); a validated lease is kept while its commit is in flight; a write of a kind that looks for locks lands only on leases granted after it looked; ended sessions hold nothing |
| `blob_wal` | 3 writers, 4 records, segments of 2 | `syncedSeq` never runs ahead of the disk, a visible blob is on disk, the disk is a prefix of the log, waiters are answered |

Runs that exhibit a disagreement between the code and what its comments or docs say (each has an
entry under `findings` with the quotation):

| run | property violated | what happens |
|---|---|---|
| `reopened_mid_group` | `AckedCommitsSurvive` | a namespace closed and reopened by the writer while a group in it is undecided leaves the part out; commits acknowledged after that fork from it and are off the main line after a restart |
| `reopened_after_failed_sync` | `AckedCommitsSurvive` | a decision record that reached the disk though its fsync failed is "aborted" to a namespace reopened in the same process and "committed" to the next one |
| `queued_past_hole` | `LogsReplay` | the commit log writer does not look at its latch: a batch queued before a failed append is written after the hole |
| `index_refusal_unlogged` | `LogsReplay` | the first part of a group lands in the graph, its index stores refuse it, nothing is fenced, and the next commit is logged on a parent the log never received |
| `lease_overwritten` | `LeaseExcludesOthers` | a commit or upsert checks for other sessions' leases before it waits at the gate; a lease granted meanwhile does not stop it |
| `lease_not_consulted` | `LeaseBindsEveryWritePath` | a replayed transaction or a revert never looks for leases, and lands on a document that was leased before the frame arrived |

The passing runs state what does hold next to these: with `Reopens = "settled"` acknowledged commits
survive; a write that was checked never overwrites a lease that was in force at its check.
`FittingLeasesEnd` is conditional because the cap on TTLs, `MaxLeaseTTL`, does not hold for every
request: from 9223372036855 ms on the conversion in `clampLeaseTTL` (`lock_listen.go:107`) overflows, a
product of zero or below is not above the maximum, and the lock manager takes it for "no expiry". Such
a lease ends only when it is released or renewed or its session ends, although `lock_listen.go:18` says "MaxLeaseTTL caps what a client
may ask for". In `document_locks` request 4 is granted so. `LeaseExcludesOthers` is about the frames that look, so that its run shows the
check going stale and not a check that is missing.
`AckedCommitsSurvive` in `cross_namespace` and `cross_namespace_log_faults` is checked without
decision-log failures, because `reopened_after_failed_sync` is the counterexample with them.
`LogsReplay` is checked without commit-log failures for the same reason.

### Bounds

- Two namespaces are enough for a part to be on one side only, and for gates to be taken in a wrong
  order; two groups for a predecessor and a successor; a third, in the coordinator's run, for a
  failure in the middle of a chain, and for a group begun in the epoch after a seal.
- Each group and each write is used once. The number of epochs is bounded by the number of groups, as
  an epoch starts only with a `Begin`. Crashes and restarts are unbounded.
- Two sessions, one document: a lock concerns one document, and the table's entries do not interact.
  Three tokens and three instants let a lease expire, be taken over and come back to its first
  holder. Requested TTLs are 0 (left to the server), one that is granted as asked, one above the
  maximum, and the first that does not fit a duration: with 2 units to a millisecond and a range of
  -8..7, request 4 becomes -8 as 2^63 ns becomes -2^63. The arithmetic is scaled because TLC's own
  integers have 32 bits; the theorems hold for every `Millisecond` and `HalfRange`.
- Three writers with segments of two records: a round is overtaken by a rotation, by an append of a
  third writer and by a waiter that belongs to the next round.
- Groups, and where no liveness is checked sessions, documents, writes and namespaces, are symmetric.
  Runs with a liveness property use no symmetry.
- Deadlock checking is off: clients may have nothing more to ask, and every operation of these models
  is used a bounded number of times. "Nobody waits for ever" is what the liveness properties say.

### Fairness

`CrossNamespaceTxn!Fairness`: weak fairness of each group's goroutine, of each writer's goroutine, of
each namespace's log writer and of the decision log's writer. Go schedules a runnable goroutine, and
each of these has a step of its own enabled until it is done. Nothing is assumed of clients, failures,
crashes, closes or reopening. `BlobWal!FairSpec`: weak fairness of the `runRounds` goroutine only.

## What is proved

TLAPS checks every proof. The assumptions are those named in the modules: groups write to a
non-empty set of namespaces, the server's TTLs are positive with the default at most the maximum,
requests are integers, `Millisecond` and `HalfRange` are positive, bounds are natural numbers. No set has to be finite or small.

`TxnCoordinatorProofs` (`Atomicity`, `Durability`, `Ordering`, `StableAnswers`, `FreshEpochs`,
`TypeCorrect`). None of these is inductive: whether recovery is atomic depends on which files exist,
which depends on what every group of the epoch has done. The inductive invariant adds:
`EpochInv` (no number in use is above the EPOCH file), `PhaseInv` (the groups in flight are those
that run, and run in the present epoch), `PartInv` (how far the parts have come, by phase; a decided
group has all its parts on disk), `QueueInv` (what is queued on the decision log, and what its answers
mean), `FileInv` (an epoch without a file has only groups that committed or never published; this is
what makes deleting the file safe) and `OrderInv` (a record follows those of its predecessors, on disk
and in the queue). One lemma per action; what ends a group is shared by `EndsIInv` and the three
outcomes of a batch by `BatchIInv`.

`DocumentLocksProofs` (`FencesAreUnique`, `LeasesExpire`, `ValidationHolds`, `OverwritesAreLater`,
`DisconnectReleases`, `TypeCorrect`). `LockInv` (a lock is the lease its session remembers, the session
is open, and the deadline is within the maximum if the request fit a duration), `LeaseInv` (a remembered lease is its session's own,
its token was minted, and no two are equal), `FrameInv` (what a frame saw was minted, and only frames
kept in their session's order hold validated leases), `KeptInv` (a lease validated by a frame in flight
is in the table until it expires) and `LaterInv` (another session's lock on a document of a write that
has looked for locks has a later token than the write saw). `ClampedTTL` is the arithmetic: the product
of a request that fits is not changed by `wrap`, so that what the lock manager is asked for is between
1 and the maximum. Replays and reverts are steps of the specification that every theorem covers;
`OverwritesAreLater` claims nothing about what they themselves overwrite.

`BlobWalProofs` (`SyncedMeansDurable`, `VisibleMeansDurable`, `NoHoles`, `TypeCorrect`). `LogInv` says
that segments are ordered like their records and that every segment before the active one is on disk,
because rotation flushes before it moves on; `RoundInv` that the batch's records lie in the named
segment or before it. Together they show why a sync that names a segment and flushes it without the
mutex still covers its batch when an append rotates in between.

Only model-checked: the invariants of `CrossNamespaceTxn`, the refinement `RefinesCoordinator`, and all
liveness (`GatesAreReleased`, `GroupsAreAnswered`, `WritesAreAnswered`, `WaitersAreAnswered`), which is
out of the prover's reach.

## Not modelled

- Within the modelled parts: losing the EPOCH file; the asynchronous commit-log writer; replay from a
  checkpoint; `NamespaceSet.Snapshot`; the gate's queue length, deadlines and long holds, which are one
  nondeterministic refusal; `LockManager.ReleaseLeases` and `AcquireAllForTransaction`, and the blob
  WAL's `Recover` and `Truncate`, which have no caller outside tests; the blob WAL's `AppendBatch`, and
  the branch of its `OpenOrCreate` that takes up the segments of an earlier process with a sequence
  counter of 0; the lock manager of a namespace opened again after an idle close; the control plane's
  revert and restore points, which change the graph without the write gate.
- Hashing, encodings, SQL, index structures, schema rules and authentication: pure functions or I/O
  with no state shared between actors. Their verdicts are choices in the models.
- The HTTP control plane, except that its document writes, which share the lock manager and the write
  gate with the wire, are among the writes of `DocumentLocks`.
- The Kotlin and TypeScript code: the Go server is the one the docs describe.

## Plan

In the order of what they protect:

1. `CommitLog`: the asynchronous writer, forced records and the shared latch; refined by the log of
   `CrossNamespaceTxn`.
2. `CommitDag` and `TransactionEngine`: merge bases against a reference definition over all small
   graphs; conflict detection, preconditions and idempotent commit ids over small histories.
3. `Checkpointing`: checkpoint, floor, body flush, truncation and maintenance with a crash at each
   point; invariant: the checkpoint and the remaining log hold everything an open needs; to be proved.
4. `Snapshots` and `Admission`: the lock-free read of several heads against publishing groups; the gate
   with queue, deadlines and long holds; grants within capacity and no starvation.
5. `MemTable`: freeze, failed flush and the reads in between, composed with `BlobWal`.
6. `Streaming`: catch-up, the reserved terminal slot, timeouts of a submitted transaction, write-back.
7. `PeerSync`: pulls in turns, interrupted transfers, deterministic merges; convergence of two and
   three nodes against an abstract set of commits.
8. `Promotion`: the two renames with a crash or a failure between them.
9. Proofs: the invariants of `CrossNamespaceTxn` and the step simulation of `RefinesCoordinator`;
   the safety invariants of `Checkpointing` and `Snapshots`.
