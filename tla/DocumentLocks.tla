--------------------------- MODULE DocumentLocks ---------------------------
(***************************************************************************)
(* Document leases and the writes they are meant to exclude.               *)
(*                                                                         *)
(* transaction.LockManager hands a session an exclusive, expiring, fenced  *)
(* lease on a document.  server/lock_listen.go serves the three lock verbs *)
(* of the wire protocol from it, the session (server/session_manager.go)   *)
(* remembers the leases it was granted.  Of the frames that write, some    *)
(* consult the manager before queueing at the write gate, some at its      *)
(* front, and some never.                                                  *)
(*                                                                         *)
(* One namespace is modelled: a lock is keyed by (namespace, document) and *)
(* each namespace has a manager of its own, so namespaces do not interact. *)
(* The behaviours are those of one LockManager: closing an idle namespace  *)
(* and opening it again makes a new runtime with a new manager, whose      *)
(* tokens start at 1 again, and that is not modelled.                      *)
(* Every call of LockManager holds its mutex from end to end and is one    *)
(* step.  Each session is on a connection of its own.                      *)
(***************************************************************************)
EXTENDS Integers, FiniteSets

CONSTANTS
  Sessions,         \* session ids
  Docs,             \* document ids
  Writes,           \* the write frames that arrive, each served once
  None,             \* no lock, no lease, an idle gate
  NoSession,        \* the session id of a frame that names none
  Requests,         \* the TTLs clients ask for, in ms; 0 leaves it to the server
  Millisecond,      \* time.Millisecond: the clock's units in a millisecond
  HalfRange,        \* 2^63: a time.Duration is in -HalfRange..(HalfRange - 1)
  DefaultLeaseTTL, MaxLeaseTTL,
  MaxTime,          \* bound: the last instant of the clock
  MaxFence          \* bound: the last token minted for a document

ASSUME LeaseAssumption ==
  /\ None \notin Writes
  /\ NoSession \notin Sessions
  /\ Requests \subseteq Int
  /\ Millisecond \in Nat \ {0}
  /\ HalfRange \in Nat \ {0}
  /\ DefaultLeaseTTL \in Nat \ {0}
  /\ MaxLeaseTTL \in Nat \ {0}
  /\ DefaultLeaseTTL <= MaxLeaseTTL
  /\ MaxTime \in Nat
  /\ MaxFence \in Nat

VARIABLES
  now,       \* the clock
  locks,     \* LockManager.locks: document -> record or None
  fences,    \* LockManager.fences: document -> last token minted
  leases,    \* KdbSession.leases: session -> document -> record or None
  open,      \* the sessions whose connection is up
  pc,        \* write -> where its frame is
  frame,     \* write -> its kind, session, documents and lease check
  gate       \* the write holding the write gate, or None

lockvars == <<locks, fences>>
writevars == <<pc, frame, gate>>
vars == <<now, locks, fences, leases, open, pc, frame, gate>>

\* The frames that write: a session's commit, the same with writes in other
\* namespaces, a multi-namespace commit, an upsert, an immediate UPDATE or INSERT,
\* the replay of a client's transactions, and a revert.
Kinds == {"commit", "commitAcross", "multi", "upsert", "immediate", "replay", "revert"}

\* Frames that never look for a lock.  A streaming client's write-back is a replay.
Unchecked == {"replay", "revert"}

\* Frames kept in arrival order with the other frames of their session.
Ordered == {"commit", "commitAcross", "immediate"}

\* Frames that validate the session's own leases before anything else.
Validating == {"commit", "commitAcross"}

\* Frames that look for other sessions' locks before they queue at the gate.
CheckedEarly == {"commit", "upsert"}

\* A lease.  fits is history: whether the TTL the client named is a time.Duration.
Record == [session: Sessions, fence: 1..MaxFence, expiresAt: Nat, fits: BOOLEAN]

Frame == [kind: Kinds, session: Sessions \cup {NoSession}, docs: SUBSET Docs,
          held: [Docs -> Record \cup {None}], seen: [Docs -> 0..MaxFence]]

\* "idle": not arrived; "validated": taken up, its session's own leases found
\* current; "queued": waiting at the gate; "front": holding it; "checked":
\* holding it, other sessions' locks looked for if its kind ever looks.
InFlight == {"validated", "queued", "front", "checked"}

TypeOK ==
  /\ now \in 0..MaxTime
  /\ locks \in [Docs -> Record \cup {None}]
  /\ fences \in [Docs -> 0..MaxFence]
  /\ leases \in [Sessions -> [Docs -> Record \cup {None}]]
  /\ open \subseteq Sessions
  /\ pc \in [Writes -> {"idle", "landed", "refused"} \cup InFlight]
  /\ frame \in [Writes -> Frame \cup {None}]
  /\ gate \in Writes \cup {None}

Init ==
  /\ now = 0
  /\ locks = [d \in Docs |-> None]
  /\ fences = [d \in Docs |-> 0]
  /\ leases = [s \in Sessions |-> [d \in Docs |-> None]]
  /\ open = Sessions
  /\ pc = [w \in Writes |-> "idle"]
  /\ frame = [w \in Writes |-> None]
  /\ gate = None

-----------------------------------------------------------------------------
(* LockManager.                                                            *)

\* Whether a record is in force; one that expires at 0 never does.
unexpired(rec) == rec.expiresAt = 0 \/ now < rec.expiresAt

\* Whether d has an unexpired holder.
liveHolder(d) == locks[d] # None /\ unexpired(locks[d])

\* The lock table after a lookup of the documents in ds: looking a document up
\* drops its record once that has expired.
evicting(ds) ==
  [d \in Docs |-> IF d \in ds /\ ~liveHolder(d) THEN None ELSE locks[d]]

heldByOther(d, s) == liveHolder(d) /\ locks[d].session # s

\* Whether a lease the session remembers is still the one the manager holds.
current(l, d) ==
  liveHolder(d) /\ locks[d].session = l.session /\ locks[d].fence = l.fence

\* What a product of int64s is when it leaves the range.
wrap(n) == ((n + HalfRange) % (2 * HalfRange)) - HalfRange

\* Whether a request is a time.Duration.
Fits(request) == request * Millisecond < HalfRange

\* Mutant: a client's 0 reaches LockManager, to which it means "no expiry".
clampLeaseTTLWithoutDefault(request) ==
  LET ttl == wrap(request * Millisecond)
  IN  IF ttl > MaxLeaseTTL THEN MaxLeaseTTL ELSE ttl

\* The TTL a request is granted.  The request is compared with 0 before it is
\* converted and with the maximum after.
clampLeaseTTL(request) ==
  LET ttl == wrap(request * Millisecond)
  IN  IF request <= 0 THEN DefaultLeaseTTL
      ELSE IF ttl > MaxLeaseTTL THEN MaxLeaseTTL ELSE ttl

\* Mutant: the counter is read before it is incremented.
nextFenceBeforeIncrement(d) == IF liveHolder(d) THEN locks[d].fence ELSE fences[d]

\* A new token exactly when the document changes hands.
nextFence(d) == IF liveHolder(d) THEN locks[d].fence ELSE fences[d] + 1

\* The record grantLocked files for s, who holds d or finds it free.  A TTL that
\* is not positive is a lease without a deadline.
grant(s, d, request) ==
  LET ttl == clampLeaseTTL(request)
  IN  [session |-> s, fence |-> nextFence(d),
       expiresAt |-> IF ttl > 0 THEN now + ttl ELSE 0, fits |-> Fits(request)]

grantLocked(s, d, request) ==
  /\ nextFence(d) <= MaxFence
  /\ locks' = [locks EXCEPT ![d] = grant(s, d, request)]
  /\ fences' = [fences EXCEPT
       ![d] = IF liveHolder(d) THEN @ ELSE @ + 1]

ReleaseAll(s) ==
  locks' = [d \in Docs |->
    IF locks[d] # None /\ locks[d].session = s THEN None ELSE locks[d]]

-----------------------------------------------------------------------------
(* The lock verbs.  Frames of one session run in arrival order, so a verb  *)
(* waits for the session's ordered write.                                  *)

sessionBusy(s) ==
  \E w \in Writes : /\ pc[w] \in InFlight
                    /\ frame[w].session = s
                    /\ frame[w].kind \in Ordered

ready(s) == s \in open /\ ~sessionBusy(s)

handleLockAcquire(s, d, request) ==
  /\ ready(s)
  /\ ~heldByOther(d, s)
  /\ grantLocked(s, d, request)
  /\ leases' = [leases EXCEPT ![s][d] = grant(s, d, request)]
  /\ UNCHANGED <<now, open, writevars>>

\* Renew keeps the token.  A session that lost the document is told so, and
\* forgets the lease.
handleLockRenew(s, d, request) ==
  /\ ready(s)
  /\ IF liveHolder(d) /\ locks[d].session = s
     THEN /\ grantLocked(s, d, request)
          /\ leases' = [leases EXCEPT ![s][d] = grant(s, d, request)]
     ELSE /\ locks' = evicting({d})
          /\ leases' = [leases EXCEPT ![s][d] = None]
          /\ UNCHANGED fences
  /\ UNCHANGED <<now, open, writevars>>

\* Mutant: releasing a document forgets its token counter with its record.
handleLockReleaseForgetsFence(s, d) ==
  /\ ready(s)
  /\ locks[d] # None /\ locks[d].session = s
  /\ locks' = [locks EXCEPT ![d] = None]
  /\ fences' = [fences EXCEPT ![d] = 0]
  /\ leases' = [leases EXCEPT ![s][d] = None]
  /\ UNCHANGED <<now, open, writevars>>

handleLockRelease(s, d) ==
  /\ ready(s)
  /\ locks' = [locks EXCEPT
       ![d] = IF @ # None /\ @.session = s THEN None ELSE @]
  /\ leases' = [leases EXCEPT ![s][d] = None]
  /\ UNCHANGED <<now, fences, open, writevars>>

rollbackSession(s) ==
  /\ ready(s)
  /\ ReleaseAll(s)
  /\ leases' = [leases EXCEPT ![s] = [d \in Docs |-> None]]
  /\ UNCHANGED <<now, fences, open, writevars>>

endSession(s) ==
  /\ leases' = [leases EXCEPT ![s] = [d \in Docs |-> None]]
  /\ open' = open \ {s}
  /\ UNCHANGED <<now, fences, writevars>>

\* Mutant: the sessions are closed without waiting for the frames in flight.
closeAllSessionsAtOnce(s) == s \in open /\ ReleaseAll(s) /\ endSession(s)

\* Mutant: the session ends and its locks stay in the table.
closeAllSessionsKeepsLocks(s) ==
  /\ s \in open
  /\ \A w \in Writes : pc[w] \in InFlight => frame[w].session # s
  /\ endSession(s) /\ UNCHANGED locks

\* The connection drops.  The reader waits for every frame in flight, then
\* releases the session's locks and ends the session.
closeAllSessions(s) ==
  /\ s \in open
  /\ \A w \in Writes : pc[w] \in InFlight => frame[w].session # s
  /\ ReleaseAll(s)
  /\ endSession(s)

\* Every expired record is dropped at once.
Sweep ==
  /\ locks' = evicting(Docs)
  /\ UNCHANGED <<now, fences, leases, open, writevars>>

Tick ==
  /\ now < MaxTime
  /\ now' = now + 1
  /\ UNCHANGED <<locks, fences, leases, open, writevars>>

-----------------------------------------------------------------------------
(* The writes.                                                             *)

\* The leases the session remembers on ds, which a validating frame checks.
LeasesFor(s, k, ds) ==
  [d \in Docs |-> IF k \in Validating /\ d \in ds THEN leases[s][d] ELSE None]

\* A write stays on its way: look is what it looked up, at is where it goes.
pass(w, f, look, at) ==
  /\ locks' = evicting(look)
  /\ pc' = [pc EXCEPT ![w] = at]
  /\ frame' = [frame EXCEPT ![w] = f]

\* A write is answered with an error, having looked some documents up.
refuse(w, look) ==
  /\ locks' = evicting(look)
  /\ pc' = [pc EXCEPT ![w] = "refused"]
  /\ frame' = [frame EXCEPT ![w] = None]

\* The sessions a frame of kind k can be taken up for: a frame that is kept in
\* order waits its turn, and one that never looks for a lock names no session.
TakenUpFor(s, k) ==
  \/ k \in Ordered /\ ready(s)
  \/ k \notin Ordered \cup Unchecked /\ s \in open
  \/ k \notin Ordered /\ s = NoSession

\* A write frame of kind k is taken up for session s, and validates the leases
\* the session remembers on its documents.
Submit(w, s, k, ds) ==
  /\ pc[w] = "idle"
  /\ TakenUpFor(s, k)
  /\ LET held == LeasesFor(s, k, ds)
         lapsed == {d \in ds : held[d] # None /\ ~current(held[d], d)}
     IN  IF lapsed = {}
         THEN pass(w, [kind |-> k, session |-> s, docs |-> ds, held |-> held,
                       seen |-> fences],
                   {}, IF k \in CheckedEarly THEN "validated" ELSE "queued")
         ELSE \E look \in SUBSET ds : look \cap lapsed # {} /\ refuse(w, look)
  /\ UNCHANGED <<now, fences, leases, open, gate>>

\* The write reaches the front of the gate.  One that was checked on its way
\* here, or never is, goes straight to the engine.
acquire(w) ==
  /\ pc[w] = "queued"
  /\ gate = None
  /\ gate' = w
  /\ pc' = [pc EXCEPT ![w] =
              IF frame[w].kind \in CheckedEarly \cup Unchecked THEN "checked" ELSE "front"]
  /\ UNCHANGED <<now, lockvars, leases, open, frame>>

\* The queue was full, a long hold was on, or the write's deadline passed.
gateRefuses(w) ==
  /\ pc[w] = "queued"
  /\ refuse(w, {})
  /\ UNCHANGED <<now, fences, leases, open, gate>>

\* Mutant: the documents of the write are not looked up.
AssertUnheldByOthersSkipped(w) ==
  /\ pc[w] \in {"validated", "front"}
  /\ pass(w, [frame[w] EXCEPT !.seen = fences], {},
          IF pc[w] = "front" THEN "checked" ELSE "queued")
  /\ UNCHANGED <<now, fences, leases, open, gate>>

\* The frame looks for other sessions' locks, before it queues or at the front
\* according to its kind.
AssertUnheldByOthers(w) ==
  /\ pc[w] \in {"validated", "front"}
  /\ LET f == frame[w]
         taken == {d \in f.docs : heldByOther(d, f.session)}
     IN  IF taken = {}
         THEN /\ pass(w, [f EXCEPT !.seen = fences], f.docs,
                      IF pc[w] = "front" THEN "checked" ELSE "queued")
              /\ UNCHANGED gate
         ELSE /\ \E look \in SUBSET f.docs : look \cap taken # {} /\ refuse(w, look)
              /\ gate' = IF pc[w] = "front" THEN None ELSE gate
  /\ UNCHANGED <<now, fences, leases, open>>

\* The commit is appended to the graph, and the gate goes to the next write.
land(w) ==
  /\ pc[w] = "checked"
  /\ gate' = None
  /\ pc' = [pc EXCEPT ![w] = "landed"]
  /\ frame' = [frame EXCEPT ![w] = None]
  /\ UNCHANGED <<now, lockvars, leases, open>>

\* The engine rejects the transaction (a conflict, a schema violation, ...).
engineRefuses(w) ==
  /\ pc[w] \in {"front", "checked"}
  /\ refuse(w, {})
  /\ gate' = None
  /\ UNCHANGED <<now, fences, leases, open>>

WriteStep(w) ==
  \/ \E s \in Sessions \cup {NoSession}, k \in Kinds, ds \in (SUBSET Docs) \ {{}} :
       Submit(w, s, k, ds)
  \/ acquire(w)
  \/ gateRefuses(w)
  \/ AssertUnheldByOthers(w)
  \/ land(w)
  \/ engineRefuses(w)

SessionStep(s) ==
  \/ \E d \in Docs, request \in Requests : handleLockAcquire(s, d, request)
  \/ \E d \in Docs, request \in Requests : handleLockRenew(s, d, request)
  \/ \E d \in Docs : handleLockRelease(s, d)
  \/ rollbackSession(s)
  \/ closeAllSessions(s)

Next ==
  \/ \E s \in Sessions : SessionStep(s)
  \/ \E w \in Writes : WriteStep(w)
  \/ Sweep
  \/ Tick

Spec == Init /\ [][Next]_vars

-----------------------------------------------------------------------------
(* Properties.                                                             *)

\* No two sessions ever hold the same token for a document, whatever expired,
\* was released or was taken over in between: a token that is released and
\* minted again would let a stalled holder pass ValidateFences.
TokensAreUnique ==
  \A s, t \in Sessions, d \in Docs :
    (leases[s][d] # None /\ leases[t][d] # None /\ s # t)
      => leases[s][d].fence # leases[t][d].fence

\* The deadline of d's lock is within MaxLeaseTTL from now.
Ends(d) == locks[d].expiresAt \in 1..(now + MaxLeaseTTL)

\* A client that asks for a TTL a time.Duration can hold never holds a document
\* past MaxLeaseTTL from now, renewals included: TTL 0 is "no expiry" to
\* LockManager and "the default" on the wire.  clampLeaseTTL keeps this promise for
\* no other request: one that does not fit may wrap to a TTL of 0 or below, which
\* passes the cap, and the lease then has no deadline.
FittingLeasesEnd ==
  \A d \in Docs : (locks[d] # None /\ locks[d].fits) => Ends(d)

\* A lease a commit validated stays with its session until it expires, however
\* long the commit waits at the gate: neither the session's own later frames
\* nor its connection dropping lets a stranger take the document mid-commit.
ValidatedLeaseIsKept ==
  \A w \in Writes, d \in Docs :
    (pc[w] \in InFlight /\ frame[w].held[d] # None /\ unexpired(frame[w].held[d]))
      => current(frame[w].held[d], d)

\* The locks other sessions have on w's documents were granted after w looked for
\* them, or was taken up if it never looks.
OnlyLaterLocks(w) ==
  \A d \in frame[w].docs : heldByOther(d, frame[w].session) =>
    locks[d].fence > frame[w].seen[d]

\* A document another session holds when a write of a kind that looks for locks
\* is about to land was granted after the write looked: a lease granted before
\* and still in force has refused the write.
OnlyLaterLeasesAreOverwritten ==
  \A w \in Writes :
    (pc[w] = "checked" /\ frame[w].kind \notin Unchecked) => OnlyLaterLocks(w)

\* "A lease binds every write path, not only TxCommit" (wire_listen.go): no write
\* of any kind is about to land on a document that another session has held since
\* before the write was taken up.
LeaseBindsEveryWritePath ==
  \A w \in Writes : pc[w] = "checked" => OnlyLaterLocks(w)

\* A session that is gone holds no lock.
EndedSessionsHoldNothing ==
  \A d \in Docs : liveHolder(d) => locks[d].session \in open

\* "A document a client holds an explicit lease on must not be written by
\* anyone else" (AssertUnheldByOthers): no write that looks for locks lands on a
\* document that another session holds at that moment.
LeaseExcludesOthers ==
  [][\A w \in Writes :
       (pc[w] = "checked" /\ pc'[w] = "landed" /\ frame[w].kind \notin Unchecked) =>
         \A d \in frame[w].docs : ~heldByOther(d, frame[w].session)]_vars
=============================================================================
