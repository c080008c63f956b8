------------------------ MODULE DocumentLocksProofs ------------------------
(***************************************************************************)
(* The lease properties of DocumentLocks, for any sessions, documents and  *)
(* writes.                                                                 *)
(*                                                                         *)
(* None of them is inductive alone.  What the argument rests on is         *)
(* LockInv: the lock table and the sessions' own view of their leases      *)
(* never disagree about a document that is locked, because every verb      *)
(* changes both.  A lease a commit validated is then the record in the     *)
(* table (KeptInv), and the token a later holder got is above every token  *)
(* a checked write saw (LaterInv).                                         *)
(***************************************************************************)
EXTENDS DocumentLocks, TLAPS

\* The table: a record is the lease its session remembers, of an open session,
\* with a token that was minted and, if the request was a duration, a deadline
\* within MaxLeaseTTL.
LockInv ==
  \A d \in Docs : locks[d] # None =>
    /\ leases[locks[d].session][d] = locks[d]
    /\ locks[d].session \in open
    /\ locks[d].fits => Ends(d)

\* The sessions' leases: their own, minted, and no two with the same token.
LeaseInv ==
  /\ \A s \in Sessions, d \in Docs : leases[s][d] # None =>
       leases[s][d].session = s /\ leases[s][d].fence <= fences[d]
  /\ TokensAreUnique

\* A write in flight: what it saw was minted, and only an ordered frame holds
\* leases, which are its own session's.
FrameInv ==
  \A w \in Writes : pc[w] \in InFlight =>
    /\ frame[w] \in Frame
    /\ \A d \in Docs :
         /\ frame[w].seen[d] <= fences[d]
         /\ frame[w].held[d] # None =>
              /\ frame[w].kind \in Ordered
              /\ frame[w].held[d].session = frame[w].session

\* A lease a write in flight validated is in the table until it expires.
KeptInv ==
  \A w \in Writes, d \in Docs :
    (pc[w] \in InFlight /\ frame[w].held[d] # None /\ unexpired(frame[w].held[d]))
      => locks[d] = frame[w].held[d]

\* The writes whose documents have been looked up.
Checked(w) ==
  \/ pc[w] = "checked" /\ frame[w].kind \notin Unchecked
  \/ pc[w] = "queued" /\ frame[w].kind \in CheckedEarly

\* Another session's lock on a document of a checked write is a later one.
LaterInv ==
  \A w \in Writes : Checked(w) => OnlyLaterLocks(w)

IInv == TypeOK /\ LockInv /\ LeaseInv /\ FrameInv /\ KeptInv /\ LaterInv

-----------------------------------------------------------------------------

\* A product that is within the range of an int64 is what it is.
LEMMA WrapInRange ==
  ASSUME NEW n \in 0..(HalfRange - 1)
  PROVE  wrap(n) = n
<1>1. HalfRange \in Nat /\ HalfRange > 0 BY LeaseAssumption
<1> DEFINE a == n + HalfRange
           b == 2 * HalfRange
<1>2. a \in Nat /\ b \in Nat /\ 0 <= a /\ a < b BY <1>1
<1>3. a % b = a BY <1>2, SMTT(30)
<1> QED BY <1>1, <1>3 DEF wrap

\* The wire layer asks the lock manager for a TTL that is at most the maximum, and
\* that is positive if the client's request is a duration.
LEMMA ClampedTTL ==
  ASSUME NEW request \in Requests
  PROVE  /\ clampLeaseTTL(request) \in Int
         /\ Fits(request) => clampLeaseTTL(request) \in 1..MaxLeaseTTL
<1>1. request \in Int /\ Millisecond \in Nat \ {0} /\ HalfRange \in Nat \ {0}
  BY LeaseAssumption
<1>2. request * Millisecond \in Int BY <1>1
<1>3. wrap(request * Millisecond) \in Int BY <1>1, <1>2 DEF wrap
<1>4. ASSUME Fits(request), request > 0
      PROVE  wrap(request * Millisecond) >= 1
  <2>1. request * Millisecond >= 1 BY <1>1, <1>4
  <2>2. request * Millisecond \in 0..(HalfRange - 1) BY <1>1, <1>2, <1>4, <2>1 DEF Fits
  <2> QED BY <2>1, <2>2, WrapInRange
<1> QED BY <1>1, <1>3, <1>4, LeaseAssumption DEF clampLeaseTTL

\* Before the first frame arrives.
LEMMA InitIInv == Init => IInv
<1> SUFFICES ASSUME Init PROVE IInv OBVIOUS
<1> USE DEF Init
<1>1. TypeOK BY LeaseAssumption DEF TypeOK, InFlight
<1>2. LockInv /\ LeaseInv /\ KeptInv /\ FrameInv /\ LaterInv
  BY DEF LockInv, LeaseInv, TokensAreUnique, KeptInv, FrameInv, LaterInv, InFlight, Checked
<1> QED BY <1>1, <1>2 DEF IInv

\* What a step that grants s the document d does to the table and the leases,
\* whether d was free or is held by s already.
Granted(s, d, request) ==
  /\ ready(s)
  /\ ~heldByOther(d, s)
  /\ grantLocked(s, d, request)
  /\ leases' = [leases EXCEPT ![s][d] = grant(s, d, request)]
  /\ UNCHANGED <<now, open, writevars>>

\* A grant preserves the invariant: a document that changes hands gets a token
\* above all others, one that does not keeps its token, and neither happens to
\* a document an in-flight write holds a lease on.
LEMMA GrantIInv ==
  ASSUME IInv, NEW s \in Sessions, NEW d \in Docs, NEW request \in Requests,
         Granted(s, d, request)
  PROVE  IInv'
<1>0. TypeOK /\ LockInv /\ LeaseInv /\ FrameInv /\ KeptInv /\ LaterInv BY Zenon DEF IInv
<1> DEFINE rec == grant(s, d, request)
<1>1. /\ rec \in Record /\ rec.session = s /\ rec.fence = nextFence(d)
      /\ rec.fits => rec.expiresAt \in 1..(now + MaxLeaseTTL)
  <2> DEFINE ttl == clampLeaseTTL(request)
             deadline == IF ttl > 0 THEN now + ttl ELSE 0
  <2>1. rec = [session |-> s, fence |-> nextFence(d), expiresAt |-> deadline,
               fits |-> Fits(request)]
    BY DEF grant
  <2>2. Fits(request) \in BOOLEAN BY LeaseAssumption, SMT DEF Fits
  <2>3. nextFence(d) \in 1..MaxFence
    BY <1>0, LeaseAssumption
       DEF Granted, grantLocked, nextFence, TypeOK, Record, liveHolder
  <2>4. deadline \in Nat /\ (Fits(request) => deadline \in 1..(now + MaxLeaseTTL))
    <3>1. now \in Nat /\ MaxLeaseTTL \in Nat BY <1>0, LeaseAssumption DEF TypeOK
    <3>2. ttl \in Int /\ (Fits(request) => ttl \in 1..MaxLeaseTTL) BY ClampedTTL
    <3> HIDE DEF ttl
    <3> QED BY <3>1, <3>2
  <2> HIDE DEF deadline, ttl, rec
  <2> QED BY <2>1, <2>2, <2>3, <2>4 DEF Record
<1>2. /\ locks' = [locks EXCEPT ![d] = rec] /\ leases' = [leases EXCEPT ![s][d] = rec]
      /\ now' = now /\ open' = open /\ pc' = pc /\ frame' = frame /\ gate' = gate
      /\ fences' = [fences EXCEPT ![d] = IF liveHolder(d) THEN @ ELSE @ + 1]
      /\ ready(s) /\ ~heldByOther(d, s)
  BY Zenon DEF Granted, grantLocked, writevars
<1> HIDE DEF rec
<1>3. /\ \A e \in Docs : fences[e] <= fences'[e] /\ fences'[e] \in 0..MaxFence
      /\ rec.fence <= fences'[d]
      /\ \/ liveHolder(d) /\ locks[d].session = s /\ rec.fence = locks[d].fence
         \/ ~liveHolder(d) /\ rec.fence = fences[d] + 1
  <2>1. CASE liveHolder(d)
    <3>1. locks[d] # None /\ locks[d].session = s
      BY <1>2, <2>1 DEF heldByOther, liveHolder
    <3>2. leases[s][d] = locks[d] BY <1>0, <3>1 DEF LockInv
    <3> QED BY <1>0, <1>1, <1>2, <2>1, <3>1, <3>2 DEF LeaseInv, nextFence, TypeOK
  <2>2. CASE ~liveHolder(d)
    BY <1>0, <1>1, <1>2, <2>2 DEF nextFence, TypeOK, Record
  <2> QED BY <2>1, <2>2
<1>4. TypeOK' BY <1>0, <1>1, <1>2, <1>3 DEF TypeOK
<1>5. LockInv'
  <2>1. SUFFICES ASSUME NEW e \in Docs, locks'[e] # None
                 PROVE  /\ leases'[locks'[e].session][e] = locks'[e]
                        /\ locks'[e].session \in open
                        /\ locks'[e].fits => locks'[e].expiresAt \in 1..(now + MaxLeaseTTL)
    BY <1>2 DEF LockInv, Ends
  <2>2. CASE e = d
    <3>1. locks'[d] = rec /\ leases'[s][d] = rec BY <1>0, <1>2 DEF TypeOK
    <3>2. s \in open BY <1>2 DEF ready
    <3> QED BY <1>1, <2>2, <3>1, <3>2
  <2>3. CASE e # d
    <3>1. locks'[e] = locks[e] /\ \A t \in Sessions : leases'[t][e] = leases[t][e]
      BY <1>0, <1>2, <2>3 DEF TypeOK
    <3>2. locks[e] \in Record BY <1>0, <2>1, <3>1 DEF TypeOK
    <3> QED BY <1>0, <2>1, <3>1, <3>2 DEF LockInv, Ends, Record
  <2> QED BY <2>2, <2>3
<1>6. LeaseInv'
  <2>1. ASSUME NEW t \in Sessions, NEW e \in Docs, leases'[t][e] # None
        PROVE  leases'[t][e].session = t /\ leases'[t][e].fence <= fences'[e]
    BY <1>0, <1>1, <1>2, <1>3, <2>1 DEF LeaseInv, TypeOK, Record
  <2>2. ASSUME NEW t \in Sessions, t # s, leases[t][d] # None
        PROVE  leases[t][d].fence # rec.fence
    <3>1. CASE liveHolder(d)
      <4>1. locks[d] # None /\ locks[d].session = s /\ rec.fence = locks[d].fence
        BY <1>3, <3>1 DEF liveHolder
      <4>2. leases[s][d] = locks[d] BY <1>0, <4>1 DEF LockInv
      <4> QED BY <1>0, <2>2, <4>1, <4>2 DEF LeaseInv, TokensAreUnique
    <3>2. CASE ~liveHolder(d)
      BY <1>0, <1>3, <2>2, <3>2 DEF LeaseInv, TypeOK, Record
    <3> QED BY <3>1, <3>2
  <2>3. TokensAreUnique' BY <1>0, <1>2, <2>2 DEF LeaseInv, TokensAreUnique, TypeOK
  <2> QED BY <2>1, <2>3 DEF LeaseInv
<1>7. FrameInv' BY <1>0, <1>2, <1>3 DEF FrameInv, TypeOK, Frame
<1>8. KeptInv'
  <2>1. SUFFICES ASSUME NEW w \in Writes, NEW e \in Docs, pc[w] \in InFlight,
                        frame[w].held[e] # None, unexpired(frame[w].held[e])
                 PROVE  locks'[e] = frame[w].held[e]
    BY <1>2 DEF KeptInv, unexpired
  <2>2. /\ frame[w].kind \in Ordered /\ frame[w].held[e].session = frame[w].session
        /\ locks[e] = frame[w].held[e]
    BY <1>0, <2>1 DEF FrameInv, KeptInv
  <2>3. frame[w].session # s BY <1>2, <2>1, <2>2 DEF ready, sessionBusy
  <2>4. e # d
    <3>1. SUFFICES ASSUME e = d PROVE FALSE OBVIOUS
    <3>2. liveHolder(d) /\ locks[d].session # s
      BY <2>1, <2>2, <2>3, <3>1 DEF liveHolder
    <3> QED BY <1>2, <3>2 DEF heldByOther
  <2> QED BY <1>0, <1>2, <2>2, <2>4 DEF TypeOK
<1>9. LaterInv'
  <2>1. SUFFICES ASSUME NEW w \in Writes, Checked(w), NEW e \in frame[w].docs,
                        heldByOther(e, frame[w].session)'
                 PROVE  locks'[e].fence > frame[w].seen[e]
    BY <1>2 DEF LaterInv, OnlyLaterLocks, Checked
  <2>2. pc[w] \in InFlight /\ frame[w] \in Frame /\ e \in Docs
    BY <1>0, <2>1 DEF Checked, InFlight, FrameInv, Frame
  <2>3. frame[w].seen[e] <= fences[e] /\ frame[w].seen[e] \in Nat /\ fences[e] \in Nat
    BY <1>0, <2>2 DEF FrameInv, Frame, TypeOK
  <2>4. CASE e = d
    <3>1. locks'[d] = rec BY <1>0, <1>2 DEF TypeOK
    <3>2. CASE liveHolder(d)
      <4>1. frame[w].session # s /\ locks[d].session = s /\ rec.fence = locks[d].fence
        BY <1>1, <1>2, <1>3, <2>1, <2>4, <3>1, <3>2 DEF heldByOther
      <4>2. heldByOther(d, frame[w].session) BY <3>2, <4>1 DEF heldByOther
      <4> QED BY <1>0, <2>1, <2>4, <3>1, <4>1, <4>2 DEF LaterInv, OnlyLaterLocks
    <3>3. CASE ~liveHolder(d) BY <1>3, <2>3, <2>4, <3>1, <3>3
    <3> QED BY <3>2, <3>3
  <2>5. CASE e # d
    <3>1. locks'[e] = locks[e] BY <1>0, <1>2, <2>2, <2>5 DEF TypeOK
    <3>2. heldByOther(e, frame[w].session)
      BY <1>2, <2>1, <3>1 DEF heldByOther, liveHolder, unexpired
    <3> QED BY <1>0, <2>1, <3>1, <3>2 DEF LaterInv, OnlyLaterLocks
  <2> QED BY <2>4, <2>5
<1> QED BY <1>4, <1>5, <1>6, <1>7, <1>8, <1>9 DEF IInv
-----------------------------------------------------------------------------

\* What a step that grants nothing does to the table and the leases: a record
\* goes only when it has expired or its session has no ordered write in
\* flight, and no session forgets a lease whose record stays.
LetGo ==
  /\ locks' \in [Docs -> Record \cup {None}]
  /\ \A d \in Docs :
       \/ locks'[d] = locks[d]
       \/ locks'[d] = None /\ (liveHolder(d) => ~sessionBusy(locks[d].session))
  /\ leases' \in [Sessions -> [Docs -> Record \cup {None}]]
  /\ \A t \in Sessions, d \in Docs :
       \/ leases'[t][d] = leases[t][d]
       \/ leases'[t][d] = None /\ (locks'[d] # None => locks'[d].session # t)
  /\ open' \subseteq open
  /\ \A d \in Docs : locks'[d] # None => locks'[d].session \in open'
  /\ UNCHANGED <<now, fences>>

\* A write the step takes no further, or takes from the queue to the front.
Carried(w) ==
  /\ pc[w] \in InFlight /\ frame'[w] = frame[w]
  /\ Checked(w)' => Checked(w)

\* The write's part of the invariant.
Sound(w) ==
  /\ frame[w] \in Frame
  /\ \A d \in Docs :
       /\ frame[w].seen[d] <= fences[d]
       /\ frame[w].held[d] # None =>
            /\ frame[w].kind \in Ordered
            /\ frame[w].held[d].session = frame[w].session
            /\ unexpired(frame[w].held[d]) => locks[d] = frame[w].held[d]
  /\ Checked(w) => OnlyLaterLocks(w)

\* Letting go preserves the invariant, if every write still in flight is one
\* that was before or is a sound new one.
LEMMA LetGoIInv ==
  ASSUME IInv, LetGo,
         pc' \in [Writes -> {"idle", "landed", "refused"} \cup InFlight],
         frame' \in [Writes -> Frame \cup {None}],
         gate' \in Writes \cup {None},
         \A w \in Writes : pc'[w] \in InFlight => Carried(w) \/ Sound(w)'
  PROVE  IInv'
<1>0. TypeOK /\ LockInv /\ LeaseInv /\ FrameInv /\ KeptInv /\ LaterInv BY Zenon DEF IInv
<1>1. TypeOK' BY <1>0 DEF TypeOK, LetGo
<1>2. LockInv'
  <2>1. SUFFICES ASSUME NEW d \in Docs, locks'[d] # None
                 PROVE  /\ leases'[locks'[d].session][d] = locks'[d]
                        /\ locks'[d].session \in open'
                        /\ locks'[d].fits => Ends(d)'
    BY DEF LockInv
  <2>2. locks'[d] = locks[d] /\ locks[d].session \in Sessions
    BY <1>0, <2>1 DEF LetGo, TypeOK, Record
  <2>3. leases[locks[d].session][d] = locks[d] /\ (locks[d].fits => Ends(d))
    BY <1>0, <2>1, <2>2 DEF LockInv
  <2> QED BY <2>1, <2>2, <2>3 DEF LetGo, Ends
<1>3. LeaseInv'
  <2>1. ASSUME NEW t \in Sessions, NEW d \in Docs, leases'[t][d] # None
        PROVE  leases'[t][d] = leases[t][d]
    BY <2>1 DEF LetGo
  <2>2. fences' = fences BY SMTT(30) DEF LetGo
  <2> QED BY <1>0, <2>1, <2>2 DEF LeaseInv, TokensAreUnique
<1>4. ASSUME NEW w \in Writes, pc'[w] \in InFlight
      PROVE  Sound(w)'
  <2>1. SUFFICES ASSUME Carried(w) PROVE Sound(w)' BY <1>4
  <2>2. /\ pc[w] \in InFlight /\ frame'[w] = frame[w] /\ frame[w] \in Frame
        /\ now' = now /\ fences' = fences
    BY <1>0, <2>1 DEF Carried, FrameInv, LetGo
  <2>3. ASSUME NEW d \in Docs, frame[w].held[d] # None
        PROVE  /\ frame[w].kind \in Ordered
               /\ frame[w].held[d].session = frame[w].session
               /\ unexpired(frame[w].held[d]) => locks'[d] = frame[w].held[d]
    <3>1. /\ frame[w].kind \in Ordered /\ frame[w].held[d].session = frame[w].session
          /\ unexpired(frame[w].held[d]) => locks[d] = frame[w].held[d]
      BY <1>0, <2>2, <2>3 DEF FrameInv, KeptInv
    <3>2. ASSUME unexpired(frame[w].held[d])
          PROVE  locks'[d] = locks[d]
      <4>1. liveHolder(d) /\ locks[d].session = frame[w].session
        BY <2>3, <3>1, <3>2 DEF liveHolder
      <4>2. sessionBusy(locks[d].session) BY <2>2, <3>1, <4>1 DEF sessionBusy
      <4> QED BY <4>1, <4>2 DEF LetGo
    <3> QED BY <3>1, <3>2
  <2>4. ASSUME Checked(w)', NEW d \in frame[w].docs, heldByOther(d, frame[w].session)'
        PROVE  locks'[d].fence > frame[w].seen[d]
    <3>1. Checked(w) BY <2>1, <2>4 DEF Carried, Checked
    <3>2. d \in Docs BY <2>2 DEF Frame
    <3>3. locks'[d] = locks[d] BY <2>4, <3>2 DEF LetGo, heldByOther, liveHolder
    <3>4. heldByOther(d, frame[w].session)
      BY <2>2, <2>4, <3>3 DEF heldByOther, liveHolder, unexpired
    <3> QED BY <1>0, <3>1, <3>3, <3>4 DEF LaterInv, OnlyLaterLocks
  <2>5. \A d \in Docs : frame[w].seen[d] <= fences[d] BY <1>0, <2>2 DEF FrameInv
  <2> QED BY <2>2, <2>3, <2>4, <2>5 DEF Sound, OnlyLaterLocks, unexpired, heldByOther, liveHolder
<1>5. FrameInv' BY <1>4 DEF FrameInv, Sound
<1>6. KeptInv' BY SMTT(30), <1>4 DEF KeptInv, Sound
<1>7. LaterInv' BY <1>4 DEF LaterInv, Sound, Checked, InFlight
<1> QED BY <1>1, <1>2, <1>3, <1>5, <1>6, <1>7 DEF IInv
-----------------------------------------------------------------------------
(* The steps of the sessions and of the clock.                             *)

\* A step that lets go and moves no write.
LEMMA QuietIInv ==
  ASSUME IInv, LetGo, UNCHANGED writevars
  PROVE  IInv'
<1>1. pc' = pc /\ frame' = frame /\ gate' = gate BY DEF writevars
<1>2. \A w \in Writes : pc'[w] \in InFlight => Carried(w)
  BY <1>1 DEF Carried, Checked
<1> QED BY <1>1, <1>2, LetGoIInv DEF IInv, TypeOK

\* Looking documents up drops expired records only.
LEMMA EvictingLetsGo ==
  ASSUME IInv, NEW look, locks' = evicting(look),
         UNCHANGED <<now, fences, leases, open>>
  PROVE  LetGo
<1>1. TypeOK /\ LockInv BY DEF IInv
<1>2. \A d \in Docs : \/ locks'[d] = locks[d]
                      \/ locks'[d] = None /\ ~liveHolder(d)
  BY DEF evicting
<1>3. locks' \in [Docs -> Record \cup {None}] BY <1>1 DEF evicting, TypeOK
<1> QED BY <1>1, <1>2, <1>3 DEF LetGo, TypeOK, LockInv

\* The step of one session preserves the invariant.
LEMMA SessionIInv ==
  ASSUME IInv, NEW s \in Sessions, SessionStep(s)
  PROVE  IInv'
<1>0. TypeOK /\ LockInv BY DEF IInv
<1>1. ASSUME NEW d \in Docs, NEW request \in Requests, handleLockAcquire(s, d, request)
      PROVE  IInv'
  <2>1. Granted(s, d, request) BY <1>1 DEF handleLockAcquire, Granted
  <2> QED BY <2>1, GrantIInv
<1>2. ASSUME NEW d \in Docs, NEW request \in Requests, handleLockRenew(s, d, request)
      PROVE  IInv'
  <2>1. CASE liveHolder(d) /\ locks[d].session = s
    <3>1. Granted(s, d, request)
      BY <1>2, <2>1 DEF handleLockRenew, Granted, heldByOther
    <3> QED BY <3>1, GrantIInv
  <2>2. CASE ~(liveHolder(d) /\ locks[d].session = s)
    <3>1. /\ locks' = evicting({d}) /\ leases' = [leases EXCEPT ![s][d] = None]
          /\ UNCHANGED <<now, fences, open, writevars>>
      BY <1>2, <2>2 DEF handleLockRenew
    <3>2. /\ \A e \in Docs : \/ locks'[e] = locks[e]
                             \/ locks'[e] = None /\ ~liveHolder(e)
          /\ locks'[d] # None => locks'[d].session # s
      BY <2>2, <3>1 DEF evicting
    <3>3. locks' \in [Docs -> Record \cup {None}] BY <1>0, <3>1 DEF evicting, TypeOK
    <3>4. LetGo BY Zenon, <1>0, <3>1, <3>2, <3>3 DEF LetGo, TypeOK, LockInv
    <3> QED BY <3>1, <3>4, QuietIInv
  <2> QED BY <2>1, <2>2
<1>3. ASSUME NEW d \in Docs, handleLockRelease(s, d)
      PROVE  IInv'
  <2>1. LetGo BY <1>0, <1>3 DEF handleLockRelease, LetGo, TypeOK, LockInv, ready
  <2> QED BY <1>3, <2>1, QuietIInv DEF handleLockRelease
<1>4. CASE rollbackSession(s)
  <2>1. LetGo
    BY SMTT(30), <1>0, <1>4 DEF rollbackSession, ReleaseAll, LetGo, TypeOK, LockInv, ready
  <2> QED BY <1>4, <2>1, QuietIInv DEF rollbackSession
<1>5. CASE closeAllSessions(s)
  <2>1. ~sessionBusy(s) BY <1>5 DEF closeAllSessions, sessionBusy
  <2>2. LetGo
    BY <1>0, <1>5, <2>1
       DEF closeAllSessions, endSession, ReleaseAll, LetGo, TypeOK, LockInv
  <2> QED BY <1>5, <2>2, QuietIInv DEF closeAllSessions, endSession
<1> QED BY <1>1, <1>2, <1>3, <1>4, <1>5 DEF SessionStep

\* Time passing preserves the invariant: it only ends leases.
LEMMA TickIInv ==
  ASSUME IInv, Tick
  PROVE  IInv'
<1>0. TypeOK /\ LockInv /\ LeaseInv /\ FrameInv /\ KeptInv /\ LaterInv BY Zenon DEF IInv
<1>1. /\ locks' = locks /\ fences' = fences /\ leases' = leases /\ open' = open
      /\ pc' = pc /\ frame' = frame /\ gate' = gate /\ now' = now + 1 /\ now < MaxTime
      /\ now \in Nat
  BY <1>0, LeaseAssumption DEF Tick, writevars, TypeOK
<1>2. TypeOK' BY <1>0, <1>1, LeaseAssumption DEF TypeOK
<1>3. LockInv' BY <1>0, <1>1, LeaseAssumption DEF LockInv, Ends
<1>4. LeaseInv' /\ FrameInv' BY <1>0, <1>1 DEF LeaseInv, TokensAreUnique, FrameInv
<1>6. KeptInv'
  <2>1. SUFFICES ASSUME NEW w \in Writes, NEW d \in Docs, pc[w] \in InFlight,
                        frame[w].held[d] # None, unexpired(frame[w].held[d])'
                 PROVE  locks[d] = frame[w].held[d]
    BY <1>1 DEF KeptInv, unexpired
  <2>2. frame[w].held[d] \in Record BY <1>0, <2>1 DEF FrameInv, Frame
  <2>3. unexpired(frame[w].held[d]) BY <1>1, <2>1, <2>2 DEF unexpired, Record
  <2> QED BY <1>0, <2>1, <2>3 DEF KeptInv
<1>7. LaterInv'
  <2>1. SUFFICES ASSUME NEW w \in Writes, Checked(w), NEW d \in frame[w].docs,
                        heldByOther(d, frame[w].session)'
                 PROVE  locks[d].fence > frame[w].seen[d]
    BY <1>1 DEF LaterInv, OnlyLaterLocks, Checked
  <2>2. d \in Docs BY <1>0, <2>1 DEF Checked, InFlight, FrameInv, Frame
  <2>3. locks[d] # None /\ locks[d] \in Record
    BY <1>0, <1>1, <2>1, <2>2 DEF heldByOther, liveHolder, TypeOK
  <2>4. heldByOther(d, frame[w].session)
    BY <1>1, <2>1, <2>3 DEF heldByOther, liveHolder, unexpired, Record
  <2> QED BY <1>0, <2>1, <2>4 DEF LaterInv, OnlyLaterLocks
<1> QED BY <1>2, <1>3, <1>4, <1>6, <1>7 DEF IInv
-----------------------------------------------------------------------------
(* The steps of the writes.                                                *)

\* A step of one write that looks documents up and leaves the write at f, out
\* of flight or sound.
LEMMA OneWriteIInv ==
  ASSUME IInv, NEW w \in Writes, NEW look, NEW f \in Frame \cup {None},
         NEW at \in {"idle", "landed", "refused"} \cup InFlight,
         locks' = evicting(look), UNCHANGED <<now, fences, leases, open>>,
         pc' = [pc EXCEPT ![w] = at], frame' = [frame EXCEPT ![w] = f],
         gate' \in Writes \cup {None},
         at \in InFlight => Sound(w)'
  PROVE  IInv'
<1>1. TypeOK BY DEF IInv
<1>2. LetGo BY EvictingLetsGo
<1>3. /\ pc' \in [Writes -> {"idle", "landed", "refused"} \cup InFlight]
      /\ frame' \in [Writes -> Frame \cup {None}]
      /\ pc'[w] = at /\ frame'[w] = f
      /\ \A v \in Writes \ {w} : pc'[v] = pc[v] /\ frame'[v] = frame[v]
  BY <1>1 DEF TypeOK
<1>4. ASSUME NEW v \in Writes, pc'[v] \in InFlight
      PROVE  Carried(v) \/ Sound(v)'
  <2>1. CASE v = w BY <1>3, <1>4, <2>1
  <2>2. CASE v # w BY <1>3, <1>4, <2>2 DEF Carried, Checked
  <2> QED BY <2>1, <2>2
<1> QED BY <1>2, <1>3, <1>4, LetGoIInv

\* A write that is answered leaves the invariant to the others.
LEMMA RefusedIInv ==
  ASSUME IInv, NEW w \in Writes, NEW look, refuse(w, look),
         UNCHANGED <<now, fences, leases, open>>, gate' \in Writes \cup {None}
  PROVE  IInv'
BY Zenon, OneWriteIInv, "refused" \notin InFlight DEF refuse, InFlight

\* A frame taken up is sound: the leases it holds have just been found current.
LEMMA SubmitIInv ==
  ASSUME IInv, NEW w \in Writes, NEW s \in Sessions \cup {NoSession}, NEW k \in Kinds,
         NEW ds \in SUBSET Docs, Submit(w, s, k, ds)
  PROVE  IInv'
<1>0. TypeOK /\ LockInv /\ LeaseInv /\ gate' = gate /\ gate' \in Writes \cup {None}
  BY SMTT(30) DEF IInv, Submit, TypeOK
<1> DEFINE held == LeasesFor(s, k, ds)
           lapsed == {d \in ds : held[d] # None /\ ~current(held[d], d)}
           f == [kind |-> k, session |-> s, docs |-> ds, held |-> held, seen |-> fences]
           at == IF k \in CheckedEarly THEN "validated" ELSE "queued"
<1>1. CASE lapsed # {}
  <2>1. PICK look \in SUBSET ds : refuse(w, look) BY <1>1 DEF Submit
  <2> QED BY <1>0, <2>1, RefusedIInv DEF Submit
<1>2. CASE lapsed = {}
  <2>1. /\ locks' = evicting({}) /\ pc' = [pc EXCEPT ![w] = at]
        /\ frame' = [frame EXCEPT ![w] = f]
        /\ UNCHANGED <<now, fences, leases, open>>
    BY SMTT(30), <1>2 DEF Submit, pass
  <2>2. k \in Validating => s \in Sessions
    BY <1>0 DEF Submit, TakenUpFor, ready, Validating, Ordered, TypeOK
  <2>3. held \in [Docs -> Record \cup {None}]
    BY SMTT(30), <1>0, <2>2 DEF LeasesFor, TypeOK
  <2>4. f \in Frame BY SMTT(30), <1>0, <2>3 DEF Frame, TypeOK
  <2>5. ASSUME NEW d \in Docs, held[d] # None
        PROVE  k \in Ordered /\ held[d].session = s /\ locks'[d] = held[d]
    <3>1. k \in Validating /\ d \in ds /\ held[d] = leases[s][d] /\ s \in Sessions
      BY <2>2, <2>5 DEF LeasesFor
    <3>2. current(held[d], d) BY SMTT(30), <1>2, <2>5, <3>1
    <3>3. locks[d] # None /\ locks[d].session = s
      BY <1>0, <2>5, <3>1, <3>2 DEF current, liveHolder, LeaseInv
    <3>4. locks[d] = held[d] BY SMTT(30), <1>0, <3>1, <3>3 DEF LockInv
    <3>5. locks'[d] = locks[d] BY <2>1 DEF evicting
    <3>6. k \in Ordered BY SMTT(30), <3>1 DEF Validating, Ordered
    <3> QED BY <1>0, <2>5, <3>1, <3>3, <3>4, <3>5, <3>6
  <2> HIDE DEF f, held
  <2>6. f.kind = k /\ f.session = s /\ f.docs = ds /\ f.held = held /\ f.seen = fences
    BY DEF f
  <2>7. /\ frame'[w] = f /\ pc'[w] = at /\ fences' = fences
        /\ \A d \in Docs : fences[d] <= fences[d]
    BY SMTT(30), <1>0, <2>1 DEF TypeOK
  <2>8. ~Checked(w)' BY SMTT(30), <2>6, <2>7 DEF Checked
  <2>9. Sound(w)' BY SMTT(30), <2>4, <2>5, <2>6, <2>7, <2>8 DEF Sound
  <2>10. at \in {"idle", "landed", "refused"} \cup InFlight BY DEF InFlight
  <2> HIDE DEF at
  <2> QED BY Zenon, <1>0, <2>1, <2>4, <2>9, <2>10, OneWriteIInv
<1> QED BY SMTT(30), <1>1, <1>2

\* The step of one write preserves the invariant.
LEMMA WriteIInv ==
  ASSUME IInv, NEW w \in Writes, WriteStep(w)
  PROVE  IInv'
<1>0. TypeOK /\ LockInv /\ FrameInv /\ KeptInv /\ LaterInv BY DEF IInv
<1>1. ASSUME NEW s \in Sessions \cup {NoSession}, NEW k \in Kinds,
             NEW ds \in (SUBSET Docs) \ {{}}, Submit(w, s, k, ds)
      PROVE  IInv'
  BY <1>1, SubmitIInv
<1>2. CASE acquire(w)
  <2>1. /\ pc[w] \in InFlight /\ frame' = frame /\ gate' = w
        /\ pc' \in [Writes -> {"idle", "landed", "refused"} \cup InFlight]
        /\ UNCHANGED <<now, locks, fences, leases, open>>
    BY SMTT(30), <1>0, <1>2 DEF acquire, lockvars, TypeOK, InFlight
  <2>2. LetGo BY <1>0, <2>1 DEF LetGo, TypeOK, LockInv
  <2>3. ASSUME NEW v \in Writes, pc'[v] \in InFlight
        PROVE  Carried(v)
    BY <1>0, <1>2, <2>1, <2>3 DEF acquire, Carried, Checked, CheckedEarly, Unchecked, TypeOK
  <2> QED BY <1>0, <2>1, <2>2, <2>3, LetGoIInv DEF TypeOK
<1>3. CASE gateRefuses(w) BY <1>0, <1>3, RefusedIInv DEF gateRefuses, TypeOK
<1>4. CASE AssertUnheldByOthers(w)
  <2> DEFINE f == [frame[w] EXCEPT !.seen = fences]
             at == IF pc[w] = "front" THEN "checked" ELSE "queued"
             taken == {d \in frame[w].docs : heldByOther(d, frame[w].session)}
  <2>0. pc[w] \in InFlight /\ frame[w] \in Frame
    BY <1>0, <1>4 DEF AssertUnheldByOthers, InFlight, FrameInv
  <2>1. CASE taken # {}
    <3>1. PICK look \in SUBSET frame[w].docs : refuse(w, look)
      BY SMTT(30), <1>4, <2>1 DEF AssertUnheldByOthers
    <3>2. gate' \in Writes \cup {None} BY <1>0, <1>4, <2>1 DEF AssertUnheldByOthers, TypeOK
    <3> QED BY <1>4, <3>1, <3>2, RefusedIInv DEF AssertUnheldByOthers
  <2>2. CASE taken = {}
    <3>1. /\ locks' = evicting(frame[w].docs) /\ pc' = [pc EXCEPT ![w] = at]
          /\ frame' = [frame EXCEPT ![w] = f] /\ gate' = gate
          /\ UNCHANGED <<now, fences, leases, open>>
      BY <1>4, <2>2 DEF AssertUnheldByOthers, pass
    <3>2. /\ f \in Frame /\ f.kind = frame[w].kind /\ f.session = frame[w].session
          /\ f.docs = frame[w].docs /\ f.held = frame[w].held /\ f.seen = fences
      BY SMTT(30), <1>0, <2>0 DEF Frame, TypeOK
    <3> HIDE DEF f
    <3>3. frame'[w] = f /\ fences' = fences /\ now' = now
      BY <1>0, <3>1 DEF TypeOK
    <3>4. ASSUME NEW d \in Docs, f.held[d] # None
          PROVE  /\ f.kind \in Ordered /\ f.held[d].session = f.session
                 /\ unexpired(f.held[d]) => locks'[d] = f.held[d]
      <4>1. /\ f.kind \in Ordered /\ f.held[d].session = f.session
            /\ unexpired(f.held[d]) => locks[d] = f.held[d]
        BY <1>0, <2>0, <3>2, <3>4 DEF FrameInv, KeptInv
      <4>2. unexpired(f.held[d]) => locks'[d] = locks[d]
        BY <3>1, <3>4, <4>1 DEF evicting, liveHolder
      <4> QED BY SMTT(30), <4>1, <4>2
    <3>5. ASSUME NEW d \in f.docs
          PROVE  ~heldByOther(d, frame[w].session)'
      <4>1. d \in Docs /\ ~heldByOther(d, frame[w].session) BY <2>0, <2>2, <3>2, <3>5 DEF Frame
      <4>2. locks'[d] = locks[d] \/ locks'[d] = None BY SMTT(30), <3>1, <4>1 DEF evicting
      <4> QED BY SMTT(30), <3>2, <3>3, <4>1, <4>2 DEF heldByOther, liveHolder, unexpired
    <3>6. Sound(w)'
      <4>1. \A d \in Docs : fences[d] <= fences[d] BY <1>0 DEF TypeOK
      <4>2. \A d \in Docs : unexpired(frame[w].held[d])' => unexpired(f.held[d])
        BY SMTT(30), <3>3 DEF unexpired
      <4> QED BY <3>2, <3>3, <3>4, <3>5, <4>1, <4>2 DEF Sound, OnlyLaterLocks
    <3>7. /\ at \in {"idle", "landed", "refused"} \cup InFlight
          /\ gate' \in Writes \cup {None}
      BY SMTT(30), <1>0, <3>1 DEF InFlight, TypeOK
    <3> HIDE DEF at
    <3> QED BY Zenon, <3>1, <3>2, <3>6, <3>7, OneWriteIInv
  <2> QED BY <2>1, <2>2
<1>5. CASE land(w)
  <2>1. /\ pc' \in [Writes -> {"idle", "landed", "refused"} \cup InFlight]
        /\ frame' \in [Writes -> Frame \cup {None}] /\ gate' \in Writes \cup {None}
        /\ UNCHANGED <<now, locks, fences, leases, open>>
        /\ pc'[w] = "landed"
        /\ \A v \in Writes \ {w} : pc'[v] = pc[v] /\ frame'[v] = frame[v]
    BY SMTT(30), <1>0, <1>5 DEF land, lockvars, TypeOK, InFlight
  <2>2. LetGo BY SMTT(30), <1>0, <2>1 DEF LetGo, TypeOK, LockInv
  <2>3. ASSUME NEW v \in Writes, pc'[v] \in InFlight
        PROVE  Carried(v)
    BY <2>1, <2>3 DEF Carried, Checked, InFlight
  <2> QED BY <2>1, <2>2, <2>3, LetGoIInv
<1>6. CASE engineRefuses(w) BY <1>6, RefusedIInv DEF engineRefuses
<1> QED BY <1>1, <1>2, <1>3, <1>4, <1>5, <1>6 DEF WriteStep

-----------------------------------------------------------------------------
(* The theorems.                                                           *)

\* Every reachable state satisfies the invariant.
THEOREM Invariance == Spec => []IInv
<1>1. IInv /\ [Next]_vars => IInv'
  <2>1. SUFFICES ASSUME IInv, [Next]_vars PROVE IInv' OBVIOUS
  <2>2. ASSUME NEW s \in Sessions, SessionStep(s) PROVE IInv' BY <2>1, <2>2, SessionIInv
  <2>3. ASSUME NEW w \in Writes, WriteStep(w) PROVE IInv' BY <2>1, <2>3, WriteIInv
  <2>4. CASE Sweep
    <3>1. LetGo BY <2>1, <2>4, EvictingLetsGo DEF Sweep
    <3> QED BY <2>1, <2>4, <3>1, QuietIInv DEF Sweep
  <2>5. CASE Tick BY <2>1, <2>5, TickIInv
  <2>6. CASE UNCHANGED vars
    <3>1. LetGo BY <2>1, <2>6 DEF vars, LetGo, IInv, TypeOK, LockInv
    <3> QED BY SMTT(30), <2>1, <2>6, <3>1, QuietIInv DEF vars, writevars
  <2> QED BY <2>1, <2>2, <2>3, <2>4, <2>5, <2>6 DEF Next
<1> QED BY <1>1, InitIInv, PTL DEF Spec

\* The type invariant: in particular no token is minted past the bound.
THEOREM TypeCorrect == Spec => []TypeOK
<1>1. IInv => TypeOK BY DEF IInv
<1> QED BY <1>1, Invariance, PTL

\* Fencing: grantLocked never hands two sessions the same token for a document.
THEOREM FencesAreUnique == Spec => []TokensAreUnique
<1>1. IInv => TokensAreUnique BY DEF IInv, LeaseInv
<1> QED BY <1>1, Invariance, PTL

\* Expiry: no lease a client asked for with a TTL that is a duration outlives
\* MaxLeaseTTL, TTL 0 and renewals included.
THEOREM LeasesExpire == Spec => []FittingLeasesEnd
<1>1. IInv => FittingLeasesEnd BY SMTT(30) DEF IInv, LockInv, FittingLeasesEnd
<1> QED BY <1>1, Invariance, PTL

\* The leases a commit validated are its session's until they expire.
THEOREM ValidationHolds == Spec => []ValidatedLeaseIsKept
<1>1. IInv => ValidatedLeaseIsKept
  BY SMTT(30) DEF IInv, KeptInv, ValidatedLeaseIsKept, current, liveHolder
<1> QED BY <1>1, Invariance, PTL

\* What the lease check of a write does promise, for the kinds of frame that make
\* one: a document that another session holds when the write lands was leased after
\* the check.  A replay or a revert makes none, and nothing is claimed of them.
THEOREM OverwritesAreLater == Spec => []OnlyLaterLeasesAreOverwritten
<1>1. IInv => OnlyLaterLeasesAreOverwritten
  BY DEF IInv, LaterInv, Checked, OnlyLaterLeasesAreOverwritten
<1> QED BY <1>1, Invariance, PTL

\* Disconnecting leaves no lock behind.
THEOREM DisconnectReleases == Spec => []EndedSessionsHoldNothing
<1>1. IInv => EndedSessionsHoldNothing
  BY DEF IInv, LockInv, EndedSessionsHoldNothing, liveHolder
<1> QED BY <1>1, Invariance, PTL
=============================================================================
