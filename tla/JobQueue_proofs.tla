---------------------------- MODULE JobQueue_proofs ----------------------------
(* Proofs of the safety properties of JobQueue. *)
EXTENDS JobQueue, FiniteSetTheorems, TLAPS

\* The arithmetic of one type's counters.
Counters ==
    \A t \in Types :
      /\ running[t] <= limit[t]
      /\ deferred[t] = IF waiting[t] + running[t] > limit[t]
                       THEN waiting[t] + running[t] - limit[t]
                       ELSE 0

RunningIsExact == \A t \in Types : running[t] = Cardinality(With(Busy, t))

Balance == IsFiniteSet(Ready) /\ TokensMatchJobs

\* A worker has a job exactly while it is busy, and only a coroutine's job gets
\* into the places of a coroutine.
Jobs ==
    \A w \in Workers :
      /\ job[w] \in Types <=> at[w] \in Busy
      /\ at[w] \in {"resumed", "asking", "answered"} => job[w] = ClientType

\* Only coroutines ask for paths.
Asked == awaiting > 0 => ClientType \in Types

\* The children's threads are out of the queue once they have stopped.
Gone == areChildrenStopped => \A a \in Threads : adding[a] = Idle

IInv ==
    /\ TypeOK
    /\ Counters
    /\ RunningIsExact
    /\ Balance
    /\ Jobs
    /\ Asked
    /\ Gone
    /\ JoinedIsIdle

-------------------------------------------------------------------------------
\* The pairs that stand for the jobs that are not deferred.
LEMMA ReadyPairs ==
  ASSUME NEW f \in [Types -> Nat], NEW g \in [Types -> Nat]
  PROVE  ReadyOf(f, g) = {p \in Types \X Nat : 1 <= p[2] /\ p[2] <= f[p[1]] - g[p[1]]}
<1>1. ASSUME NEW p \in ReadyOf(f, g)
      PROVE  p \in Types \X Nat /\ 1 <= p[2] /\ p[2] <= f[p[1]] - g[p[1]]
  <2>1. PICK t \in Types : p \in {t} \X (1..(f[t] - g[t]))
    BY <1>1 DEF ReadyOf
  <2>2. p[1] = t /\ p[2] \in 1..(f[t] - g[t]) /\ p = <<p[1], p[2]>>
    BY <2>1
  <2> QED BY <2>2
<1>2. ASSUME NEW p \in Types \X Nat, 1 <= p[2], p[2] <= f[p[1]] - g[p[1]]
      PROVE  p \in ReadyOf(f, g)
  <2>1. p[1] \in Types /\ p[2] \in 1..(f[p[1]] - g[p[1]]) /\ p = <<p[1], p[2]>>
    BY <1>2
  <2>2. p \in {p[1]} \X (1..(f[p[1]] - g[p[1]]))
    BY <2>1
  <2> QED BY <2>1, <2>2 DEF ReadyOf
<1> QED BY <1>1, <1>2

\* The counters h and k leave one more job of type t not deferred than f and g.
OneMore(f, g, h, k, t) ==
    /\ g[t] <= f[t]
    /\ h[t] - k[t] = f[t] - g[t] + 1
    /\ \A u \in Types \ {t} : h[u] - k[u] = f[u] - g[u]

\* One more job that is not deferred is one more pair.
LEMMA ReadyGrows ==
  ASSUME NEW f \in [Types -> Nat], NEW g \in [Types -> Nat], IsFiniteSet(ReadyOf(f, g)),
         NEW h \in [Types -> Nat], NEW k \in [Types -> Nat], NEW t \in Types,
         OneMore(f, g, h, k, t)
  PROVE  IsFiniteSet(ReadyOf(h, k)) /\ Cardinality(ReadyOf(h, k)) = Cardinality(ReadyOf(f, g)) + 1
<1> DEFINE x == <<t, h[t] - k[t]>>
<1>0. /\ g[t] <= f[t]
      /\ h[t] - k[t] = f[t] - g[t] + 1
      /\ \A u \in Types \ {t} : h[u] - k[u] = f[u] - g[u]
  BY DEF OneMore
<1>1. x \notin ReadyOf(f, g)
  BY <1>0, ReadyPairs
<1>2. ASSUME NEW p \in Types \X Nat
      PROVE  (1 <= p[2] /\ p[2] <= h[p[1]] - k[p[1]])
               <=> (1 <= p[2] /\ p[2] <= f[p[1]] - g[p[1]]) \/ p = x
  <2>1. CASE p[1] = t
    <3>1. p = <<t, p[2]>> /\ p[2] \in Nat
      BY <2>1
    <3>2. p = x <=> p[2] = h[t] - k[t]
      BY <3>1
    <3> QED BY <1>0, <2>1, <3>1, <3>2
  <2>2. CASE p[1] # t
    <3>1. p[1] \in Types \ {t} /\ p # x
      BY <2>2
    <3> QED BY <1>0, <3>1
  <2> QED BY <2>1, <2>2
<1>3. x \in Types \X Nat
  BY <1>0
<1>4. ReadyOf(h, k) = ReadyOf(f, g) \cup {x}
  <2>1. ReadyOf(f, g) = {p \in Types \X Nat : 1 <= p[2] /\ p[2] <= f[p[1]] - g[p[1]]}
    BY ReadyPairs
  <2>2. ReadyOf(h, k) = {p \in Types \X Nat : 1 <= p[2] /\ p[2] <= h[p[1]] - k[p[1]]}
    BY ReadyPairs
  <2> HIDE DEF x
  <2>3. ASSUME NEW p PROVE p \in ReadyOf(h, k) <=> p \in ReadyOf(f, g) \cup {x}
    <3>1. CASE p \in Types \X Nat
      BY <3>1, <1>2, <2>1, <2>2
    <3>2. CASE p \notin Types \X Nat
      BY <3>2, <1>3, <2>1, <2>2
    <3> QED BY <3>1, <3>2
  <2> QED BY <2>3
<1> HIDE DEF x
<1> QED BY <1>1, <1>4, FS_AddElement

\* The same differences are the same pairs.
LEMMA ReadySame ==
  ASSUME NEW f \in [Types -> Nat], NEW g \in [Types -> Nat],
         NEW h \in [Types -> Nat], NEW k \in [Types -> Nat],
         \A u \in Types : h[u] - k[u] = f[u] - g[u]
  PROVE  ReadyOf(h, k) = ReadyOf(f, g)
<1>1. \A p \in Types \X Nat : h[p[1]] - k[p[1]] = f[p[1]] - g[p[1]]
  OBVIOUS
<1>2. ReadyOf(f, g) = {p \in Types \X Nat : 1 <= p[2] /\ p[2] <= f[p[1]] - g[p[1]]}
  BY ReadyPairs
<1>3. ReadyOf(h, k) = {p \in Types \X Nat : 1 <= p[2] /\ p[2] <= h[p[1]] - k[p[1]]}
  BY ReadyPairs
<1>4. ASSUME NEW p PROVE p \in ReadyOf(h, k) <=> p \in ReadyOf(f, g)
  BY <1>1, <1>2, <1>3, Zenon
<1> QED BY <1>4

\* queueJob keeps the counters right and adds as many units as jobs that are
\* not deferred.
LEMMA QueueJobKeeps ==
  ASSUME TypeOK, Counters, IsFiniteSet(Ready), NEW t \in Types, queueJob(t)
  PROVE  /\ waiting' \in [Types -> Nat]
         /\ running' = running
         /\ deferred' \in [Types -> Nat]
         /\ m_count' \in Nat
         /\ Counters'
         /\ IsFiniteSet(Ready')
         /\ Cardinality(Ready') - m_count' = Cardinality(Ready) - m_count
         /\ waiting' = [waiting EXCEPT ![t] = @ + 1]
<1>1. /\ waiting' \in [Types -> Nat]
      /\ running' = running
      /\ deferred' \in [Types -> Nat]
      /\ m_count' \in Nat
      /\ waiting' = [waiting EXCEPT ![t] = @ + 1]
  BY DEF queueJob, TypeOK
<1>2. limit \in [Types -> Nat \ {0}]
  BY TypesAssumption
<1>3. Counters'
  <2> SUFFICES ASSUME NEW u \in Types
               PROVE  /\ running'[u] <= limit[u]
                      /\ deferred'[u] = IF waiting'[u] + running'[u] > limit[u]
                                        THEN waiting'[u] + running'[u] - limit[u]
                                        ELSE 0
    BY DEF Counters
  <2>1. /\ limit[u] \in Nat /\ waiting[u] \in Nat /\ running[u] \in Nat /\ deferred[u] \in Nat
        /\ running[u] <= limit[u]
        /\ deferred[u] = IF waiting[u] + running[u] > limit[u]
                         THEN waiting[u] + running[u] - limit[u]
                         ELSE 0
    BY <1>2 DEF TypeOK, Counters
  <2>2. CASE u = t
    BY <1>1, <2>1, <2>2 DEF queueJob, TypeOK
  <2>3. CASE u # t
    BY <1>1, <2>1, <2>3 DEF queueJob, TypeOK
  <2> QED BY <2>2, <2>3
<1>4. Cardinality(Ready) \in Nat
  BY FS_CardinalityType
<1>5. CASE waiting[t] + running[t] < limit[t]
  <2>1. m_count' = m_count + 1 /\ deferred' = deferred
    BY <1>5 DEF queueJob
  <2>2. deferred[t] <= waiting[t]
    BY <1>2, <1>5 DEF TypeOK, Counters
  <2>3. OneMore(waiting, deferred, waiting', deferred', t)
    BY <1>1, <2>1, <2>2 DEF TypeOK, OneMore
  <2>4. waiting \in [Types -> Nat] /\ deferred \in [Types -> Nat] /\ IsFiniteSet(ReadyOf(waiting, deferred))
    BY DEF TypeOK, Ready
  <2>5. waiting' \in [Types -> Nat] /\ deferred' \in [Types -> Nat]
    BY <1>1
  <2>5a. IsFiniteSet(ReadyOf(waiting', deferred')) /\ Cardinality(ReadyOf(waiting', deferred')) = Cardinality(ReadyOf(waiting, deferred)) + 1
    BY <2>3, <2>4, <2>5, ReadyGrows, ZenonT(30)
  <2>6. IsFiniteSet(Ready') /\ Cardinality(Ready') = Cardinality(Ready) + 1
    BY <2>5a DEF Ready
  <2> QED BY <1>1, <1>3, <1>4, <2>1, <2>6 DEF TypeOK
<1>6. CASE ~(waiting[t] + running[t] < limit[t])
  <2>1. m_count' = m_count /\ deferred' = [deferred EXCEPT ![t] = @ + 1]
    BY <1>6 DEF queueJob
  <2>2. \A u \in Types : waiting'[u] - deferred'[u] = waiting[u] - deferred[u]
    BY <1>1, <2>1 DEF TypeOK
  <2>3. /\ waiting \in [Types -> Nat] /\ deferred \in [Types -> Nat]
        /\ waiting' \in [Types -> Nat] /\ deferred' \in [Types -> Nat]
    BY <1>1 DEF TypeOK
  <2>3a. ReadyOf(waiting', deferred') = ReadyOf(waiting, deferred)
    BY <2>2, <2>3, ReadySame, ZenonT(30)
  <2>4. Ready' = Ready
    BY <2>3a DEF Ready
  <2> QED BY <1>1, <1>3, <1>4, <2>1, <2>4 DEF TypeOK
<1> QED BY <1>5, <1>6

\* The sets of workers are finite.
LEMMA WorkersFinite ==
  ASSUME NEW S \in SUBSET Workers
  PROVE  IsFiniteSet(S) /\ Cardinality(S) \in Nat
BY TypesAssumption, FS_Subset, FS_CardinalityType

\* Workers that stay busy, and stay off the semaphore's wake-up, count as before.
LEMMA BusyMove ==
  ASSUME UNCHANGED job,
         \A v \in Workers : /\ at[v] \in Busy <=> at'[v] \in Busy
                            /\ at[v] = "woken" <=> at'[v] = "woken"
  PROVE  Woken' = Woken /\ \A t : With(Busy, t)' = With(Busy, t)
BY DEF Woken, With

\* What is left to show of a step that leaves the counters alone.
LEMMA CountersKept ==
  ASSUME Counters, RunningIsExact, Balance, UNCHANGED queue,
         Woken' = Woken, \A t : With(Busy, t)' = With(Busy, t)
  PROVE  Counters' /\ RunningIsExact' /\ Balance'
<1>1. Ready' = Ready
  BY DEF Ready, ReadyOf, queue
<1> QED BY <1>1, Zenon DEF Counters, RunningIsExact, Balance, TokensMatchJobs, queue

\* The same for a step that queues a job.
LEMMA CountersQueued ==
  ASSUME TypeOK, Counters, RunningIsExact, Balance, NEW t \in Types, queueJob(t),
         Woken' = Woken, \A u : With(Busy, u)' = With(Busy, u)
  PROVE  Counters' /\ RunningIsExact' /\ Balance'
<1>1. /\ running' = running
      /\ m_count' \in Nat
      /\ Counters'
      /\ IsFiniteSet(Ready')
      /\ Cardinality(Ready') - m_count' = Cardinality(Ready) - m_count
  BY QueueJobKeeps DEF Balance
<1>2. RunningIsExact'
  BY <1>1, Zenon DEF RunningIsExact
<1>3. Cardinality(Ready) \in Nat /\ Cardinality(Ready') \in Nat /\ Cardinality(Woken) \in Nat
  BY <1>1, FS_CardinalityType, WorkersFinite DEF Balance, Woken
<1>4. Balance'
  BY <1>1, <1>3 DEF Balance, TokensMatchJobs, TypeOK
<1> QED BY <1>1, <1>2, <1>4

-------------------------------------------------------------------------------
\* The initial state satisfies the invariant.
LEMMA InitIInv == Init => IInv
<1> SUFFICES ASSUME Init PROVE IInv
  OBVIOUS
<1> USE DEF Init
<1>1. TypeOK
  <2>1. at \in [Workers -> Places] /\ job \in [Workers -> Types \cup {NoType}]
    BY DEF Places
  <2>2. stopper \in Stages /\ stopping \in BOOLEAN
    BY DEF Stages
  <2> QED BY <2>1, <2>2 DEF TypeOK
<1>2. limit \in [Types -> Nat \ {0}]
  BY TypesAssumption
<1>3. Counters
  BY <1>2 DEF Counters
<1>4. RunningIsExact
  <2>1. \A t \in Types : With(Busy, t) = {}
    BY DEF With, Busy, InJob
  <2> QED BY <2>1, FS_EmptySet DEF RunningIsExact
<1>5. Balance
  <2>1. \A t \in Types : 1..(waiting[t] - deferred[t]) = {}
    OBVIOUS
  <2>2. Ready = {}
    BY <2>1 DEF Ready, ReadyOf
  <2>3. Woken = {}
    BY DEF Woken
  <2> QED BY <2>2, <2>3, FS_EmptySet DEF Balance, TokensMatchJobs
<1>6. Jobs
  BY TypesAssumption DEF Jobs, Busy, InJob
<1>7. Asked /\ Gone /\ JoinedIsIdle
  BY DEF Asked, Gone, JoinedIsIdle, areChildrenStopped
<1> QED BY <1>1, <1>3, <1>4, <1>5, <1>6, <1>7 DEF IInv

\* The steps of the threads that add jobs.
LEMMA AddersKeep ==
  ASSUME IInv, NEW a \in Threads,
         (\E t \in Types : wrap(a, t)) \/ postCoro(a) \/ post(a) \/ addRefCountedJob(a)
  PROVE  IInv'
<1> USE DEF IInv
<1>1. UNCHANGED <<at, job, awaiting, stopper, stopping>>
  BY DEF wrap, postCoro, post, addRefCountedJob
<1>2. Woken' = Woken /\ \A t : With(Busy, t)' = With(Busy, t)
  BY <1>1, BusyMove
<1>3. Jobs' /\ Asked'
  BY <1>1 DEF Jobs, Asked
<1>4. CASE addRefCountedJob(a)
  <2>1. adding[a].type \in Types /\ queueJob(adding[a].type) /\ adding[a] # Idle
    BY <1>4 DEF addRefCountedJob, TypeOK, Idle
  <2>2. Counters' /\ RunningIsExact' /\ Balance'
    BY <1>2, <2>1, CountersQueued
  <2>3. TypeOK'
    <3>1. /\ waiting' \in [Types -> Nat] /\ running' = running
          /\ deferred' \in [Types -> Nat] /\ m_count' \in Nat
      BY <2>1, QueueJobKeeps DEF Balance
    <3> QED BY <1>1, <1>4, <3>1 DEF addRefCountedJob, TypeOK
  <2>4. stopper \in {"up", "called", "joining"}
    BY <1>4 DEF addRefCountedJob, JoinedIsIdle, NoClosures
  <2>5. Gone' /\ JoinedIsIdle'
    BY <1>1, <2>4 DEF Gone, JoinedIsIdle, areChildrenStopped
  <2> QED BY <1>3, <2>2, <2>3, <2>5
<1>5. CASE (\E t \in Types : wrap(a, t)) \/ postCoro(a) \/ post(a)
  <2>1. UNCHANGED queue
    BY <1>5 DEF wrap, postCoro, post
  <2>2. Counters' /\ RunningIsExact' /\ Balance'
    BY <1>2, <2>1, CountersKept
  <2>3. TypeOK'
    <3>1. CASE \E t \in Types : wrap(a, t)
      BY <1>1, <2>1, <3>1 DEF wrap, TypeOK, queue, Steps
    <3>2. CASE postCoro(a)
      BY <1>1, <2>1, <3>2, TypesAssumption DEF postCoro, TypeOK, queue, Steps
    <3>3. CASE post(a)
      <4>1. adding[a] \in [step : Steps, type : Types]
        BY <3>3 DEF post, TypeOK, Idle
      <4>2. adding' \in [Threads -> {Idle} \cup [step : Steps, type : Types]]
        BY <3>3, <4>1 DEF post, TypeOK, Steps
      <4>3. nSuspend' \in Int /\ added' = added
        BY <3>3 DEF post, TypeOK
      <4> QED BY <1>1, <2>1, <4>2, <4>3 DEF TypeOK, queue
    <3> QED BY <1>5, <3>1, <3>2, <3>3
  <2>4. ~areChildrenStopped
    BY <1>5 DEF wrap, postCoro, post, Gone, Idle
  <2>5. Gone'
    BY <1>1, <2>4 DEF Gone, areChildrenStopped
  <2>6. JoinedIsIdle'
    <3>1. CASE ~waitForClosures
      BY <1>1, <3>1 DEF waitForClosures, JoinedIsIdle
    <3>2. CASE waitForClosures
      <4>1. \A b \in Threads : adding'[b].step = "wrapped" => adding[b].step = "wrapped"
        BY <1>5, <3>2 DEF wrap, postCoro, post, TypeOK, Idle
      <4> QED BY <1>1, <2>1, <4>1 DEF JoinedIsIdle, NoClosures, NothingWaits, queue
    <3> QED BY <3>1, <3>2
  <2> QED BY <1>3, <2>2, <2>3, <2>5, <2>6
<1> QED BY <1>4, <1>5

\* A step of the thread that stops the program.
LEMMA StopperKeeps ==
  ASSUME IInv, stopAsync \/ join \/ childrenStop \/ onChildrenStopped \/ stopReturns
  PROVE  IInv'
<1> USE DEF IInv
<1>1. UNCHANGED <<queue, at, job, adding, nSuspend, awaiting, added>>
  BY DEF stopAsync, join, childrenStop, onChildrenStopped, stopReturns
<1>2. Woken' = Woken /\ \A t : With(Busy, t)' = With(Busy, t)
  BY <1>1, BusyMove
<1>3. Counters' /\ RunningIsExact' /\ Balance'
  BY <1>1, <1>2, CountersKept
<1>4. stopper' \in Stages /\ stopping' \in BOOLEAN
  BY DEF stopAsync, join, childrenStop, onChildrenStopped, stopReturns, checkStopped, TypeOK, Stages
<1>5. TypeOK'
  BY <1>1, <1>4 DEF TypeOK, queue
<1>6. Jobs' /\ Asked'
  BY <1>1 DEF Jobs, Asked
<1>7. Gone'
  BY <1>1 DEF stopAsync, join, childrenStop, onChildrenStopped, stopReturns, Gone, areChildrenStopped
<1>8. JoinedIsIdle'
  BY <1>1 DEF stopAsync, join, childrenStop, onChildrenStopped, stopReturns, JoinedIsIdle, NoClosures, NothingWaits, queue
<1> QED BY <1>3, <1>5, <1>6, <1>7, <1>8

\* A worker takes a unit of the semaphore.
LEMMA WaitKeeps ==
  ASSUME IInv, NEW w \in Workers, wait(w)
  PROVE  IInv'
<1> USE DEF IInv
<1>1. UNCHANGED <<waiting, running, deferred, job, adding, nSuspend, awaiting, stopper, stopping, added>>
  BY DEF wait
<1>2. /\ m_count' = m_count - 1 /\ m_count' \in Nat
      /\ at' \in [Workers -> Places]
      /\ \A v \in Workers : at'[v] = IF v = w THEN "woken" ELSE at[v]
  BY DEF wait, TypeOK, Places
<1>3. at[w] = "semaphore"
  BY DEF wait
<1>4. TypeOK'
  BY <1>1, <1>2 DEF TypeOK
<1>5. Woken' = Woken \cup {w} /\ w \notin Woken
  BY <1>2, <1>3 DEF Woken
<1>6. \A v \in Workers : at'[v] \in Busy <=> at[v] \in Busy
  BY <1>2, <1>3 DEF Busy, InJob
<1>7. \A t : With(Busy, t)' = With(Busy, t)
  BY <1>1, <1>6 DEF With
<1>8. Counters' /\ RunningIsExact'
  BY <1>1, <1>7, Zenon DEF Counters, RunningIsExact
<1>9. Balance'
  <2>1. Ready' = Ready
    BY <1>1 DEF Ready, ReadyOf
  <2>2. Cardinality(Woken') = Cardinality(Woken) + 1 /\ Cardinality(Woken) \in Nat
    BY <1>5, WorkersFinite, FS_AddElement DEF Woken
  <2>3. Cardinality(Ready) \in Nat
    BY FS_CardinalityType DEF Balance
  <2> QED BY <1>2, <2>1, <2>2, <2>3 DEF Balance, TokensMatchJobs, TypeOK
<1>10. Jobs' /\ Asked' /\ Gone'
  BY <1>1, <1>2, <1>6 DEF Jobs, Asked, Gone, areChildrenStopped
<1>11. JoinedIsIdle'
  BY <1>1, <1>2 DEF JoinedIsIdle, NoClosures, NothingWaits, InJob
<1> QED BY <1>4, <1>8, <1>9, <1>10, <1>11

\* A job that goes from waiting to running leaves as many deferred
\* (JobQueue::getNextJob).
LEMMA DeferredSame ==
  ASSUME NEW l \in Nat, NEW n \in Nat, NEW r \in Nat, NEW d \in Nat,
         d = IF n + r > l THEN n + r - l ELSE 0
  PROVE  d = IF (n - 1) + (r + 1) > l THEN (n - 1) + (r + 1) - l ELSE 0
OBVIOUS

\* A woken worker takes a job.
LEMMA GetNextJobKeeps ==
  ASSUME IInv, NEW w \in Workers, getNextJob(w)
  PROVE  IInv'
<1> USE DEF IInv
<1>1. PICK t \in Eligible :
        /\ waiting' = [waiting EXCEPT ![t] = @ - 1]
        /\ running' = [running EXCEPT ![t] = @ + 1]
        /\ job' = [job EXCEPT ![w] = t]
  BY DEF getNextJob
<1>2. /\ at[w] = "woken" /\ at' = [at EXCEPT ![w] = "running"]
      /\ UNCHANGED <<deferred, m_count, adding, nSuspend, awaiting, stopper, stopping, added>>
  BY DEF getNextJob
<1>3. t \in Types /\ waiting[t] > 0 /\ running[t] < limit[t]
  BY DEF Eligible
<1>4. limit \in [Types -> Nat \ {0}]
  BY TypesAssumption
<1>5. TypeOK'
  BY <1>1, <1>2, <1>3 DEF TypeOK, Places, Busy, InJob
<1>6. Counters'
  <2> SUFFICES ASSUME NEW u \in Types
               PROVE  /\ running'[u] <= limit[u]
                      /\ deferred'[u] = IF waiting'[u] + running'[u] > limit[u]
                                        THEN waiting'[u] + running'[u] - limit[u]
                                        ELSE 0
    BY DEF Counters
  <2>1. /\ limit[u] \in Nat /\ waiting[u] \in Nat /\ running[u] \in Nat /\ deferred[u] \in Nat
        /\ running[u] <= limit[u]
        /\ deferred[u] = IF waiting[u] + running[u] > limit[u]
                         THEN waiting[u] + running[u] - limit[u]
                         ELSE 0
    BY <1>4 DEF TypeOK, Counters
  <2>2. deferred'[u] = deferred[u]
    BY <1>2
  <2>3. CASE u = t
    <3>1. waiting'[u] = waiting[u] - 1 /\ running'[u] = running[u] + 1
      BY <1>1, <1>3, <2>3 DEF TypeOK
    <3>2. running[u] < limit[u]
      BY <1>3, <2>3
    <3>3. running[u] + 1 <= limit[u]
      BY <2>1, <3>2
    <3>4. deferred[u] = IF (waiting[u] - 1) + (running[u] + 1) > limit[u]
                        THEN (waiting[u] - 1) + (running[u] + 1) - limit[u]
                        ELSE 0
      BY <2>1, DeferredSame
    <3> QED BY <2>2, <3>1, <3>3, <3>4
  <2>4. CASE u # t
    <3>1. waiting'[u] = waiting[u] /\ running'[u] = running[u]
      BY <1>1, <1>3, <2>4 DEF TypeOK
    <3> QED BY <2>1, <2>2, <3>1
  <2> QED BY <2>3, <2>4
<1>7. RunningIsExact'
  <2> SUFFICES ASSUME NEW u \in Types PROVE running'[u] = Cardinality(With(Busy, u)')
    BY DEF RunningIsExact
  <2>0. running[u] = Cardinality(With(Busy, u)) /\ IsFiniteSet(With(Busy, u))
    BY WorkersFinite DEF RunningIsExact, With
  <2>1. job[w] \notin Types
    BY <1>2 DEF Jobs, Busy, InJob
  <2>2. CASE u = t
    <3>1. With(Busy, u)' = With(Busy, u) \cup {w} /\ w \notin With(Busy, u)
      BY <1>1, <1>2, <2>1, <2>2 DEF With, TypeOK, Busy, InJob
    <3>2. running'[u] = running[u] + 1
      BY <1>1, <1>3, <2>2 DEF TypeOK
    <3> QED BY <2>0, <3>1, <3>2, FS_AddElement
  <2>3. CASE u # t
    <3>1. With(Busy, u)' = With(Busy, u)
      BY <1>1, <1>2, <2>1, <2>3 DEF With, TypeOK, Busy, InJob
    <3>2. running'[u] = running[u]
      BY <1>1, <1>3, <2>3 DEF TypeOK
    <3> QED BY <2>0, <3>1, <3>2
  <2> QED BY <2>2, <2>3
<1>8. Balance'
  <2>1. deferred[t] <= waiting[t] - 1
    BY <1>3, <1>4 DEF Counters, TypeOK
  <2>2. OneMore(waiting', deferred', waiting, deferred, t)
    BY <1>1, <1>2, <1>3, <2>1 DEF OneMore, TypeOK
  <2>3. /\ waiting \in [Types -> Nat] /\ deferred \in [Types -> Nat]
        /\ waiting' \in [Types -> Nat] /\ deferred' \in [Types -> Nat]
    BY <1>5 DEF TypeOK
  <2>4. IsFiniteSet(ReadyOf(waiting', deferred'))
    <3>1. \A u \in Types : waiting'[u] - deferred'[u] <= waiting[u] - deferred[u]
      BY <1>1, <1>2, <1>3 DEF TypeOK
    <3>2. \A q \in Types \X Nat : q[1] \in Types /\ q[2] \in Nat
      OBVIOUS
    <3>3. ReadyOf(waiting, deferred) = {q \in Types \X Nat : 1 <= q[2] /\ q[2] <= waiting[q[1]] - deferred[q[1]]}
      BY <2>3, ReadyPairs
    <3>4. ReadyOf(waiting', deferred') = {q \in Types \X Nat : 1 <= q[2] /\ q[2] <= waiting'[q[1]] - deferred'[q[1]]}
      BY <2>3, ReadyPairs
    <3>5. ASSUME NEW q \in Types \X Nat, q[2] <= waiting'[q[1]] - deferred'[q[1]]
          PROVE  q[2] <= waiting[q[1]] - deferred[q[1]]
      BY <2>3, <3>1, <3>2, <3>5
    <3>6. ReadyOf(waiting', deferred') \subseteq ReadyOf(waiting, deferred)
      BY <3>3, <3>4, <3>5
    <3> QED BY <3>6, FS_Subset DEF Balance, Ready
  <2>5. Cardinality(ReadyOf(waiting, deferred)) = Cardinality(ReadyOf(waiting', deferred')) + 1
    BY <1>3, <2>2, <2>3, <2>4, ReadyGrows, Zenon
  <2>6. Woken' = Woken \ {w} /\ w \in Woken
    BY <1>2 DEF Woken, TypeOK
  <2>7. Cardinality(Woken') = Cardinality(Woken) - 1 /\ Cardinality(Woken) \in Nat
    BY <2>6, WorkersFinite, FS_RemoveElement DEF Woken
  <2>8. Cardinality(ReadyOf(waiting', deferred')) \in Nat
    BY <2>4, FS_CardinalityType
  <2> QED BY <1>2, <2>4, <2>5, <2>7, <2>8 DEF Balance, TokensMatchJobs, Ready, TypeOK
<1>9. Jobs'
  BY <1>1, <1>2, <1>3 DEF Jobs, TypeOK, Busy, InJob
<1>10. Asked' /\ Gone'
  BY <1>2 DEF Asked, Gone, areChildrenStopped
<1>11. JoinedIsIdle'
  BY <1>2, <1>3 DEF JoinedIsIdle, NoClosures, NothingWaits
<1> QED BY <1>5, <1>6, <1>7, <1>8, <1>9, <1>10, <1>11

\* A type has a job that may run next, fewer of its jobs running than its limit,
\* when not all that wait are deferred (JobQueue::getNextJob, addRefCountedJob).
LEMMA NotAllDeferred ==
  ASSUME NEW l \in Nat, NEW n \in Nat, NEW r \in Nat, NEW d \in Nat, r <= l, l # 0,
         d = IF n + r > l THEN n + r - l ELSE 0
  PROVE  (n > 0 /\ r < l) <=> n - d >= 1
OBVIOUS

\* With one job less running, one job less is deferred, if any was
\* (JobQueue::finishJob).
LEMMA DeferredLess ==
  ASSUME NEW l \in Nat, NEW n \in Nat, NEW r \in Nat, NEW d \in Nat, r > 0, r <= l,
         d = IF n + r > l THEN n + r - l ELSE 0
  PROVE  (IF d > 0 THEN d - 1 ELSE d) = IF n + (r - 1) > l THEN n + (r - 1) - l ELSE 0
OBVIOUS

\* A worker finishes its job and lets a deferred one through.
LEMMA FinishJobKeeps ==
  ASSUME IInv, NEW w \in Workers, finishJob(w)
  PROVE  IInv'
<1> USE DEF IInv
<1> DEFINE t == job[w]
<1>1. /\ at[w] = "finishing"
      /\ IF deferred[t] > 0
         THEN deferred' = [deferred EXCEPT ![t] = @ - 1] /\ m_count' = m_count + 1
         ELSE deferred' = deferred /\ m_count' = m_count
      /\ running' = [running EXCEPT ![t] = @ - 1]
      /\ at' = [at EXCEPT ![w] = "semaphore"]
      /\ job' = [job EXCEPT ![w] = NoType]
      /\ UNCHANGED <<waiting, adding, nSuspend, awaiting, stopper, added>>
  BY DEF finishJob
<1>2. stopping' \in BOOLEAN
  BY DEF finishJob, checkStopped, TypeOK
<1>3. t \in Types
  BY <1>1 DEF Jobs, Busy
<1>4. limit \in [Types -> Nat \ {0}] /\ NoType \notin Types
  BY TypesAssumption
<1>5. w \in With(Busy, t) /\ IsFiniteSet(With(Busy, t))
  BY <1>1, WorkersFinite DEF With, Busy
<1>6. running[t] = Cardinality(With(Busy, t)) /\ Cardinality(With(Busy, t) \ {w}) = Cardinality(With(Busy, t)) - 1
  BY <1>3, <1>5, FS_RemoveElement DEF RunningIsExact
<1>7. running[t] > 0
  <2>1. Cardinality(With(Busy, t) \ {w}) \in Nat
    BY <1>5, FS_RemoveElement, FS_CardinalityType
  <2> QED BY <1>3, <1>6, <2>1 DEF TypeOK
<1>8. TypeOK'
  <2>1. running' \in [Types -> Nat]
    BY <1>1, <1>3, <1>7 DEF TypeOK
  <2>2. deferred' \in [Types -> Nat] /\ m_count' \in Nat
    BY <1>1, <1>3 DEF TypeOK
  <2>3. at' \in [Workers -> Places] /\ job' \in [Workers -> Types \cup {NoType}]
    BY <1>1 DEF TypeOK, Places
  <2> QED BY <1>1, <1>2, <2>1, <2>2, <2>3 DEF TypeOK
<1>9. Counters'
  <2> SUFFICES ASSUME NEW u \in Types
               PROVE  /\ running'[u] <= limit[u]
                      /\ deferred'[u] = IF waiting'[u] + running'[u] > limit[u]
                                        THEN waiting'[u] + running'[u] - limit[u]
                                        ELSE 0
    BY DEF Counters
  <2>1. /\ limit[u] \in Nat /\ waiting[u] \in Nat /\ running[u] \in Nat /\ deferred[u] \in Nat
        /\ running[u] <= limit[u]
        /\ deferred[u] = IF waiting[u] + running[u] > limit[u]
                         THEN waiting[u] + running[u] - limit[u]
                         ELSE 0
    BY <1>4 DEF TypeOK, Counters
  <2>2. waiting'[u] = waiting[u]
    BY <1>1
  <2>3. CASE u = t
    <3>1. running'[u] = running[u] - 1
      BY <1>1, <1>3, <2>3 DEF TypeOK
    <3>2. deferred'[u] = IF deferred[u] > 0 THEN deferred[u] - 1 ELSE deferred[u]
      BY <1>1, <1>3, <2>3 DEF TypeOK
    <3>3. running[u] > 0
      BY <1>7, <2>3
    <3> HIDE DEF t
    <3>4. running[u] - 1 <= limit[u]
      BY <2>1
    <3>5. (IF deferred[u] > 0 THEN deferred[u] - 1 ELSE deferred[u])
            = IF waiting[u] + (running[u] - 1) > limit[u] THEN waiting[u] + (running[u] - 1) - limit[u] ELSE 0
      BY <2>1, <3>3, DeferredLess
    <3> QED BY <2>2, <3>1, <3>2, <3>4, <3>5
  <2>4. CASE u # t
    <3>1. running'[u] = running[u] /\ deferred'[u] = deferred[u]
      BY <1>1, <1>3, <2>4 DEF TypeOK
    <3> QED BY <2>1, <2>2, <3>1
  <2> QED BY <2>3, <2>4
<1>10. RunningIsExact'
  <2> SUFFICES ASSUME NEW u \in Types PROVE running'[u] = Cardinality(With(Busy, u)')
    BY DEF RunningIsExact
  <2>1. CASE u = t
    <3>1. With(Busy, u)' = With(Busy, t) \ {w}
      BY <1>1, <2>1 DEF With, TypeOK, Busy, InJob
    <3>2. running'[u] = running[t] - 1
      BY <1>1, <1>3, <2>1 DEF TypeOK
    <3> QED BY <1>6, <3>1, <3>2
  <2>2. CASE u # t
    <3>1. With(Busy, u)' = With(Busy, u)
      BY <1>1, <1>4, <2>2 DEF With, TypeOK, Busy, InJob
    <3>2. running'[u] = running[u]
      BY <1>1, <1>3, <2>2 DEF TypeOK
    <3> QED BY <3>1, <3>2 DEF RunningIsExact
  <2> QED BY <2>1, <2>2
<1>11. Woken' = Woken
  BY <1>1 DEF Woken, TypeOK
<1>12. Balance'
  <2>1. /\ waiting \in [Types -> Nat] /\ deferred \in [Types -> Nat]
        /\ waiting' \in [Types -> Nat] /\ deferred' \in [Types -> Nat]
    BY <1>8 DEF TypeOK
  <2>2. Cardinality(Woken) \in Nat /\ Cardinality(Ready) \in Nat
    BY WorkersFinite, FS_CardinalityType DEF Woken, Balance
  <2>3. CASE deferred[t] > 0
    <3>1. deferred' = [deferred EXCEPT ![t] = @ - 1] /\ m_count' = m_count + 1
      BY <1>1, <2>3
    <3>2. deferred[t] <= waiting[t]
      BY <1>3, <1>4 DEF Counters, TypeOK
    <3>3. OneMore(waiting, deferred, waiting', deferred', t)
      BY <1>1, <1>3, <2>1, <2>3, <3>1, <3>2 DEF OneMore
    <3>4. IsFiniteSet(ReadyOf(waiting, deferred))
      BY DEF Balance, Ready
    <3> HIDE DEF t
    <3>5. IsFiniteSet(ReadyOf(waiting', deferred')) /\ Cardinality(ReadyOf(waiting', deferred')) = Cardinality(ReadyOf(waiting, deferred)) + 1
      BY <1>3, <2>1, <3>3, <3>4, ReadyGrows, ZenonT(30)
    <3>6. IsFiniteSet(Ready') /\ Cardinality(Ready') = Cardinality(Ready) + 1
      BY <3>5 DEF Ready
    <3> QED BY <1>11, <2>2, <3>1, <3>6 DEF Balance, TokensMatchJobs, TypeOK
  <2>4. CASE ~(deferred[t] > 0)
    <3>1. Ready' = Ready /\ m_count' = m_count
      BY <1>1, <2>4 DEF Ready, ReadyOf
    <3> QED BY <1>11, <3>1 DEF Balance, TokensMatchJobs
  <2> QED BY <2>3, <2>4
<1>13. Jobs'
  BY <1>1, <1>4 DEF Jobs, TypeOK, Busy, InJob
<1>14. Asked' /\ Gone'
  BY <1>1 DEF Asked, Gone, areChildrenStopped
<1>15. JoinedIsIdle'
  BY <1>1 DEF JoinedIsIdle, NoClosures, NothingWaits, InJob, TypeOK
<1> QED BY <1>8, <1>9, <1>10, <1>12, <1>13, <1>14, <1>15

\* The steps of a job that neither start nor finish it.
LEMMA JobStepsKeep ==
  ASSUME IInv, NEW w \in Workers,
         resume(w) \/ makeLegacyPathRequest(w) \/ yield(w) \/ shouldCancel(w) \/ updateComplete(w) \/ doJob(w)
  PROVE  IInv'
<1> USE DEF IInv
<1>1. UNCHANGED <<job, adding, stopper, stopping>>
  BY DEF resume, makeLegacyPathRequest, yield, shouldCancel, updateComplete, doJob
<1>2. at[w] \in InJob
  BY DEF resume, makeLegacyPathRequest, yield, shouldCancel, updateComplete, doJob, InJob
<1>3. /\ at' \in [Workers -> Places]
      /\ \A v \in Workers : at'[v] # at[v] => at[v] \in InJob /\ at'[v] \in Busy
  <2>1. CASE updateComplete(w)
    <3>1. \/ at' = [at EXCEPT ![w] = "running"]
          \/ \E v \in Workers : at[v] = "asking" /\ at' = [at EXCEPT ![w] = "running", ![v] = "answered"]
      BY <2>1 DEF updateComplete
    <3> QED BY <1>2, <3>1 DEF TypeOK, Places, Busy, InJob
  <2>2. CASE ~updateComplete(w)
    <3>1. \E p \in Busy : at' = [at EXCEPT ![w] = p]
      BY <2>2 DEF resume, makeLegacyPathRequest, yield, shouldCancel, doJob, Busy, InJob
    <3> QED BY <1>2, <3>1 DEF TypeOK, Places
  <2> QED BY <2>1, <2>2
<1>4. Woken' = Woken /\ \A t : With(Busy, t)' = With(Busy, t)
  <2>1. \A v \in Workers : /\ at[v] \in Busy <=> at'[v] \in Busy
                           /\ at[v] = "woken" <=> at'[v] = "woken"
    BY <1>3 DEF Busy, InJob
  <2> QED BY <1>1, <2>1, BusyMove
<1>5. UNCHANGED queue \/ \E t \in Types : queueJob(t)
  <2>1. CASE updateComplete(w) /\ ~UNCHANGED queue
    BY <2>1 DEF updateComplete, Asked
  <2>2. CASE makeLegacyPathRequest(w) /\ ~UNCHANGED queue
    BY <2>2, TypesAssumption DEF makeLegacyPathRequest
  <2>3. CASE resume(w) \/ yield(w) \/ shouldCancel(w) \/ doJob(w)
    BY <2>3 DEF resume, yield, shouldCancel, doJob
  <2> QED BY <2>1, <2>2, <2>3
<1>6. Counters' /\ RunningIsExact' /\ Balance'
  BY <1>4, <1>5, CountersKept, CountersQueued
<1>7. awaiting' \in Nat /\ nSuspend' \in Int /\ added' \in Nat
  <2>1. awaiting \in Nat /\ nSuspend \in Int /\ added \in Nat
    BY DEF TypeOK
  <2>2. \/ awaiting' = awaiting
        \/ awaiting' = awaiting + 1
        \/ awaiting > 0 /\ awaiting' = awaiting - 1
    BY DEF resume, makeLegacyPathRequest, yield, shouldCancel, updateComplete, doJob
  <2>3. nSuspend' = nSuspend \/ nSuspend' = nSuspend + 1 \/ nSuspend' = nSuspend - 1
    BY DEF resume, makeLegacyPathRequest, yield, shouldCancel, updateComplete, doJob
  <2>4. added' = added \/ added' = added + 1
    BY DEF resume, makeLegacyPathRequest, yield, shouldCancel, updateComplete, doJob
  <2>5. awaiting' \in Nat
    BY <2>1, <2>2
  <2>6. nSuspend' \in Int /\ added' \in Nat
    BY <2>1, <2>3, <2>4
  <2> QED BY <2>5, <2>6
<1>8. TypeOK'
  <2>1. /\ waiting' \in [Types -> Nat] /\ running' \in [Types -> Nat]
        /\ deferred' \in [Types -> Nat] /\ m_count' \in Nat
    <3>1. CASE UNCHANGED queue
      BY <3>1 DEF TypeOK, queue
    <3>2. ASSUME NEW t \in Types, queueJob(t) PROVE <2>1
      BY <3>2, QueueJobKeeps DEF Balance, TypeOK
    <3> QED BY <1>5, <3>1, <3>2
  <2> QED BY <1>1, <1>3, <1>7, <2>1 DEF TypeOK
<1>9. Jobs'
  <2>1. ASSUME NEW v \in Workers
        PROVE  /\ job[v] \in Types <=> at'[v] \in Busy
               /\ at'[v] \in {"resumed", "asking", "answered"} => job[v] = ClientType
    <3>1. at[v] \in Busy <=> at'[v] \in Busy
      BY <1>3 DEF Busy
    <3>2. at'[v] \in {"resumed", "asking", "answered"} => job[v] = ClientType
      <4>1. CASE at'[v] = at[v]
        BY <4>1 DEF Jobs
      <4>2. CASE at'[v] # at[v]
        BY <4>2 DEF Jobs, TypeOK, resume, makeLegacyPathRequest, yield, shouldCancel, updateComplete, doJob
      <4> QED BY <4>1, <4>2
    <3> QED BY <3>1, <3>2 DEF Jobs
  <2> QED BY <1>1, <2>1 DEF Jobs
<1>10. Asked'
  <2>1. CASE makeLegacyPathRequest(w)
    <3>1. job[w] \in Types /\ job[w] = ClientType
      BY <2>1 DEF makeLegacyPathRequest, Jobs, Busy, InJob
    <3> QED BY <3>1 DEF Asked
  <2>2. CASE ~makeLegacyPathRequest(w)
    <3>1. awaiting' > 0 => awaiting > 0
      BY <2>2 DEF resume, yield, shouldCancel, updateComplete, doJob, TypeOK
    <3> QED BY <3>1 DEF Asked
  <2> QED BY <2>1, <2>2
<1>11. Gone'
  BY <1>1 DEF Gone, areChildrenStopped
<1>12. JoinedIsIdle'
  BY <1>1, <1>2 DEF JoinedIsIdle, NoClosures
<1> QED BY <1>6, <1>8, <1>9, <1>10, <1>11, <1>12

\* Every step keeps the invariant.
LEMMA NextIInv == IInv /\ [Next]_vars => IInv'
<1> SUFFICES ASSUME IInv, [Next]_vars PROVE IInv'
  OBVIOUS
<1>1. CASE \E a \in Threads, t \in Types : wrap(a, t)
  BY <1>1, AddersKeep
<1>2. CASE \E a \in Threads : postCoro(a) \/ post(a) \/ addRefCountedJob(a)
  BY <1>2, AddersKeep
<1>3. CASE \E w \in Workers : wait(w)
  BY <1>3, WaitKeeps
<1>4. CASE \E w \in Workers : getNextJob(w)
  BY <1>4, GetNextJobKeeps
<1>5. CASE \E w \in Workers : \/ resume(w) \/ makeLegacyPathRequest(w) \/ yield(w) \/ shouldCancel(w)
                             \/ updateComplete(w) \/ doJob(w)
  BY <1>5, JobStepsKeep
<1>6. CASE \E w \in Workers : finishJob(w)
  BY <1>6, FinishJobKeeps
<1>7. CASE stopAsync \/ join \/ childrenStop \/ onChildrenStopped \/ stopReturns
  BY <1>7, StopperKeeps
<1>8. CASE UNCHANGED vars
  <2>1. UNCHANGED queue /\ UNCHANGED <<at, job, adding, nSuspend, awaiting, stopper, stopping, added>>
    BY <1>8 DEF vars, queue
  <2>2. Woken' = Woken /\ \A t : With(Busy, t)' = With(Busy, t)
    BY <2>1, BusyMove
  <2>3. Counters' /\ RunningIsExact' /\ Balance'
    BY <2>1, <2>2, CountersKept DEF IInv
  <2>4. TypeOK' /\ Jobs' /\ Asked' /\ Gone'
    BY <2>1 DEF IInv, TypeOK, Jobs, Asked, Gone, areChildrenStopped, queue
  <2>5. JoinedIsIdle'
    BY <2>1 DEF IInv, JoinedIsIdle, NoClosures, NothingWaits, queue
  <2> QED BY <2>3, <2>4, <2>5 DEF IInv
<1> QED BY <1>1, <1>2, <1>3, <1>4, <1>5, <1>6, <1>7, <1>8 DEF Next

\* The invariant is one.
LEMMA IInvAlways == Spec => []IInv
<1> QED BY InitIInv, NextIInv, PTL DEF Spec

\* With the counters exact, a unit is there for a job exactly when a job may
\* be taken.
LEMMA Claims == IInv => WorkIsClaimed
<1> SUFFICES ASSUME IInv PROVE WorkIsClaimed
  OBVIOUS
<1> USE DEF IInv
<1>1. limit \in [Types -> Nat \ {0}]
  BY TypesAssumption
<1>2. waiting \in [Types -> Nat] /\ deferred \in [Types -> Nat] /\ running \in [Types -> Nat] /\ m_count \in Nat
  BY DEF TypeOK
<1>3. \A t \in Types : t \in Eligible <=> waiting[t] - deferred[t] >= 1
  <2> SUFFICES ASSUME NEW t \in Types PROVE t \in Eligible <=> waiting[t] - deferred[t] >= 1
    OBVIOUS
  <2>1. /\ limit[t] \in Nat \ {0} /\ waiting[t] \in Nat /\ running[t] \in Nat /\ deferred[t] \in Nat
        /\ running[t] <= limit[t]
        /\ deferred[t] = IF waiting[t] + running[t] > limit[t]
                         THEN waiting[t] + running[t] - limit[t]
                         ELSE 0
    BY <1>1, <1>2 DEF Counters
  <2>2. t \in Eligible <=> waiting[t] > 0 /\ running[t] < limit[t]
    BY DEF Eligible
  <2>3. (waiting[t] > 0 /\ running[t] < limit[t]) <=> waiting[t] - deferred[t] >= 1
    BY <2>1, NotAllDeferred
  <2> QED BY <2>2, <2>3
<1>4. Ready = {p \in Types \X Nat : 1 <= p[2] /\ p[2] <= waiting[p[1]] - deferred[p[1]]}
  BY <1>2, ReadyPairs DEF Ready
<1>5. Eligible # {} <=> Ready # {}
  <2>1. ASSUME NEW t \in Eligible PROVE <<t, 1>> \in Ready
    <3>1. t \in Types /\ waiting[t] - deferred[t] >= 1
      BY <1>3 DEF Eligible
    <3> QED BY <1>2, <1>4, <3>1
  <2>2. ASSUME NEW p \in Ready PROVE p[1] \in Eligible
    <3>1. p[1] \in Types /\ p[2] \in Nat /\ 1 <= p[2] /\ p[2] <= waiting[p[1]] - deferred[p[1]]
      BY <1>4
    <3> QED BY <1>2, <1>3, <3>1
  <2> QED BY <2>1, <2>2
<1>6. Cardinality(Ready) \in Nat /\ (Cardinality(Ready) = 0 <=> Ready = {})
  BY FS_CardinalityType, FS_EmptySet DEF Balance
<1>7. Cardinality(Woken) \in Nat /\ (Cardinality(Woken) = 0 <=> Woken = {})
  BY WorkersFinite, FS_EmptySet DEF Woken
<1>8. m_count + Cardinality(Woken) = Cardinality(Ready)
  BY DEF Balance, TokensMatchJobs
<1> QED BY <1>2, <1>5, <1>6, <1>7, <1>8 DEF WorkIsClaimed

\* The semaphore's units and the jobs that are not deferred agree
\* (JobQueue::queueJob, finishJob, Worker::run), for any number of workers,
\* adding threads, types and limits.
THEOREM TokensAlwaysMatch == Spec => []TokensMatchJobs
<1>1. IInv => TokensMatchJobs
  BY DEF IInv, Balance
<1> QED BY <1>1, IInvAlways, PTL

\* The counters of every type are exact and within the limit, so the asserts of
\* getNextJob and finishJob never fail.
THEOREM LimitsAlwaysHold == Spec => []LimitsHold
<1>1. IInv => LimitsHold
  BY DEF IInv, Counters, RunningIsExact, LimitsHold
<1> QED BY <1>1, IInvAlways, PTL

\* A woken worker always finds a job, and a job that may run is never left
\* without a unit or a woken worker.
THEOREM WorkNeverStranded == Spec => []WorkIsClaimed
<1> QED BY Claims, IInvAlways, PTL

\* After the closure counter has been joined the queue is empty and stays so.
THEOREM JoinEmptiesTheQueue == Spec => []JoinedIsIdle
<1>1. IInv => JoinedIsIdle
  BY DEF IInv
<1> QED BY <1>1, IInvAlways, PTL

-------------------------------------------------------------------------------
\* The coroutines that nSuspend_ counts, and those it does not count yet.
Posting == {a \in Threads : adding[a].step # "idle" /\ adding[a].type = ClientType}
Queued == IF ClientType = NoType THEN 0 ELSE waiting[ClientType]
Starting == With({"running"}, ClientType)
Yielding == {w \in Workers : at[w] \in {"asking", "answered"}}

\* Only a coroutine is created before it is wrapped, and only a path job answers.
Roles ==
    /\ \A a \in Threads : adding[a].step = "created" => adding[a].type = ClientType
    /\ \A w \in Workers : at[w] = "updating" => job[w] = PathType

\* StoppedIsQuiet without what follows from the other invariants.
Quiet ==
    stopping => areChildrenStopped /\ NothingWaits /\ NothingRuns(at) /\ nSuspend = 0

SInv == SuspendIsExact /\ Roles /\ Quiet

\* What a thread adds is read back field by field.
LEMMA EntryFields ==
  ASSUME NEW x, NEW s, NEW t, x = [step |-> s, type |-> t]
  PROVE  x.step = s /\ x.type = t
OBVIOUS

\* The sets that SuspendIsExact counts are finite.
LEMMA CountsAreNat ==
  ASSUME TypeOK
  PROVE  /\ IsFiniteSet(Posting) /\ Cardinality(Posting) \in Nat
         /\ Queued \in Nat
         /\ IsFiniteSet(Starting) /\ Cardinality(Starting) \in Nat
         /\ IsFiniteSet(Yielding) /\ Cardinality(Yielding) \in Nat
<1>1. Posting \subseteq Threads /\ Starting \subseteq Workers /\ Yielding \subseteq Workers
  BY DEF Posting, Starting, Yielding, With
<1>2. IsFiniteSet(Threads) /\ IsFiniteSet(Workers)
  BY TypesAssumption
<1>3. Queued \in Nat
  BY TypesAssumption DEF Queued, TypeOK
<1> QED BY <1>1, <1>2, <1>3, FS_Subset, FS_CardinalityType

\* What is left of SuspendIsExact once the change of each count is known.
LEMMA Recount ==
  ASSUME TypeOK, SuspendIsExact,
         nSuspend' - nSuspend = (Cardinality(Posting') - Cardinality(Posting)) + (Queued' - Queued)
                                  + (Cardinality(Starting') - Cardinality(Starting))
                                  + (awaiting' - awaiting)
                                  - (Cardinality(Yielding') - Cardinality(Yielding)),
         nSuspend' \in Int, awaiting' \in Nat, Queued' \in Nat,
         Cardinality(Posting') \in Nat, Cardinality(Starting') \in Nat, Cardinality(Yielding') \in Nat
  PROVE  SuspendIsExact'
<1>1. nSuspend = Cardinality(Posting) + Queued + Cardinality(Starting) + awaiting - Cardinality(Yielding)
  BY DEF SuspendIsExact, Posting, Queued, Starting, Yielding
<1>2. nSuspend' = Cardinality(Posting') + Queued' + Cardinality(Starting') + awaiting' - Cardinality(Yielding')
  BY <1>1, CountsAreNat DEF TypeOK
<1> QED BY <1>2 DEF SuspendIsExact, Posting, Queued, Starting, Yielding

\* The primed counts are natural numbers too.
LEMMA CountsStayNat ==
  ASSUME TypeOK'
  PROVE  /\ Queued' \in Nat /\ nSuspend' \in Int /\ awaiting' \in Nat
         /\ Cardinality(Posting') \in Nat /\ Cardinality(Starting') \in Nat /\ Cardinality(Yielding') \in Nat
<1>1. Posting' \subseteq Threads /\ Starting' \subseteq Workers /\ Yielding' \subseteq Workers
  BY DEF Posting, Starting, Yielding, With
<1>2. IsFiniteSet(Threads) /\ IsFiniteSet(Workers)
  BY TypesAssumption
<1>3. Queued' \in Nat /\ nSuspend' \in Int /\ awaiting' \in Nat
  BY TypesAssumption DEF Queued, TypeOK
<1> QED BY <1>1, <1>2, <1>3, FS_Subset, FS_CardinalityType

\* The threads that add jobs keep the count of suspended coroutines.
LEMMA AddersSuspend ==
  ASSUME IInv, TypeOK', SInv, NEW a \in Threads,
         (\E t \in Types : wrap(a, t)) \/ postCoro(a) \/ post(a) \/ addRefCountedJob(a)
  PROVE  SuspendIsExact'
<1>0. TypeOK /\ Jobs /\ Asked /\ Roles /\ SuspendIsExact
  BY DEF IInv, SInv
<1> USE <1>0
<1>1. UNCHANGED <<at, job, awaiting, stopper, stopping>>
  BY DEF wrap, postCoro, post, addRefCountedJob
<1>2. Starting' = Starting /\ Yielding' = Yielding /\ awaiting' = awaiting
  BY <1>1 DEF Starting, Yielding, With
<1>3. IsFiniteSet(Posting) /\ Cardinality(Posting) \in Nat /\ Queued \in Nat
  BY CountsAreNat
<1>4. nSuspend' - nSuspend = (Cardinality(Posting') - Cardinality(Posting)) + (Queued' - Queued)
  <2>1. CASE \E t \in Types : wrap(a, t)
    <3>1. Posting' = Posting /\ Queued' = Queued /\ nSuspend' = nSuspend
      <4> PICK t \in Types : wrap(a, t)
        BY <2>1
      <4>1. /\ adding[a] = Idle /\ t # ClientType
            /\ adding' = [adding EXCEPT ![a] = [step |-> "wrapped", type |-> t]]
            /\ UNCHANGED <<waiting, nSuspend>>
        BY DEF wrap, queue
      <4>2. adding'[a] = [step |-> "wrapped", type |-> t] /\ \A b \in Threads : b # a => adding'[b] = adding[b]
        BY <4>1 DEF TypeOK
      <4>3. adding'[a].type # ClientType /\ adding[a].step = "idle"
        BY <4>1, <4>2 DEF Idle
      <4>4. Posting' = Posting
        BY <4>2, <4>3 DEF Posting
      <4> QED BY <4>1, <4>4 DEF Queued
    <3> QED BY <1>3, <3>1 DEF TypeOK
  <2>2. CASE postCoro(a)
    <3>1. Posting' = Posting \cup {a} /\ a \notin Posting
      <4>1. \A b \in Threads :
              adding'[b] = IF b = a THEN [step |-> "created", type |-> ClientType] ELSE adding[b]
        BY <2>2 DEF postCoro, TypeOK
      <4>2. adding[a].step = "idle"
        BY <2>2 DEF postCoro, Idle
      <4>3. adding'[a].step = "created" /\ adding'[a].type = ClientType
        <5>1. adding'[a] = [step |-> "created", type |-> ClientType]
          BY <4>1
        <5> QED BY <5>1, EntryFields, Zenon
      <4>4. \A b \in Threads : b # a => adding'[b].step = adding[b].step /\ adding'[b].type = adding[b].type
        BY <4>1
      <4>5. a \in Posting' /\ a \notin Posting
        BY <4>2, <4>3 DEF Posting
      <4>6. \A b \in Threads : b # a => (b \in Posting' <=> b \in Posting)
        BY <4>4 DEF Posting
      <4>7. Posting' \subseteq Threads /\ Posting \subseteq Threads
        BY DEF Posting
      <4> QED BY <4>5, <4>6, <4>7
    <3>2. Queued' = Queued /\ nSuspend' = nSuspend + 1
      BY <2>2 DEF postCoro, Queued, queue
    <3>3. Cardinality(Posting') = Cardinality(Posting) + 1
      BY <1>3, <3>1, FS_AddElement
    <3> QED BY <1>3, <3>2, <3>3 DEF TypeOK
  <2>3. CASE post(a)
    <3>1. adding[a].step = "created" /\ adding[a].type = ClientType /\ a \in Posting /\ Queued' = Queued
      BY <2>3 DEF post, Roles, Posting, Queued, queue
    <3>2. CASE ~waitForClosures
      <4>1. nSuspend' = nSuspend /\ adding' = [adding EXCEPT ![a].step = "wrapped"]
        BY <2>3, <3>2 DEF post
      <4>2. \A b \in Threads : /\ adding'[b].type = adding[b].type
                              /\ adding'[b].step = IF b = a THEN "wrapped" ELSE adding[b].step
        BY <3>1, <4>1 DEF TypeOK, Idle
      <4>3. Posting' = Posting
        BY <3>1, <4>2 DEF Posting
      <4> QED BY <1>3, <3>1, <4>1, <4>3 DEF TypeOK
    <3>3. CASE waitForClosures
      <4>0. nSuspend' = nSuspend - 1 /\ adding' = [adding EXCEPT ![a] = Idle]
        BY <2>3, <3>3 DEF post
      <4>1. Posting' = Posting \ {a} /\ nSuspend' = nSuspend - 1
        <5>1. \A b \in Threads : adding'[b] = IF b = a THEN Idle ELSE adding[b]
          BY <4>0 DEF TypeOK
        <5> QED BY <4>0, <5>1 DEF Posting, Idle
      <4>2. Cardinality(Posting') = Cardinality(Posting) - 1
        BY <1>3, <3>1, <4>1, FS_RemoveElement
      <4> QED BY <1>3, <3>1, <4>1, <4>2 DEF TypeOK
    <3> QED BY <3>2, <3>3
  <2>4. CASE addRefCountedJob(a)
    <3>0. adding[a].step = "wrapped" /\ adding' = [adding EXCEPT ![a] = Idle] /\ nSuspend' = nSuspend
      BY <2>4 DEF addRefCountedJob
    <3>1. /\ adding[a].step = "wrapped" /\ adding[a].type \in Types
          /\ waiting' = [waiting EXCEPT ![adding[a].type] = @ + 1]
          /\ adding' = [adding EXCEPT ![a] = Idle] /\ nSuspend' = nSuspend
      <4>1. adding[a].type \in Types
        <5>1. adding[a] # Idle
          BY <3>0 DEF Idle
        <5>2. adding[a] \in [step : Steps, type : Types]
          BY <5>1 DEF TypeOK
        <5> QED BY <5>2
      <4>2. waiting' = [waiting EXCEPT ![adding[a].type] = @ + 1]
        BY <2>4 DEF addRefCountedJob, queueJob
      <4> QED BY <3>0, <4>1, <4>2
    <3>2. CASE adding[a].type = ClientType
      <4>1. Posting' = Posting \ {a} /\ a \in Posting
        <5>1. \A b \in Threads : adding'[b] = IF b = a THEN Idle ELSE adding[b]
          BY <3>1 DEF TypeOK
        <5> QED BY <3>1, <3>2, <5>1 DEF Posting, Idle
      <4>2. Cardinality(Posting') = Cardinality(Posting) - 1
        BY <1>3, <4>1, FS_RemoveElement
      <4>3. Queued' = Queued + 1
        BY <3>1, <3>2, TypesAssumption DEF Queued, TypeOK
      <4> QED BY <1>3, <3>1, <4>2, <4>3 DEF TypeOK
    <3>3. CASE adding[a].type # ClientType
      <4>1. Posting' = Posting
        BY <3>1, <3>3 DEF Posting, TypeOK, Idle
      <4>2. Queued' = Queued
        BY <3>1, <3>3, TypesAssumption DEF Queued, TypeOK
      <4> QED BY <1>3, <3>1, <4>1, <4>2 DEF TypeOK
    <3> QED BY <3>2, <3>3
  <2> QED BY <2>1, <2>2, <2>3, <2>4
<1>5. Cardinality(Starting) \in Nat /\ Cardinality(Yielding) \in Nat /\ nSuspend' \in Int /\ nSuspend \in Int
  BY CountsAreNat DEF TypeOK
<1>6. /\ Queued' \in Nat /\ nSuspend' \in Int /\ awaiting' \in Nat
      /\ Cardinality(Posting') \in Nat /\ Cardinality(Starting') \in Nat /\ Cardinality(Yielding') \in Nat
  BY CountsStayNat
<1>7. nSuspend' - nSuspend = (Cardinality(Posting') - Cardinality(Posting)) + (Queued' - Queued)
                               + (Cardinality(Starting') - Cardinality(Starting))
                               + (awaiting' - awaiting)
                               - (Cardinality(Yielding') - Cardinality(Yielding))
  BY <1>2, <1>3, <1>4, <1>5, <1>6
<1> QED BY <1>6, <1>7, Recount

\* So do the workers.
LEMMA WorkersSuspend ==
  ASSUME IInv, TypeOK', SInv, NEW w \in Workers,
         \/ wait(w) \/ getNextJob(w) \/ resume(w) \/ makeLegacyPathRequest(w) \/ yield(w)
         \/ shouldCancel(w) \/ updateComplete(w) \/ doJob(w) \/ finishJob(w)
  PROVE  SuspendIsExact'
<1>0. TypeOK /\ Jobs /\ Asked /\ Roles /\ SuspendIsExact
  BY DEF IInv, SInv
<1> USE <1>0
<1>1. adding' = adding /\ Posting' = Posting
  BY DEF wait, getNextJob, resume, makeLegacyPathRequest, yield, shouldCancel, updateComplete, doJob, finishJob, Posting
<1>2. /\ IsFiniteSet(Starting) /\ Cardinality(Starting) \in Nat
      /\ IsFiniteSet(Yielding) /\ Cardinality(Yielding) \in Nat
      /\ Queued \in Nat /\ Cardinality(Posting) \in Nat
  BY CountsAreNat
<1>3. /\ Queued' \in Nat /\ nSuspend' \in Int /\ awaiting' \in Nat
      /\ Cardinality(Posting') \in Nat /\ Cardinality(Starting') \in Nat /\ Cardinality(Yielding') \in Nat
  BY CountsStayNat
<1>4. nSuspend \in Int /\ awaiting \in Nat
  BY DEF TypeOK
<1>5. PathType \in Types => PathType # ClientType
  BY TypesAssumption
<1> DEFINE Change ==
      nSuspend' - nSuspend = (Queued' - Queued) + (Cardinality(Starting') - Cardinality(Starting))
                               + (awaiting' - awaiting)
                               - (Cardinality(Yielding') - Cardinality(Yielding))
<1>6. ASSUME wait(w) \/ finishJob(w) PROVE Change
  <2>1. nSuspend' = nSuspend /\ awaiting' = awaiting /\ Queued' = Queued
    BY <1>6 DEF wait, finishJob, Queued
  <2>2. Starting' = Starting
    BY <1>6 DEF wait, finishJob, Starting, With, TypeOK
  <2>3. Yielding' = Yielding
    BY <1>6 DEF wait, finishJob, Yielding, TypeOK
  <2> QED BY <1>2, <1>4, <2>1, <2>2, <2>3
<1>7. ASSUME getNextJob(w) PROVE Change
  <2>1. PICK t \in Types : /\ waiting[t] > 0
                           /\ waiting' = [waiting EXCEPT ![t] = @ - 1]
                           /\ job' = [job EXCEPT ![w] = t]
    BY <1>7 DEF getNextJob, Eligible
  <2>2. /\ at[w] = "woken" /\ at' = [at EXCEPT ![w] = "running"]
        /\ nSuspend' = nSuspend /\ awaiting' = awaiting
    BY <1>7 DEF getNextJob
  <2>3. Yielding' = Yielding
    BY <2>2 DEF Yielding, TypeOK
  <2>4. CASE t = ClientType
    <3>1. Starting' = Starting \cup {w} /\ w \notin Starting
      <4>1. \A v \in Workers : /\ at'[v] = IF v = w THEN "running" ELSE at[v]
                              /\ job'[v] = IF v = w THEN ClientType ELSE job[v]
        BY <2>1, <2>2, <2>4 DEF TypeOK
      <4> QED BY <2>2, <4>1 DEF Starting, With
    <3>2. Cardinality(Starting') = Cardinality(Starting) + 1
      BY <1>2, <3>1, FS_AddElement
    <3>3. Queued' = Queued - 1
      BY <2>1, <2>4, TypesAssumption DEF Queued, TypeOK
    <3> QED BY <1>2, <1>4, <2>2, <2>3, <3>2, <3>3
  <2>5. CASE t # ClientType
    <3>1. Starting' = Starting
      BY <2>1, <2>2, <2>5 DEF Starting, With, TypeOK
    <3>2. Queued' = Queued
      BY <2>1, <2>5, TypesAssumption DEF Queued, TypeOK
    <3> QED BY <1>2, <1>4, <2>2, <2>3, <3>1, <3>2
  <2> QED BY <2>4, <2>5
<1>8. ASSUME resume(w) PROVE Change
  <2>1. /\ at[w] = "running" /\ job[w] = ClientType /\ at' = [at EXCEPT ![w] = "resumed"] /\ job' = job
        /\ nSuspend' = nSuspend - 1 /\ awaiting' = awaiting /\ Queued' = Queued
    BY <1>8 DEF resume, Queued, queue
  <2>2. Starting' = Starting \ {w} /\ w \in Starting
    BY <2>1 DEF Starting, With, TypeOK
  <2>3. Cardinality(Starting') = Cardinality(Starting) - 1
    BY <1>2, <2>2, FS_RemoveElement
  <2>4. Yielding' = Yielding
    BY <2>1 DEF Yielding, TypeOK
  <2> QED BY <1>2, <1>4, <2>1, <2>3, <2>4
<1>9. ASSUME makeLegacyPathRequest(w) PROVE Change
  <2>1. /\ at[w] = "resumed" /\ at' = [at EXCEPT ![w] = "asking"] /\ job' = job
        /\ nSuspend' = nSuspend /\ awaiting' = awaiting + 1
    BY <1>9 DEF makeLegacyPathRequest
  <2>2. Queued' = Queued
    <3>1. PathType \in Types
      BY <1>9, TypesAssumption DEF makeLegacyPathRequest
    <3>2. waiting' = waiting \/ waiting' = [waiting EXCEPT ![PathType] = @ + 1]
      BY <1>9 DEF makeLegacyPathRequest, queueJob, queue
    <3> QED BY <1>5, <3>1, <3>2, TypesAssumption DEF Queued, TypeOK
  <2>3. Starting' = Starting
    BY <2>1 DEF Starting, With, TypeOK
  <2>4. Yielding' = Yielding \cup {w} /\ w \notin Yielding
    <3>1. \A v \in Workers : at'[v] = IF v = w THEN "asking" ELSE at[v]
      BY <2>1 DEF TypeOK
    <3> QED BY <2>1, <3>1 DEF Yielding
  <2>5. Cardinality(Yielding') = Cardinality(Yielding) + 1
    BY <1>2, <2>4, FS_AddElement
  <2> QED BY <1>2, <1>4, <2>1, <2>2, <2>3, <2>5
<1>10. ASSUME yield(w) PROVE Change
  <2>1. /\ at[w] \in {"asking", "answered"} /\ at' = [at EXCEPT ![w] = "finishing"] /\ job' = job
        /\ nSuspend' = nSuspend + 1 /\ awaiting' = awaiting /\ Queued' = Queued
    BY <1>10 DEF yield, Queued, queue
  <2>2. Starting' = Starting
    BY <2>1 DEF Starting, With, TypeOK
  <2>3. Yielding' = Yielding \ {w} /\ w \in Yielding
    BY <2>1 DEF Yielding, TypeOK
  <2>4. Cardinality(Yielding') = Cardinality(Yielding) - 1
    BY <1>2, <2>3, FS_RemoveElement
  <2> QED BY <1>2, <1>4, <2>1, <2>2, <2>4
<1>11. ASSUME shouldCancel(w) \/ doJob(w) PROVE Change
  <2>1. /\ nSuspend' = nSuspend /\ awaiting' = awaiting /\ Queued' = Queued /\ job' = job
        /\ at[w] \in {"running", "resumed"}
        /\ \E q \in {"updating", "finishing"} : at' = [at EXCEPT ![w] = q]
    BY <1>11 DEF shouldCancel, doJob, Queued, queue
  <2>2. at[w] = "running" => job[w] # ClientType
    BY <1>5, <1>11 DEF shouldCancel, doJob, Jobs, Busy, InJob
  <2>3. Starting' = Starting
    BY <2>1, <2>2 DEF Starting, With, TypeOK
  <2>4. Yielding' = Yielding
    BY <2>1 DEF Yielding, TypeOK
  <2> QED BY <1>2, <1>4, <2>1, <2>3, <2>4
<1>12. ASSUME updateComplete(w) PROVE Change
  <2>1. at[w] = "updating" /\ job' = job /\ job[w] = PathType
    BY <1>12 DEF updateComplete, Roles
  <2>2. job[w] # ClientType
    BY <1>5, <2>1 DEF Jobs, Busy, InJob
  <2>3. \/ at' = [at EXCEPT ![w] = "running"]
        \/ \E v \in Workers : at[v] = "asking" /\ at' = [at EXCEPT ![w] = "running", ![v] = "answered"]
    BY <1>12 DEF updateComplete
  <2>4. Starting' = Starting
    BY <2>1, <2>2, <2>3 DEF Starting, With, TypeOK
  <2>5. Yielding' = Yielding
    BY <2>1, <2>3 DEF Yielding, TypeOK
  <2>6. nSuspend' - nSuspend = (Queued' - Queued) + (awaiting' - awaiting)
    <3>1. CASE awaiting > 0
      <4>1. /\ awaiting' = awaiting - 1
            /\ IF waitForClosures THEN nSuspend' = nSuspend - 1 /\ UNCHANGED queue
               ELSE queueJob(ClientType) /\ UNCHANGED nSuspend
        BY <1>12, <3>1 DEF updateComplete
      <4>2. ClientType \in Types /\ ClientType # NoType
        BY <3>1, TypesAssumption DEF Asked
      <4>3. CASE waitForClosures
        <5>1. nSuspend' = nSuspend - 1 /\ Queued' = Queued
          BY <4>1, <4>3 DEF Queued, queue
        <5> QED BY <1>2, <1>4, <4>1, <5>1
      <4>4. CASE ~waitForClosures
        <5>1. nSuspend' = nSuspend /\ Queued' = Queued + 1
          BY <4>1, <4>2, <4>4 DEF Queued, queueJob, TypeOK
        <5> QED BY <1>2, <1>4, <4>1, <5>1
      <4> QED BY <4>3, <4>4
    <3>2. CASE ~(awaiting > 0)
      <4>1. nSuspend' = nSuspend /\ Queued' = Queued /\ awaiting' = awaiting
        BY <1>12, <3>2 DEF updateComplete, Queued, queue
      <4> QED BY <1>2, <1>4, <4>1
    <3> QED BY <3>1, <3>2
  <2> QED BY <1>2, <1>3, <1>4, <2>4, <2>5, <2>6
<1>13. Change
  BY <1>6, <1>7, <1>8, <1>9, <1>10, <1>11, <1>12
<1>14. nSuspend' - nSuspend = (Cardinality(Posting') - Cardinality(Posting)) + (Queued' - Queued)
                                + (Cardinality(Starting') - Cardinality(Starting))
                                + (awaiting' - awaiting)
                                - (Cardinality(Yielding') - Cardinality(Yielding))
  BY <1>1, <1>2, <1>3, <1>4, <1>13
<1> QED BY <1>3, <1>14, Recount

\* It satisfies the second one too.
LEMMA InitSInv == Init => SInv
<1> SUFFICES ASSUME Init PROVE SInv
  OBVIOUS
<1> USE DEF Init
<1>1. Posting = {} /\ Starting = {} /\ Yielding = {}
  BY DEF Posting, Starting, Yielding, With, Idle
<1>2. Queued = 0
  BY TypesAssumption DEF Queued
<1>3. nSuspend = Cardinality(Posting) + Queued + Cardinality(Starting) + awaiting - Cardinality(Yielding)
  BY <1>1, <1>2, FS_EmptySet
<1>4. SuspendIsExact
  BY <1>3 DEF SuspendIsExact, Posting, Queued, Starting, Yielding
<1>5. Roles /\ Quiet
  BY DEF Roles, Quiet, Idle
<1> QED BY <1>4, <1>5 DEF SInv

\* A queue that has called stopped() stays quiet, and calls it only when quiet.
LEMMA QuietKept ==
  ASSUME IInv, Quiet, Next
  PROVE  Quiet'
<1> USE DEF IInv
<1>1. ASSUME stopping
      PROVE  UNCHANGED <<waiting, nSuspend>> /\ areChildrenStopped' /\ NothingRuns(at)'
  <2>1. areChildrenStopped /\ NothingWaits /\ NothingRuns(at) /\ \A a \in Threads : adding[a] = Idle
    BY <1>1 DEF Quiet, Gone
  <2>2. \A a \in Threads : ~postCoro(a) /\ ~post(a) /\ ~addRefCountedJob(a) /\ \A t \in Types : ~wrap(a, t)
    BY <2>1 DEF wrap, postCoro, post, addRefCountedJob, Idle
  <2>3. \A w \in Workers : at[w] \notin Busy
    BY <2>1 DEF NothingRuns
  <2>4. \A w \in Workers : /\ ~resume(w) /\ ~makeLegacyPathRequest(w) /\ ~yield(w) /\ ~shouldCancel(w)
                           /\ ~updateComplete(w) /\ ~doJob(w) /\ ~finishJob(w) /\ ~getNextJob(w)
    <3>1. Eligible = {}
      <4>1. \A t \in Types : ~(waiting[t] > 0)
        BY <2>1 DEF NothingWaits
      <4> QED BY <4>1 DEF Eligible
    <3>2. \A w \in Workers : ~getNextJob(w)
      BY <3>1 DEF getNextJob
    <3>3. \A w \in Workers : ~resume(w) /\ ~makeLegacyPathRequest(w) /\ ~yield(w) /\ ~shouldCancel(w)
      BY <2>3 DEF resume, makeLegacyPathRequest, yield, shouldCancel, Busy, InJob
    <3>4. \A w \in Workers : ~updateComplete(w) /\ ~doJob(w) /\ ~finishJob(w)
      BY <2>3 DEF updateComplete, doJob, finishJob, Busy, InJob
    <3> QED BY <3>2, <3>3, <3>4
  <2>5. CASE \E w \in Workers : wait(w)
    BY <2>1, <2>3, <2>5 DEF wait, areChildrenStopped, NothingRuns, TypeOK, Busy, InJob
  <2>6. CASE stopAsync \/ join \/ childrenStop \/ onChildrenStopped \/ stopReturns
    BY <2>1, <2>6 DEF stopAsync, join, childrenStop, onChildrenStopped, stopReturns, areChildrenStopped, NothingRuns, queue
  <2> QED BY <2>2, <2>4, <2>5, <2>6 DEF Next
<1>2. CASE stopping
  BY <1>1, <1>2 DEF Quiet, NothingWaits
<1>3. CASE ~stopping /\ stopping'
  <2>1. (\E w \in Workers : finishJob(w)) \/ onChildrenStopped
    BY <1>3 DEF Next, wrap, postCoro, post, addRefCountedJob, wait, getNextJob, resume, makeLegacyPathRequest,
                yield, shouldCancel, updateComplete, doJob, stopAsync, join, childrenStop, stopReturns
  <2>2. /\ areChildrenStopped /\ NothingRuns(at') /\ NothingWaits /\ nSuspend = 0
        /\ UNCHANGED <<waiting, nSuspend>> /\ areChildrenStopped'
    <3>1. CASE onChildrenStopped
      BY <1>3, <3>1 DEF onChildrenStopped, checkStopped, areChildrenStopped, queue
    <3>2. ASSUME NEW w \in Workers, finishJob(w) PROVE <2>2
      BY <1>3, <3>2 DEF finishJob, checkStopped, areChildrenStopped
    <3> QED BY <2>1, <3>1, <3>2
  <2>3. NothingRuns(at)' /\ NothingWaits'
    BY <2>2 DEF NothingRuns, NothingWaits
  <2> QED BY <2>2, <2>3 DEF Quiet
<1>4. CASE ~stopping'
  BY <1>4 DEF Quiet
<1> QED BY <1>2, <1>3, <1>4

\* Every step keeps the second invariant.
LEMMA NextSInv == IInv /\ IInv' /\ SInv /\ [Next]_vars => SInv'
<1> SUFFICES ASSUME IInv, IInv', SInv, [Next]_vars PROVE SInv'
  OBVIOUS
<1>0. TypeOK /\ TypeOK'
  BY DEF IInv
<1>1. CASE UNCHANGED vars
  BY <1>1 DEF vars, SInv, SuspendIsExact, Roles, Quiet, With, areChildrenStopped, NothingWaits, NothingRuns
<1>2. CASE Next
  <2>1. Quiet'
    BY <1>2, QuietKept DEF SInv
  <2>2. CASE \E a \in Threads : (\E t \in Types : wrap(a, t)) \/ postCoro(a) \/ post(a) \/ addRefCountedJob(a)
    <3>1. SuspendIsExact'
      BY <1>0, <2>2, AddersSuspend
    <3>2. Roles'
      BY <1>0, <2>2 DEF SInv, Roles, wrap, postCoro, post, addRefCountedJob, TypeOK, Idle
    <3> QED BY <2>1, <3>1, <3>2 DEF SInv
  <2>3. CASE \E w \in Workers : \/ wait(w) \/ getNextJob(w) \/ resume(w) \/ makeLegacyPathRequest(w) \/ yield(w)
                               \/ shouldCancel(w) \/ updateComplete(w) \/ doJob(w) \/ finishJob(w)
    <3>1. SuspendIsExact'
      BY <1>0, <2>3, WorkersSuspend
    <3>2. Roles'
      <4>1. PICK w \in Workers :
              \/ wait(w) \/ getNextJob(w) \/ resume(w) \/ makeLegacyPathRequest(w) \/ yield(w)
              \/ shouldCancel(w) \/ updateComplete(w) \/ doJob(w) \/ finishJob(w)
        BY <2>3
      <4>2. adding' = adding
        BY <4>1 DEF wait, getNextJob, resume, makeLegacyPathRequest, yield, shouldCancel, updateComplete, doJob, finishJob
      <4>3. \A v \in Workers : at'[v] = "updating" => job'[v] = PathType
        <5>1. CASE shouldCancel(w)
          BY <1>0, <5>1 DEF shouldCancel, SInv, Roles, TypeOK
        <5>2. CASE updateComplete(w)
          <6>1. \/ at' = [at EXCEPT ![w] = "running"]
                \/ \E v \in Workers : at' = [at EXCEPT ![w] = "running", ![v] = "answered"]
            BY <5>2 DEF updateComplete
          <6>2. \A v \in Workers : at'[v] = "updating" => at[v] = "updating"
            BY <1>0, <6>1 DEF TypeOK
          <6> QED BY <5>2, <6>2 DEF updateComplete, SInv, Roles
        <5>3. CASE wait(w) \/ resume(w) \/ makeLegacyPathRequest(w) \/ yield(w) \/ doJob(w)
          <6>1. job' = job /\ \E p \in Places \ {"updating"} : at' = [at EXCEPT ![w] = p]
            BY <5>3 DEF wait, resume, makeLegacyPathRequest, yield, doJob, Places, Busy, InJob
          <6> QED BY <1>0, <6>1 DEF SInv, Roles, TypeOK
        <5>4. CASE getNextJob(w) \/ finishJob(w)
          <6>1. /\ \E p \in Places \ {"updating"} : at' = [at EXCEPT ![w] = p]
                /\ \E t \in Types \cup {NoType} : job' = [job EXCEPT ![w] = t]
            BY <5>4 DEF getNextJob, finishJob, Eligible, Places, Busy, InJob
          <6> QED BY <1>0, <6>1 DEF SInv, Roles, TypeOK
        <5> QED BY <4>1, <5>1, <5>2, <5>3, <5>4
      <4> QED BY <4>2, <4>3 DEF SInv, Roles
    <3> QED BY <2>1, <3>1, <3>2 DEF SInv
  <2>4. CASE stopAsync \/ join \/ childrenStop \/ onChildrenStopped \/ stopReturns
    <3>1. UNCHANGED <<queue, at, job, adding, nSuspend, awaiting, added>>
      BY <2>4 DEF stopAsync, join, childrenStop, onChildrenStopped, stopReturns
    <3>2. SuspendIsExact' /\ Roles'
      BY <3>1 DEF SInv, SuspendIsExact, Roles, With, queue
    <3> QED BY <2>1, <3>2 DEF SInv
  <2> QED BY <1>2, <2>2, <2>3, <2>4 DEF Next
<1> QED BY <1>1, <1>2

\* Both invariants hold throughout.
LEMMA SInvAlways == Spec => [](IInv /\ SInv)
<1>1. Init => IInv /\ SInv
  BY InitIInv, InitSInv
<1>2. (IInv /\ SInv) /\ [Next]_vars => (IInv /\ SInv)'
  BY NextIInv, NextSInv
<1> QED BY <1>1, <1>2, PTL DEF Spec

\* nSuspend_ counts the suspended coroutines exactly, through every race of a
\* completion with the yield it completes and of stop() with a post.
THEOREM SuspensionsAreExact == Spec => []SuspendIsExact
<1>1. IInv /\ SInv => SuspendIsExact
  BY DEF SInv
<1> QED BY <1>1, SInvAlways, PTL

\* A queue that has declared itself stopped has nothing left to do, holds no
\* suspended coroutine, and stays so.
THEOREM StoppedForGood == Spec => []StoppedIsQuiet
<1>1. IInv /\ SInv => StoppedIsQuiet
  <2> SUFFICES ASSUME IInv, SInv, stopping PROVE StoppedIsQuiet
    BY DEF StoppedIsQuiet
  <2>1. areChildrenStopped /\ NothingWaits /\ NothingRuns(at) /\ nSuspend = 0
    BY DEF SInv, Quiet
  <2>2. \A a \in Threads : adding[a] = Idle
    BY <2>1 DEF IInv, Gone
  <2>3. Posting = {} /\ Starting = {} /\ Yielding = {}
    <3>1. \A a \in Threads : adding[a].step = "idle"
      BY <2>2 DEF Idle
    <3>2. \A w \in Workers : at[w] \notin {"running", "asking", "answered"}
      BY <2>1 DEF NothingRuns, Busy, InJob
    <3>3. Posting = {}
      BY <3>1 DEF Posting
    <3>4. Starting = {} /\ Yielding = {}
      BY <3>2 DEF Starting, Yielding, With
    <3> QED BY <3>3, <3>4
  <2>4. Queued = 0
    BY <2>1, TypesAssumption DEF Queued, NothingWaits
  <2>5. nSuspend = Cardinality(Posting) + Queued + Cardinality(Starting) + awaiting - Cardinality(Yielding)
    BY DEF SInv, SuspendIsExact, Posting, Queued, Starting, Yielding
  <2>6. awaiting = 0
    BY <2>1, <2>3, <2>4, <2>5, FS_EmptySet DEF IInv, TypeOK
  <2> QED BY <2>1, <2>2, <2>6 DEF StoppedIsQuiet
<1> QED BY <1>1, SInvAlways, PTL
=============================================================================
