------------------------------- MODULE JobQueue -------------------------------
(****************************************************************************)
(* The job queue, its worker threads and its shutdown: core/impl/           *)
(* JobQueue.cpp with Workers.cpp, semaphore.h, ClosureCounter.h, Coro.ipp   *)
(* and Stoppable.cpp.  A thread of a child component adds a job in two      *)
(* critical sections: it wraps the job in the root's closure counter and    *)
(* then inserts it.  A job beyond its type's limit is deferred; every other *)
(* job posts the workers' semaphore.  A worker takes a unit from the        *)
(* semaphore, later takes the queue's lock and picks the first job of       *)
(* highest priority whose type is below its limit.                          *)
(*                                                                          *)
(* Jobs of ClientType resume a coroutine, which may ask for paths and yield *)
(* until a job of PathType answers it (RipplePathFind.cpp).  stop() joins   *)
(* the closure counter, stops the children and then waits for the queue to  *)
(* declare itself stopped.                                                  *)
(*                                                                          *)
(* Each action is one critical section of m_mutex, of the semaphore or of   *)
(* the closure counter.  The jobs of one type are interchangeable here, so  *)
(* m_jobSet is the number waiting of each type.                             *)
(****************************************************************************)
EXTENDS Integers, FiniteSets

CONSTANTS
    Types,       \* job types that can be queued
    limit,       \* JobTypeInfo::limit
    priority,    \* the order of the JobType enumerators
    ClientType,  \* the type whose jobs resume a coroutine, or NoType
    PathType,    \* jtUPDATE_PF, or NoType
    NoType,      \* no job
    Workers,     \* the threads of Workers
    Threads,     \* threads of child components that add jobs
    MaxJobs      \* bound: jobs, coroutines and path requests started

ASSUME TypesAssumption ==
    /\ NoType \notin Types
    /\ ClientType \in Types \cup {NoType}
    /\ PathType \in (Types \cup {NoType}) \ {ClientType} \/ PathType = NoType
    /\ limit \in [Types -> Nat \ {0}]
    /\ priority \in [Types -> Nat]
    /\ IsFiniteSet(Workers) /\ IsFiniteSet(Threads)
    /\ MaxJobs \in Nat

VARIABLES
    waiting,     \* JobTypeData::waiting
    running,     \* JobTypeData::running
    deferred,    \* JobTypeData::deferred
    m_count,     \* the workers' semaphore
    at,          \* where each worker is
    job,         \* the type of the job a worker has
    adding,      \* what each thread is adding, and how far it got
    nSuspend,    \* JobQueue::nSuspend_
    awaiting,    \* path requests whose completion has not been called
    stopper,     \* progress of the thread that calls RootStoppable::stop
    stopping,    \* Stoppable::m_is_stopping of the queue: stopped() was called
    added        \* jobs, coroutines and path requests so far (bound only)

queue == <<waiting, running, deferred, m_count>>
vars == <<waiting, running, deferred, m_count, at, job, adding, nSuspend, awaiting, stopper, stopping, added>>

-------------------------------------------------------------------------------
\* The stages of RootStoppable::stop, and what each flag is in them.
Stages == {"up", "called", "joining", "joined", "children", "notified", "stopped"}

\* RootStoppable::isStopping: m_calledStop.
isStopping == stopper # "up"

\* ClosureCounter::waitForClosures_.
waitForClosures == stopper \notin {"up", "called"}

\* Stoppable::areChildrenStopped of the queue.
areChildrenStopped == stopper \in {"children", "notified", "stopped"}

\* The places of a worker: waiting on the semaphore; woken, on its way to
\* getNextJob; running a job; in a coroutine it resumed; in a coroutine whose
\* path request is pending, or was answered, before it yields; in updateAll
\* past the cancel test; between the job's end and finishJob.
InJob == {"running", "resumed", "asking", "answered", "updating"}
Busy == InJob \cup {"finishing"}
Places == {"semaphore", "woken"} \cup Busy

Idle == [step |-> "idle", type |-> NoType]
Steps == {"created", "wrapped"}

\* m_jobSet.empty() and m_processCount == 0.
NothingWaits == \A t \in Types : waiting[t] = 0
NothingRuns(place) == \A w \in Workers : place[w] \notin Busy

\* ClosureCounter::count() == 0: a wrapped job is one being added, one that
\* waits, or one whose function has not returned.
NoClosures ==
    /\ \A a \in Threads : adding[a].step # "wrapped"
    /\ NothingWaits
    /\ \A w \in Workers : at[w] \notin InJob

-------------------------------------------------------------------------------
Init ==
    /\ waiting = [t \in Types |-> 0]
    /\ running = [t \in Types |-> 0]
    /\ deferred = [t \in Types |-> 0]
    /\ m_count = 0
    /\ at = [w \in Workers |-> "semaphore"]
    /\ job = [w \in Workers |-> NoType]
    /\ adding = [a \in Threads |-> Idle]
    /\ nSuspend = 0
    /\ awaiting = 0
    /\ stopper = "up"
    /\ stopping = FALSE
    /\ added = 0

\* Deviation: a deferred job posts the semaphore as well.
queueJob_AlwaysPosts(t) ==
    /\ waiting' = [waiting EXCEPT ![t] = @ + 1]
    /\ m_count' = m_count + 1
    /\ deferred' = IF waiting[t] + running[t] < limit[t] THEN deferred
                   ELSE [deferred EXCEPT ![t] = @ + 1]
    /\ UNCHANGED running

\* JobQueue::queueJob: a job within its type's limit posts the semaphore, any
\* other is deferred.
queueJob(t) ==
    /\ waiting' = [waiting EXCEPT ![t] = @ + 1]
    /\ IF waiting[t] + running[t] < limit[t]
       THEN m_count' = m_count + 1 /\ UNCHANGED deferred
       ELSE deferred' = [deferred EXCEPT ![t] = @ + 1] /\ UNCHANGED m_count
    /\ UNCHANGED running

\* LedgerMaster::mPathFindThread: the path jobs that were added and have not
\* returned.  newPFWork adds no third one.
mPathFindThread ==
    Cardinality({a \in Threads : adding[a].type = PathType})
      + (IF PathType = NoType THEN 0 ELSE waiting[PathType])
      + Cardinality({w \in Workers : job[w] = PathType /\ at[w] \in InJob})

\* JobQueue::addJob, the call of ClosureCounter::wrap: refused once join has
\* been called.
wrap(a, t) ==
    /\ adding[a] = Idle
    /\ t # ClientType
    /\ ~areChildrenStopped
    /\ ~waitForClosures
    /\ t = PathType => mPathFindThread < 2
    /\ added < MaxJobs
    /\ added' = added + 1
    /\ adding' = [adding EXCEPT ![a] = [step |-> "wrapped", type |-> t]]
    /\ UNCHANGED <<queue, at, job, nSuspend, awaiting, stopper, stopping>>

\* JobQueue::postCoro: the coroutine's constructor runs it to its first yield.
postCoro(a) ==
    /\ adding[a] = Idle
    /\ ClientType # NoType
    /\ ~areChildrenStopped
    /\ added < MaxJobs
    /\ added' = added + 1
    /\ nSuspend' = nSuspend + 1
    /\ adding' = [adding EXCEPT ![a] = [step |-> "created", type |-> ClientType]]
    /\ UNCHANGED <<queue, at, job, awaiting, stopper, stopping>>

\* Deviation: a coroutine that was refused stays counted.
post_NoEarlyExit(a) ==
    /\ adding[a].step = "created"
    /\ adding' = IF waitForClosures THEN [adding EXCEPT ![a] = Idle]
                 ELSE [adding EXCEPT ![a].step = "wrapped"]
    /\ UNCHANGED <<queue, at, job, nSuspend, awaiting, stopper, stopping, added>>

\* JobQueue::Coro::post from postCoro: the resume job is wrapped, or
\* expectEarlyExit takes the suspension back.
post(a) ==
    /\ adding[a].step = "created"
    /\ \/ /\ ~waitForClosures
          /\ adding' = [adding EXCEPT ![a].step = "wrapped"]
          /\ UNCHANGED nSuspend
       \/ /\ waitForClosures
          /\ adding' = [adding EXCEPT ![a] = Idle]
          /\ nSuspend' = nSuspend - 1
    /\ UNCHANGED <<queue, at, job, awaiting, stopper, stopping, added>>

\* JobQueue::addRefCountedJob.
addRefCountedJob(a) ==
    /\ adding[a].step = "wrapped"
    /\ queueJob(adding[a].type)
    /\ adding' = [adding EXCEPT ![a] = Idle]
    /\ UNCHANGED <<at, job, nSuspend, awaiting, stopper, stopping, added>>

-------------------------------------------------------------------------------
\* Deviation: a worker never takes the semaphore's last unit.
wait_KeepsOne(w) ==
    /\ at[w] = "semaphore"
    /\ m_count > 1
    /\ m_count' = m_count - 1
    /\ at' = [at EXCEPT ![w] = "woken"]
    /\ UNCHANGED <<waiting, running, deferred, job, adding, nSuspend, awaiting, stopper, stopping, added>>

\* Workers::Worker::run: basic_semaphore::wait returns.
wait(w) ==
    /\ at[w] = "semaphore"
    /\ m_count > 0
    /\ m_count' = m_count - 1
    /\ at' = [at EXCEPT ![w] = "woken"]
    /\ UNCHANGED <<waiting, running, deferred, job, adding, nSuspend, awaiting, stopper, stopping, added>>

\* The types getNextJob may pick from: m_jobSet has a job of the type, and the
\* type is below its limit.
Eligible == {t \in Types : waiting[t] > 0 /\ running[t] < limit[t]}

\* JobQueue::getNextJob, called by processTask: the first such job in the order
\* of the job set.
getNextJob(w) ==
    /\ at[w] = "woken"
    /\ \E t \in Eligible :
         /\ \A u \in Eligible : priority[u] <= priority[t]
         /\ waiting' = [waiting EXCEPT ![t] = @ - 1]
         /\ running' = [running EXCEPT ![t] = @ + 1]
         /\ job' = [job EXCEPT ![w] = t]
    /\ at' = [at EXCEPT ![w] = "running"]
    /\ UNCHANGED <<deferred, m_count, adding, nSuspend, awaiting, stopper, stopping, added>>

\* JobQueue::Coro::resume, the body of a job of ClientType.
resume(w) ==
    /\ at[w] = "running"
    /\ job[w] = ClientType
    /\ nSuspend' = nSuspend - 1
    /\ at' = [at EXCEPT ![w] = "resumed"]
    /\ UNCHANGED <<queue, job, adding, awaiting, stopper, stopping, added>>

\* The lock Coro::mutex_: a coroutine resumed before it has yielded waits for
\* the yield.
CoroutineYielded == \A v \in Workers : at[v] # "answered"

\* PathRequests::makeLegacyPathRequest in a resumed coroutine: the request is
\* in requests_, newPFWork added a path job unless there are two, and it found
\* that the queue is not stopping.
makeLegacyPathRequest(w) ==
    /\ at[w] = "resumed"
    /\ CoroutineYielded
    /\ PathType # NoType
    /\ ~isStopping
    /\ added < MaxJobs
    /\ added' = added + 1
    /\ IF mPathFindThread < 2 THEN queueJob(PathType) ELSE UNCHANGED queue
    /\ awaiting' = awaiting + 1
    /\ at' = [at EXCEPT ![w] = "asking"]
    /\ UNCHANGED <<job, adding, nSuspend, stopper, stopping>>

\* JobQueue::Coro::yield: the coroutine is suspended and its job returns.
yield(w) ==
    /\ at[w] \in {"asking", "answered"}
    /\ nSuspend' = nSuspend + 1
    /\ at' = [at EXCEPT ![w] = "finishing"]
    /\ UNCHANGED <<queue, job, adding, awaiting, stopper, stopping, added>>

\* PathRequests::updateAll, before each request: shouldCancel is isStopping.
shouldCancel(w) ==
    /\ at[w] = "running"
    /\ job[w] = PathType
    /\ ~isStopping
    /\ awaiting > 0
    /\ at' = [at EXCEPT ![w] = "updating"]
    /\ UNCHANGED <<queue, job, adding, nSuspend, awaiting, stopper, stopping, added>>

\* PathRequest::updateComplete calls the completion of the request, which posts
\* the coroutine or, when the queue refuses the job, resumes it in place.  The
\* request may belong to a coroutine that has not yielded yet.
updateComplete(w) ==
    /\ at[w] = "updating"
    /\ IF awaiting > 0
       THEN /\ awaiting' = awaiting - 1
            /\ \/ /\ \E v \in Workers :
                       /\ at[v] = "asking"
                       /\ at' = [at EXCEPT ![w] = "running", ![v] = "answered"]
                  /\ IF waitForClosures
                     THEN nSuspend' = nSuspend - 1 /\ UNCHANGED queue
                     ELSE queueJob(ClientType) /\ UNCHANGED nSuspend
               \/ /\ awaiting > Cardinality({v \in Workers : at[v] = "asking"})
                  /\ at' = [at EXCEPT ![w] = "running"]
                  /\ IF waitForClosures
                     THEN nSuspend' = nSuspend - 1 /\ UNCHANGED queue
                     ELSE queueJob(ClientType) /\ UNCHANGED nSuspend
       ELSE /\ at' = [at EXCEPT ![w] = "running"]
            /\ UNCHANGED <<queue, nSuspend, awaiting>>
    /\ UNCHANGED <<job, adding, stopper, stopping, added>>

\* The job's function returns and the job, with its closure, is destroyed.
doJob(w) ==
    /\ \/ at[w] = "running" /\ job[w] # ClientType
       \/ at[w] = "resumed" /\ CoroutineYielded
    /\ at' = [at EXCEPT ![w] = "finishing"]
    /\ UNCHANGED <<queue, job, adding, nSuspend, awaiting, stopper, stopping, added>>

\* Deviation: suspended coroutines are not looked at.
checkStopped_NoSuspend(place) ==
    stopping' = \/ stopping
                \/ /\ isStopping
                   /\ areChildrenStopped
                   /\ NothingRuns(place)
                   /\ NothingWaits

\* JobQueue::checkStopped, after a step that leaves the workers at place.
checkStopped(place) ==
    stopping' = \/ stopping
                \/ /\ isStopping
                   /\ areChildrenStopped
                   /\ NothingRuns(place)
                   /\ NothingWaits
                   /\ nSuspend = 0

\* Deviation: a deferred job is let through without posting the semaphore.
finishJob_NoAddTask(w) ==
    /\ at[w] = "finishing"
    /\ LET t == job[w] IN
         /\ IF deferred[t] > 0
            THEN deferred' = [deferred EXCEPT ![t] = @ - 1]
            ELSE UNCHANGED deferred
         /\ running' = [running EXCEPT ![t] = @ - 1]
    /\ at' = [at EXCEPT ![w] = "semaphore"]
    /\ job' = [job EXCEPT ![w] = NoType]
    /\ checkStopped(at')
    /\ UNCHANGED <<waiting, m_count, adding, nSuspend, awaiting, stopper, added>>

\* Deviation: the last job to finish does not check whether the queue stopped.
finishJob_NoCheck(w) ==
    /\ at[w] = "finishing"
    /\ LET t == job[w] IN
         /\ IF deferred[t] > 0
            THEN /\ deferred' = [deferred EXCEPT ![t] = @ - 1]
                 /\ m_count' = m_count + 1
            ELSE UNCHANGED <<deferred, m_count>>
         /\ running' = [running EXCEPT ![t] = @ - 1]
    /\ at' = [at EXCEPT ![w] = "semaphore"]
    /\ job' = [job EXCEPT ![w] = NoType]
    /\ UNCHANGED <<waiting, adding, nSuspend, awaiting, stopper, stopping, added>>

\* JobQueue::processTask after the job: finishJob lets a deferred job of the
\* type through, then checkStopped.
finishJob(w) ==
    /\ at[w] = "finishing"
    /\ LET t == job[w] IN
         /\ IF deferred[t] > 0
            THEN /\ deferred' = [deferred EXCEPT ![t] = @ - 1]
                 /\ m_count' = m_count + 1
            ELSE UNCHANGED <<deferred, m_count>>
         /\ running' = [running EXCEPT ![t] = @ - 1]
    /\ at' = [at EXCEPT ![w] = "semaphore"]
    /\ job' = [job EXCEPT ![w] = NoType]
    /\ checkStopped(at')
    /\ UNCHANGED <<waiting, adding, nSuspend, awaiting, stopper, added>>

-------------------------------------------------------------------------------
\* RootStoppable::stopAsync sets m_calledStop.
stopAsync ==
    /\ stopper = "up"
    /\ stopper' = "called"
    /\ UNCHANGED <<queue, at, job, adding, nSuspend, awaiting, stopping, added>>

\* ClosureCounter::join begins to wait, and returns when no closure is left;
\* onStop is then called on every component.
join ==
    /\ \/ stopper = "called" /\ stopper' = "joining"
       \/ stopper = "joining" /\ NoClosures /\ stopper' = "joined"
    /\ UNCHANGED <<queue, at, job, adding, nSuspend, awaiting, stopping, added>>

\* Stoppable::stopRecursive: the children have stopped, so their threads are
\* out of the queue and do not call it any more.
childrenStop ==
    /\ stopper = "joined"
    /\ \A a \in Threads : adding[a] = Idle
    /\ stopper' = "children"
    /\ UNCHANGED <<queue, at, job, adding, nSuspend, awaiting, stopping, added>>

\* JobQueue::onChildrenStopped.
onChildrenStopped ==
    /\ stopper = "children"
    /\ checkStopped(at)
    /\ stopper' = "notified"
    /\ UNCHANGED <<queue, at, job, adding, nSuspend, awaiting, added>>

\* Stoppable::stopRecursive: the wait for m_is_stopping ends.
stopReturns ==
    /\ stopper = "notified"
    /\ stopping
    /\ stopper' = "stopped"
    /\ UNCHANGED <<queue, at, job, adding, nSuspend, awaiting, stopping, added>>

Next ==
    \/ \E a \in Threads, t \in Types : wrap(a, t)
    \/ \E a \in Threads : postCoro(a) \/ post(a) \/ addRefCountedJob(a)
    \/ \E w \in Workers : wait(w) \/ getNextJob(w) \/ resume(w)
    \/ \E w \in Workers : makeLegacyPathRequest(w) \/ yield(w) \/ shouldCancel(w) \/ updateComplete(w)
    \/ \E w \in Workers : doJob(w) \/ finishJob(w)
    \/ stopAsync \/ join \/ childrenStop \/ onChildrenStopped \/ stopReturns

Spec == Init /\ [][Next]_vars

\* A thread inside the queue goes on, a job returns, the semaphore wakes some
\* waiting worker, and the stopping thread goes on.  Nobody has to add a job or
\* to call stop.
Fairness ==
    /\ \A a \in Threads : WF_vars(post(a) \/ addRefCountedJob(a))
    /\ WF_vars(\E w \in Workers : wait(w))
    /\ \A w \in Workers :
         /\ WF_vars(getNextJob(w) \/ resume(w) \/ yield(w) \/ updateComplete(w) \/ finishJob(w))
         /\ WF_vars(doJob(w))
    /\ WF_vars(join \/ childrenStop \/ onChildrenStopped \/ stopReturns)

FairSpec == Spec /\ Fairness

-------------------------------------------------------------------------------
\* Every variable has its type.
TypeOK ==
    /\ waiting \in [Types -> Nat]
    /\ running \in [Types -> Nat]
    /\ deferred \in [Types -> Nat]
    /\ m_count \in Nat
    /\ at \in [Workers -> Places]
    /\ job \in [Workers -> Types \cup {NoType}]
    /\ adding \in [Threads -> {Idle} \cup [step : Steps, type : Types]]
    /\ nSuspend \in Int
    /\ awaiting \in Nat
    /\ stopper \in Stages
    /\ stopping \in BOOLEAN
    /\ added \in Nat

\* One pair for each job that waits and is not deferred.
ReadyOf(waits, defers) == UNION {{t} \X (1..(waits[t] - defers[t])) : t \in Types}
Ready == ReadyOf(waiting, deferred)

\* The workers that are at one of the places p with a job of type t.
With(p, t) == {w \in Workers : at[w] \in p /\ job[w] = t}
Woken == {w \in Workers : at[w] = "woken"}

\* The semaphore and the workers it woke together hold one unit for every job
\* that is not deferred (queueJob and finishJob post, Worker::run takes,
\* getNextJob uses up): no unit is lost and none is left over.
TokensMatchJobs == m_count + Cardinality(Woken) = Cardinality(Ready)

\* The counters of a type are exact: running counts the workers that have such
\* a job and stays within the limit, and deferred is what waits beyond it, as
\* the asserts of getNextJob and finishJob take for granted.
LimitsHold ==
    \A t \in Types :
      /\ running[t] = Cardinality(With(Busy, t))
      /\ running[t] <= limit[t]
      /\ deferred[t] = IF waiting[t] + running[t] > limit[t]
                       THEN waiting[t] + running[t] - limit[t]
                       ELSE 0

\* A worker that was woken finds a job it may run (the asserts of getNextJob),
\* and a job that may run has a unit or a woken worker waiting for it: no job
\* that the limits allow is stranded in the queue.
WorkIsClaimed == (Eligible # {}) <=> (m_count > 0 \/ Woken # {})

\* nSuspend_ counts the coroutines that are suspended: the ones being posted,
\* the ones whose resume job waits or has just begun, and the ones that wait
\* for an answer; it runs behind by the coroutines that have yet to yield.
SuspendIsExact ==
    nSuspend = Cardinality({a \in Threads : adding[a].step # "idle" /\ adding[a].type = ClientType})
                 + (IF ClientType = NoType THEN 0 ELSE waiting[ClientType])
                 + Cardinality(With({"running"}, ClientType))
                 + awaiting
                 - Cardinality({w \in Workers : at[w] \in {"asking", "answered"}})

\* Once join has returned no job is in the queue or in a worker, and none gets
\* in any more, whatever the threads that were adding one had reached.
JoinedIsIdle == stopper \notin {"up", "called", "joining"} => NoClosures

\* When the queue has called stopped(), it is quiet for good: nothing waits,
\* runs or is being added, and no coroutine is left suspended.
StoppedIsQuiet ==
    stopping => /\ NothingWaits
                /\ NothingRuns(at)
                /\ \A a \in Threads : adding[a] = Idle
                /\ awaiting = 0
                /\ nSuspend = 0

\* stop() returns, except when a path request is never completed and keeps its
\* coroutine suspended: nothing else that the queue, its workers or the threads
\* that add jobs do at that moment can hold it up.
StopWaitsOnlyForPaths ==
    isStopping ~> (stopper = "stopped" \/ [](awaiting > 0))

\* Every job that waits gets its turn: with finitely many jobs added, the queue
\* of each type empties, whatever the limits deferred.
JobsAreRun == \A t \in Types : waiting[t] > 0 ~> waiting[t] = 0

=============================================================================
