-------------------------- MODULE TransactionBatch --------------------------
(***************************************************************************)
(* How NetworkOPsImp applies submitted transactions in batches             *)
(* (app/misc/NetworkOPs.cpp).  RPC threads (Clients) submit and wait;      *)
(* peers submit and go away; one of them, or a jtBATCH job run by a        *)
(* Worker, takes the whole queue mTransactions and applies it outside      *)
(* mMutex, while the others wait on mCond.                                 *)
(*                                                                         *)
(* mMutex makes everything between lock and unlock one step.  What TxQ     *)
(* answers for a transaction is external: any result may come back.        *)
(***************************************************************************)
EXTENDS Naturals, Sequences, FiniteSets

CONSTANTS Txs,         \* transactions, named by their ID
          Account,     \* the account of each transaction
          Sequence,    \* its account sequence number
          Clients,     \* RPC threads
          Workers,     \* job queue threads
          MaxSubmits   \* bound: submissions, from clients and peers together

ASSUME TxsAssumption ==
  /\ IsFiniteSet(Txs)
  /\ Sequence \in [Txs -> Nat]

ASSUME ThreadsAssumption == Clients \cap Workers = {}

Threads == Clients \cup Workers

VARIABLES mTransactions,   \* the queue of TransactionStatus entries
          mDispatchState,
          applying,        \* transactions whose canonical object has mApplying
          answered,        \* ... and those whose mResult is not temUNCERTAIN
          pc,              \* what each thread is doing
          arg,             \* the transaction a client submitted
          transactions,    \* the batch a thread has taken (apply's local)
          todo,            \* the part of it whose results are not reported yet
          submit_held,     \* held transactions released by it (apply's local)
          held,            \* LedgerMaster::mHeldTransactions
          bad,             \* transactions flagged SF_BAD in the hash router
          localTX,         \* transactions in m_localTX
          jobs,            \* jtBATCH jobs waiting for a worker
          stopping,        \* "yes" once the job queue refuses jobs
          submits          \* submissions so far

queueVars == <<mTransactions, mDispatchState, applying>>
batchVars == <<transactions, todo, submit_held>>
ledgerVars == <<answered, held, bad, localTX>>
vars == <<queueVars, batchVars, ledgerVars, pc, arg, jobs, stopping, submits>>

\* Entries made by doTransactionAsync ("peer") and doTransactionSync ("rpc")
\* hold the canonical object of a transaction; those made for released held
\* transactions ("held") hold an object of their own.
TransactionStatus ==
  [tx: Txs, from: {"peer", "rpc", "held"}, failType: {"yes", "no"}]

Results == {"tesSUCCESS", "terQUEUED", "terRETRY", "temMALFORMED", "other"}

\* The transactions whose canonical objects the entries of s hold.
canonical(s) == {s[i].tx : i \in {j \in DOMAIN s : s[j].from # "held"}}

NoThread == [a \in Threads |-> <<>>]

Init ==
  /\ mTransactions = <<>> /\ mDispatchState = "none" /\ applying = {}
  /\ transactions = NoThread /\ todo = NoThread /\ submit_held = NoThread
  /\ answered = {} /\ held = {} /\ bad = {} /\ localTX = {}
  /\ pc = [a \in Threads |-> "idle"] /\ arg = [c \in Clients |-> {}]
  /\ jobs = 0 /\ stopping = "no" /\ submits = 0

-----------------------------------------------------------------------------
\* JobQueue::addJob for a transactionBatch job, and the dispatch state after
\* it: the caller sets scheduled only when the job was accepted.
addJob == jobs' = IF stopping = "no" THEN jobs + 1 ELSE jobs
dispatchAfterAddJob == IF stopping = "no" THEN "scheduled" ELSE "none"

\* apply up to batchLock.unlock(): thread a takes the queue q.
apply(a, q) ==
  /\ mTransactions' = <<>>
  /\ transactions' = [transactions EXCEPT ![a] = q]
  /\ todo' = [todo EXCEPT ![a] = q]
  /\ submit_held' = [submit_held EXCEPT ![a] = <<>>]
  /\ mDispatchState' = "running"

\* The body of doTransactionSync's loop, for a client that holds mMutex and
\* finds the queue q.
loop(c, q) ==
  \/ /\ mDispatchState = "running"
     /\ pc' = [pc EXCEPT ![c] = "wait"]
     /\ mTransactions' = q
     /\ UNCHANGED <<batchVars, mDispatchState>>
  \/ /\ mDispatchState # "running"
     /\ apply(c, q)
     /\ pc' = [pc EXCEPT ![c] = "apply"]

\* A submission that processTransaction lets through.
processTransaction(t) ==
  /\ submits < MaxSubmits
  /\ submits' = submits + 1
  /\ t \notin bad

enqueue(t, from, f) ==
  IF t \in applying THEN mTransactions
  ELSE Append(mTransactions, [tx |-> t, from |-> from, failType |-> f])

doTransactionSync(c, t, f) ==
  /\ pc[c] = "idle"
  /\ processTransaction(t)
  /\ loop(c, enqueue(t, "rpc", f))
  /\ applying' = applying \cup {t}
  /\ arg' = [arg EXCEPT ![c] = {t}]
  /\ UNCHANGED <<ledgerVars, jobs, stopping>>

\* A client that mCond has woken tests getApplying and goes round again.
Woken(c) ==
  /\ pc[c] = "woken"
  /\ \/ /\ arg[c] \subseteq applying
        /\ loop(c, mTransactions)
     \/ /\ ~(arg[c] \subseteq applying)
        /\ pc' = [pc EXCEPT ![c] = "idle"]
        /\ UNCHANGED <<batchVars, mTransactions, mDispatchState>>
  /\ UNCHANGED <<applying, ledgerVars, arg, jobs, stopping, submits>>

\* mCond.wait may return without a notification.
Spurious(c) ==
  /\ pc[c] = "wait"
  /\ pc' = [pc EXCEPT ![c] = "woken"]
  /\ UNCHANGED <<queueVars, batchVars, ledgerVars, arg, jobs, stopping, submits>>

doTransactionAsync_AlwaysQueues(t) ==
  /\ processTransaction(t)
  /\ mTransactions' = Append(mTransactions, [tx |-> t, from |-> "peer", failType |-> "no"])
  /\ applying' = applying \cup {t}
  /\ \/ /\ mDispatchState = "none"
        /\ addJob
        /\ mDispatchState' = dispatchAfterAddJob
     \/ /\ mDispatchState # "none"
        /\ UNCHANGED <<jobs, mDispatchState>>
  /\ UNCHANGED <<batchVars, ledgerVars, pc, arg, stopping>>

doTransactionAsync(t) ==
  /\ processTransaction(t)
  /\ t \notin applying
  /\ mTransactions' = enqueue(t, "peer", "no")
  /\ applying' = applying \cup {t}
  /\ \/ /\ mDispatchState = "none"
        /\ addJob
        /\ mDispatchState' = dispatchAfterAddJob
     \/ /\ mDispatchState # "none"
        /\ UNCHANGED <<jobs, mDispatchState>>
  /\ UNCHANGED <<batchVars, ledgerVars, pc, arg, stopping>>

\* A worker runs a jtBATCH job; with a batch running or an empty queue the
\* job returns at once.
transactionBatch(w) ==
  /\ pc[w] = "idle" /\ jobs > 0
  /\ jobs' = jobs - 1
  /\ \/ /\ mDispatchState = "running" \/ mTransactions = <<>>
        /\ UNCHANGED <<pc, batchVars, mTransactions, mDispatchState>>
     \/ /\ mDispatchState # "running" /\ mTransactions # <<>>
        /\ apply(w, mTransactions)
        /\ pc' = [pc EXCEPT ![w] = "apply"]
  /\ UNCHANGED <<applying, ledgerVars, arg, stopping, submits>>

-----------------------------------------------------------------------------
\* LedgerMaster::pruneHeldTransactions for the successor of t.
prune(t) ==
  {u \in held : Account[u] = Account[t] /\ Sequence[u] = Sequence[t] + 1}

\* Entries for the transactions of S, one each.
heldEntries(S) ==
  {s \in [1 .. Cardinality(S) -> {[tx |-> u, from |-> "held", failType |-> "no"] : u \in S}] :
      \A i, j \in DOMAIN s : s[i] = s[j] => i = j}

\* What the result r of the entry e does to the held transactions: released
\* when their predecessor got in, kept when e itself has to wait.
holds(e, r) == r = "terQUEUED" \/ (r = "terRETRY" /\ e.failType = "no")
addLocal(e, r) == e.from = "rpc" /\ (r = "terRETRY" => e.failType = "no")

\* apply reports the result r of the next entry of thread a's batch.
Report(a, r) ==
  /\ pc[a] = "apply" /\ todo[a] # <<>>
  /\ LET e == Head(todo[a])
         released == IF r = "tesSUCCESS" THEN prune(e.tx) ELSE {}
     IN /\ \E s \in heldEntries(released) :
             submit_held' = [submit_held EXCEPT ![a] = @ \o s]
        /\ held' = (held \ released) \cup (IF holds(e, r) THEN {e.tx} ELSE {})
        /\ answered' = IF e.from = "held" THEN answered ELSE answered \cup {e.tx}
        /\ bad' = IF r = "temMALFORMED" THEN bad \cup {e.tx} ELSE bad
        /\ localTX' = IF addLocal(e, r) THEN localTX \cup {e.tx} ELSE localTX
  /\ todo' = [todo EXCEPT ![a] = Tail(@)]
  /\ UNCHANGED <<queueVars, transactions, pc, arg, jobs, stopping, submits>>

\* The threads after mCond.notify_all, with thread a in state p.
notify_all_Lost(a, p) == [pc EXCEPT ![a] = p]

notify_all(a, p) ==
  [x \in Threads |->
     IF x = a THEN p ELSE IF pc[x] = "wait" THEN "woken" ELSE pc[x]]

\* The queue once the released transactions have joined it.
rejoin_IfEmpty(a) ==
  IF mTransactions = <<>> THEN submit_held[a] ELSE mTransactions

rejoin(a) == mTransactions \o submit_held[a]

\* A client ends its batch; what has arrived meanwhile is left to a job.
FinishSync_NoJob(c) ==
  /\ c \in Clients /\ pc[c] = "apply" /\ todo[c] = <<>>
  /\ applying' = applying \ canonical(transactions[c])
  /\ mTransactions' = rejoin(c)
  /\ mDispatchState' = "none" /\ UNCHANGED jobs
  /\ pc' = notify_all(c, IF arg[c] \subseteq applying' THEN "woken" ELSE "idle")
  /\ transactions' = [transactions EXCEPT ![c] = <<>>]
  /\ submit_held' = [submit_held EXCEPT ![c] = <<>>]
  /\ UNCHANGED <<todo, ledgerVars, arg, stopping, submits>>

FinishSync(c) ==
  /\ c \in Clients /\ pc[c] = "apply" /\ todo[c] = <<>>
  /\ applying' = applying \ canonical(transactions[c])
  /\ mTransactions' = rejoin(c)
  /\ \/ mTransactions' # <<>> /\ addJob /\ mDispatchState' = dispatchAfterAddJob
     \/ mTransactions' = <<>> /\ mDispatchState' = "none" /\ UNCHANGED jobs
  /\ pc' = notify_all(c, IF arg[c] \subseteq applying' THEN "woken" ELSE "idle")
  /\ transactions' = [transactions EXCEPT ![c] = <<>>]
  /\ submit_held' = [submit_held EXCEPT ![c] = <<>>]
  /\ UNCHANGED <<todo, ledgerVars, arg, stopping, submits>>

\* Deviation: a worker leaves the next batch to a client that waits, which
\* nobody has notified.
FinishBatch_ForClients(w) ==
  /\ w \in Workers /\ pc[w] = "apply" /\ todo[w] = <<>>
  /\ \A c \in Clients : pc[c] = "idle"
  /\ applying' = applying \ canonical(transactions[w])
  /\ \/ /\ rejoin(w) # <<>>
        /\ apply(w, rejoin(w))
        /\ pc' = notify_all(w, "apply")
     \/ /\ rejoin(w) = <<>>
        /\ mTransactions' = <<>> /\ mDispatchState' = "none"
        /\ pc' = notify_all(w, "idle")
        /\ transactions' = [transactions EXCEPT ![w] = <<>>]
        /\ UNCHANGED <<todo, submit_held>>
  /\ UNCHANGED <<ledgerVars, arg, jobs, stopping, submits>>

\* A worker ends its batch, and takes the next one while there is one.
FinishBatch(w) ==
  /\ w \in Workers /\ pc[w] = "apply" /\ todo[w] = <<>>
  /\ applying' = applying \ canonical(transactions[w])
  /\ \/ /\ rejoin(w) # <<>>
        /\ apply(w, rejoin(w))
        /\ pc' = notify_all(w, "apply")
     \/ /\ rejoin(w) = <<>>
        /\ mTransactions' = <<>> /\ mDispatchState' = "none"
        /\ pc' = notify_all(w, "idle")
        /\ transactions' = [transactions EXCEPT ![w] = <<>>]
        /\ UNCHANGED <<todo, submit_held>>
  /\ UNCHANGED <<ledgerVars, arg, jobs, stopping, submits>>

\* When the consensus round closes the ledger, the held transactions are
\* handed to TxQ and forgotten.
applyHeldTransactions ==
  /\ held # {}
  /\ held' = {}
  /\ UNCHANGED <<queueVars, batchVars, answered, bad, localTX, pc, arg, jobs, stopping, submits>>

\* The job queue is told to stop: from now on addJob fails.
Stop ==
  /\ stopping = "no"
  /\ stopping' = "yes"
  /\ UNCHANGED <<queueVars, batchVars, ledgerVars, pc, arg, jobs, submits>>

Submit ==
  \E t \in Txs :
     \/ doTransactionAsync(t)
     \/ \E c \in Clients, f \in {"yes", "no"} : doTransactionSync(c, t, f)

Batch(a) == (\E r \in Results : Report(a, r)) \/ FinishSync(a) \/ FinishBatch(a)

RunJob == \E w \in Workers : transactionBatch(w)

Next ==
  \/ Submit \/ RunJob \/ applyHeldTransactions \/ Stop
  \/ \E c \in Clients : Woken(c) \/ Spurious(c)
  \/ \E a \in Threads : Batch(a)

\* The scheduler runs every thread that can go on, and a job that waits for
\* an idle worker is started.
Fairness ==
  /\ WF_vars(RunJob)
  /\ \A c \in Clients : WF_vars(Woken(c))
  /\ \A a \in Threads : WF_vars(Batch(a))

Spec == Init /\ [][Next]_vars /\ Fairness

-----------------------------------------------------------------------------
TypeOK ==
  /\ mTransactions \in Seq(TransactionStatus)
  /\ mDispatchState \in {"none", "scheduled", "running"}
  /\ applying \subseteq Txs /\ answered \subseteq Txs
  /\ pc \in [Threads -> {"idle", "wait", "woken", "apply"}]
  /\ arg \in [Clients -> SUBSET Txs]
  /\ transactions \in [Threads -> Seq(TransactionStatus)]
  /\ todo \in [Threads -> Seq(TransactionStatus)]
  /\ submit_held \in [Threads -> Seq(TransactionStatus)]
  /\ held \subseteq Txs /\ bad \subseteq Txs /\ localTX \subseteq Txs
  /\ jobs \in Nat /\ stopping \in {"yes", "no"} /\ submits \in Nat

\* One batch at a time: a thread is inside apply exactly while the dispatch
\* state is running, no two are, and the batch it took was not empty (the two
\* asserts at the head of apply), however clients, workers and wake-ups
\* interleave.
OneBatchAtATime ==
  /\ \A a, b \in Threads : pc[a] = "apply" /\ pc[b] = "apply" => a = b
  /\ mDispatchState = "running" <=> \E a \in Threads : pc[a] = "apply"
  /\ \A a \in Threads : pc[a] = "apply" => transactions[a] # <<>>

\* The mApplying flag of a transaction is raised exactly while its canonical
\* object sits in the queue or in the batch being applied, so a client that
\* waits for the flag to fall waits for work that somebody still has to do.
ApplyingMeansQueued ==
  applying = canonical(mTransactions) \cup UNION {canonical(transactions[a]) : a \in Threads}

\* A transaction's canonical object is never in two places at once: a second
\* submission joins the one under way.
QueuedOnce ==
  \A a \in Threads :
     LET all == mTransactions \o transactions[a]
     IN \A i, j \in DOMAIN all :
          all[i].tx = all[j].tx /\ all[i].from # "held" /\ all[j].from # "held" => i = j

\* The queue is never stranded: when it is not empty and no batch runs, a
\* transactionBatch job is waiting for a worker, unless the job queue has
\* started to refuse jobs.  A state left at scheduled always has its job,
\* although jobs also return without doing anything.
QueueIsServed ==
  /\ mTransactions # <<>> /\ mDispatchState # "running" => jobs > 0 \/ stopping = "yes"
  /\ mDispatchState = "scheduled" => jobs > 0 /\ mTransactions # <<>>

\* When doTransactionSync returns, its transaction has got a result.
AnsweredOnReturn ==
  \A c \in Clients : pc[c] = "idle" => arg[c] \subseteq answered

\* How many pieces of work on transaction t are under way.
occurrences(s, t) == Cardinality({i \in DOMAIN s : s[i].tx = t})
copies(t) ==
  occurrences(mTransactions, t) + (IF t \in held THEN 1 ELSE 0)
    + Cardinality({x \in Threads \X (1 .. MaxSubmits) :
         x[2] \in DOMAIN todo[x[1]] /\ todo[x[1]][x[2]].tx = t})
    + Cardinality({x \in Threads \X (1 .. MaxSubmits) :
         x[2] \in DOMAIN submit_held[x[1]] /\ submit_held[x[1]][x[2]].tx = t})

\* No submitted or held transaction falls between the queue, the batch, the
\* released transactions and mHeldTransactions: work on it disappears only
\* when a result for it is reported or when the held transactions are handed
\* over to TxQ at the close of the ledger.
NothingDropped ==
  [][\A t \in Txs : copies(t)' < copies(t) =>
        \/ \E a \in Threads :
             /\ todo[a] # <<>> /\ todo'[a] = Tail(todo[a])
             /\ Head(todo[a]).tx = t
        \/ held' = {} /\ UNCHANGED <<mTransactions, batchVars>>]_vars

\* Every doTransactionSync call returns: no wake-up of mCond is lost and no
\* client waits for a batch nobody runs, also while the job queue stops.
SyncReturns ==
  \A c \in Clients : pc[c] # "idle" ~> pc[c] = "idle"

\* Every queued transaction is taken by some batch, unless the job queue
\* refuses jobs.
QueueDrains ==
  mTransactions # <<>> ~> mTransactions = <<>> \/ stopping = "yes"

=============================================================================
