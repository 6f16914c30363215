----------------------- MODULE TransactionBatch_proofs -----------------------
(***************************************************************************)
(* For any transactions, clients, workers and any number of submissions:   *)
(* batches never overlap and are never empty, the mApplying flags agree    *)
(* with the queue and the running batch, the queue is never stranded, and  *)
(* a client returns with a result.                                         *)
(***************************************************************************)
EXTENDS TransactionBatch, TLAPS, SequenceTheorems, FiniteSetTheorems

\* A thread outside apply has no batch; the released transactions in
\* submit_held are never canonical objects; a client in a call has one
\* transaction to wait for.
Shape ==
  /\ \A a \in Threads : pc[a] # "apply" =>
       transactions[a] = <<>> /\ todo[a] = <<>> /\ submit_held[a] = <<>>
  /\ \A a \in Threads : canonical(submit_held[a]) = {}
  /\ \A c \in Clients : pc[c] # "idle" => arg[c] # {}
  /\ \A c \in Clients : \A t, u \in arg[c] : t = u

\* ApplyingMeansQueued, transaction by transaction, and no transaction both
\* in the queue and in a batch.
Flags ==
  /\ \A t \in Txs : t \in applying <=>
       t \in canonical(mTransactions) \/ \E a \in Threads : t \in canonical(transactions[a])
  /\ \A a \in Threads : canonical(mTransactions) \cap canonical(transactions[a]) = {}

\* A transaction of the running batch has a result or is still to be
\* reported; one that a client submitted has a result or is being applied.
Awaited ==
  /\ \A a \in Threads : \A t \in canonical(transactions[a]) :
       t \in answered \/ t \in canonical(todo[a])
  /\ \A c \in Clients : \A t \in arg[c] : t \in answered \/ t \in applying

IInv ==
  TypeOK /\ Shape /\ OneBatchAtATime /\ Flags /\ QueueIsServed /\ Awaited /\ AnsweredOnReturn

-----------------------------------------------------------------------------
\* What canonical sees of the sequences that the steps of NetworkOPsImp build.
LEMMA CanonicalEmpty == canonical(<<>>) = {}
BY DEF canonical

LEMMA CanonicalType ==
  ASSUME NEW s \in Seq(TransactionStatus)
  PROVE  canonical(s) \subseteq Txs
<1>1. \A i \in DOMAIN s : s[i] \in TransactionStatus
  BY ElementOfSeq
<1> QED BY <1>1 DEF canonical, TransactionStatus

\* Queueing an entry adds its canonical object, if it holds one.
LEMMA CanonicalAppend ==
  ASSUME NEW s \in Seq(TransactionStatus), NEW e \in TransactionStatus, e.from # "held"
  PROVE  canonical(Append(s, e)) = canonical(s) \cup {e.tx}
<1> DEFINE n == Len(s)
<1> DEFINE u == Append(s, e)
<1>1. n \in Nat /\ DOMAIN s = 1 .. n
  BY LenProperties
<1>2. DOMAIN u = 1 .. n + 1 /\ u[n + 1] = e /\ \A i \in 1 .. n : u[i] = s[i]
  BY <1>1, AppendProperties
<1>3. ASSUME NEW t \in canonical(u) PROVE t \in canonical(s) \cup {e.tx}
  <2>1. PICK i \in DOMAIN u : u[i].from # "held" /\ t = u[i].tx
    BY <1>3 DEF canonical
  <2>2. CASE i = n + 1
    BY <2>1, <2>2, <1>2
  <2>3. CASE i \in 1 .. n
    BY <2>1, <2>3, <1>1, <1>2 DEF canonical
  <2> HIDE DEF u
  <2> QED BY <2>1, <2>2, <2>3, <1>1, <1>2
<1>4. ASSUME NEW t \in canonical(s) PROVE t \in canonical(u)
  <2>1. PICK i \in DOMAIN s : s[i].from # "held" /\ t = s[i].tx
    BY <1>4 DEF canonical
  <2>2. i \in DOMAIN u /\ u[i] = s[i]
    BY <1>1, <1>2
  <2> QED BY <2>1, <2>2 DEF canonical
<1>5. e.tx \in canonical(u)
  <2>1. n + 1 \in DOMAIN u
    BY <1>1, <1>2
  <2> HIDE DEF u
  <2> QED BY <2>1, <1>2 DEF canonical
<1> HIDE DEF u
<1>6. canonical(u) = canonical(s) \cup {e.tx}
  BY <1>3, <1>4, <1>5
<1> QED BY <1>6 DEF u

\* Joining released transactions to the queue.
LEMMA CanonicalConcat ==
  ASSUME NEW s \in Seq(TransactionStatus), NEW v \in Seq(TransactionStatus),
         canonical(v) = {}
  PROVE  canonical(s \o v) = canonical(s)
<1> DEFINE n == Len(s)
<1> DEFINE m == Len(v)
<1> DEFINE u == s \o v
<1>1. n \in Nat /\ DOMAIN s = 1 .. n /\ m \in Nat /\ DOMAIN v = 1 .. m
  BY LenProperties
<1>2. DOMAIN u = 1 .. n + m /\ \A i \in 1 .. n + m : u[i] = IF i <= n THEN s[i] ELSE v[i - n]
  BY <1>1, ConcatProperties
<1>3. ASSUME NEW t \in canonical(u) PROVE t \in canonical(s)
  <2>1. PICK i \in DOMAIN u : u[i].from # "held" /\ t = u[i].tx
    BY <1>3 DEF canonical
  <2>2. CASE i <= n
    <3>1. i \in DOMAIN s /\ u[i] = s[i]
      BY <2>2, <1>1, <1>2
    <3> QED BY <3>1, <2>1 DEF canonical
  <2>3. CASE ~(i <= n)
    <3>1. i - n \in DOMAIN v /\ u[i] = v[i - n]
      BY <2>3, <1>1, <1>2
    <3>2. v[i - n].tx \in canonical(v)
      BY <3>1, <2>1 DEF canonical
    <3> QED BY <3>2
  <2> QED BY <2>2, <2>3
<1>4. ASSUME NEW t \in canonical(s) PROVE t \in canonical(u)
  <2>1. PICK i \in DOMAIN s : s[i].from # "held" /\ t = s[i].tx
    BY <1>4 DEF canonical
  <2>2. i \in DOMAIN u /\ u[i] = s[i]
    BY <1>1, <1>2
  <2> QED BY <2>1, <2>2 DEF canonical
<1> HIDE DEF u
<1>5. canonical(u) = canonical(s)
  BY <1>3, <1>4
<1> QED BY <1>5 DEF u

\* Reporting the head of a batch.
LEMMA CanonicalTail ==
  ASSUME NEW s \in Seq(TransactionStatus), s # <<>>
  PROVE  canonical(s) \subseteq
           canonical(Tail(s)) \cup (IF Head(s).from # "held" THEN {Head(s).tx} ELSE {})
<1> DEFINE n == Len(s)
<1> DEFINE u == Tail(s)
<1>1. n \in Nat /\ DOMAIN s = 1 .. n /\ n # 0
  BY LenProperties, EmptySeq
<1>2. DOMAIN u = 1 .. n - 1 /\ \A i \in 1 .. n - 1 : u[i] = s[i + 1]
  BY <1>1, HeadTailProperties, LenProperties
<1>3. Head(s) = s[1]
  BY <1>1, HeadTailProperties
<1>4. ASSUME NEW t \in canonical(s)
      PROVE t \in canonical(u) \cup (IF Head(s).from # "held" THEN {Head(s).tx} ELSE {})
  <2>1. PICK i \in DOMAIN s : s[i].from # "held" /\ t = s[i].tx
    BY <1>4 DEF canonical
  <2>2. CASE i = 1
    BY <2>1, <2>2, <1>3
  <2>3. CASE i # 1
    <3>1. i - 1 \in DOMAIN u /\ u[i - 1] = s[i]
      BY <2>3, <1>1, <1>2
    <3>2. t \in canonical(u)
      BY <3>1, <2>1 DEF canonical
    <3> QED BY <3>2
  <2> QED BY <2>2, <2>3
<1> HIDE DEF u
<1>5. canonical(s) \subseteq canonical(u) \cup (IF Head(s).from # "held" THEN {Head(s).tx} ELSE {})
  BY <1>4
<1> QED BY <1>5 DEF u

\* The entries made for released transactions hold no canonical object.
LEMMA HeldEntries ==
  ASSUME NEW S, S \subseteq Txs, NEW s \in heldEntries(S)
  PROVE  s \in Seq(TransactionStatus) /\ canonical(s) = {}
<1> DEFINE E == {[tx |-> u, from |-> "held", failType |-> "no"] : u \in S}
<1>1. Cardinality(S) \in Nat
  BY FS_Subset, FS_CardinalityType, TxsAssumption
<1>2. s \in [1 .. Cardinality(S) -> E]
  BY DEF heldEntries
<1>3. E \subseteq TransactionStatus
  BY DEF TransactionStatus
<1>4. s \in Seq(TransactionStatus)
  BY <1>1, <1>2, <1>3, SeqDef
<1>5. \A i \in DOMAIN s : s[i].from = "held"
  BY <1>2
<1> QED BY <1>4, <1>5 DEF canonical

\* A queue that holds a canonical object is not empty.
LEMMA CanonicalWitness ==
  ASSUME NEW s, NEW t \in canonical(s)
  PROVE  s # <<>>
BY CanonicalEmpty

LEMMA InitIInv == Init => IInv
<1> SUFFICES ASSUME Init PROVE IInv
  OBVIOUS
<1> USE DEF Init, NoThread
<1>1. TypeOK
  BY DEF TypeOK
<1>2. Shape
  <2>1. \A a \in Threads : /\ pc[a] = "idle" /\ submit_held[a] = <<>>
                           /\ transactions[a] = <<>> /\ todo[a] = <<>>
    OBVIOUS
  <2>2. \A a \in Threads : canonical(submit_held[a]) = {}
    BY <2>1, CanonicalEmpty
  <2>3. \A c \in Clients : pc[c] = "idle" /\ arg[c] = {}
    BY DEF Threads
  <2> QED BY <2>1, <2>2, <2>3 DEF Shape
<1>3. Flags
  <2>1. canonical(mTransactions) = {} /\ \A a \in Threads : canonical(transactions[a]) = {}
    BY CanonicalEmpty
  <2> QED BY <2>1 DEF Flags
<1>4. OneBatchAtATime /\ QueueIsServed /\ Awaited /\ AnsweredOnReturn
  BY CanonicalEmpty DEF OneBatchAtATime, QueueIsServed, Awaited, AnsweredOnReturn
<1> QED BY <1>1, <1>2, <1>3, <1>4 DEF IInv

-----------------------------------------------------------------------------
\* The state in which no batch runs: the queue alone carries the flags.
LEMMA Quiet ==
  ASSUME IInv, mDispatchState # "running"
  PROVE  /\ \A b \in Threads : /\ pc[b] # "apply"
                               /\ transactions[b] = <<>> /\ todo[b] = <<>> /\ submit_held[b] = <<>>
                               /\ canonical(transactions[b]) = {} /\ canonical(todo[b]) = {}
         /\ \A t \in Txs : t \in applying <=> t \in canonical(mTransactions)
<1>1. \A b \in Threads : pc[b] # "apply"
  BY DEF IInv, OneBatchAtATime
<1>2. \A b \in Threads : transactions[b] = <<>> /\ todo[b] = <<>> /\ submit_held[b] = <<>>
  BY <1>1 DEF IInv, Shape
<1>3. \A b \in Threads : canonical(transactions[b]) = {} /\ canonical(todo[b]) = {}
  BY <1>2, CanonicalEmpty
<1>4. \A t \in Txs : t \in applying <=> t \in canonical(mTransactions)
  BY <1>3 DEF IInv, Flags
<1> QED BY <1>1, <1>2, <1>3, <1>4

\* The state right after a thread has taken the queue.
Taken ==
  /\ OneBatchAtATime /\ Flags /\ QueueIsServed
  /\ \A b \in Threads : canonical(transactions[b]) = canonical(todo[b])
  /\ mTransactions = <<>> /\ mDispatchState = "running"
  /\ transactions \in [Threads -> Seq(TransactionStatus)]
  /\ todo \in [Threads -> Seq(TransactionStatus)]
  /\ submit_held \in [Threads -> Seq(TransactionStatus)]
  /\ \A b \in Threads : canonical(submit_held[b]) = {}
  /\ \A b \in Threads : pc[b] # "apply" =>
       transactions[b] = <<>> /\ todo[b] = <<>> /\ submit_held[b] = <<>>

\* A thread that finds no batch running and takes a queue that is not empty
\* leaves the dispatch, the flags and the batches in order.
LEMMA Taking ==
  ASSUME IInv, NEW a \in Threads, NEW q \in Seq(TransactionStatus), q # <<>>,
         mDispatchState # "running",
         apply(a, q), pc' = [pc EXCEPT ![a] = "apply"],
         \A t \in Txs : t \in applying' <=> t \in canonical(q)
  PROVE  Taken'
<1> USE DEF IInv
<1>0. /\ pc \in [Threads -> {"idle", "wait", "woken", "apply"}]
      /\ transactions \in [Threads -> Seq(TransactionStatus)]
      /\ todo \in [Threads -> Seq(TransactionStatus)]
      /\ submit_held \in [Threads -> Seq(TransactionStatus)]
  BY DEF TypeOK
<1>1. /\ mTransactions' = <<>> /\ mDispatchState' = "running"
      /\ transactions' = [transactions EXCEPT ![a] = q]
      /\ todo' = [todo EXCEPT ![a] = q]
      /\ submit_held' = [submit_held EXCEPT ![a] = <<>>]
  BY DEF apply
<1>2. \A b \in Threads : /\ pc[b] # "apply"
                         /\ transactions[b] = <<>> /\ todo[b] = <<>> /\ submit_held[b] = <<>>
  BY Quiet
<1>3. \A b \in Threads : /\ transactions'[b] = IF b = a THEN q ELSE <<>>
                         /\ todo'[b] = IF b = a THEN q ELSE <<>>
                         /\ submit_held'[b] = <<>>
                         /\ pc'[b] = "apply" <=> b = a
  BY <1>0, <1>1, <1>2
<1>4. OneBatchAtATime'
  BY <1>1, <1>3 DEF OneBatchAtATime
<1>5. Flags'
  <2>1. \A t \in Txs : t \in applying' <=>
          t \in canonical(mTransactions') \/ \E b \in Threads : t \in canonical(transactions'[b])
    BY <1>1, <1>3, CanonicalEmpty
  <2>2. canonical(mTransactions') = {}
    BY <1>1, CanonicalEmpty
  <2> QED BY <2>1, <2>2 DEF Flags
<1>6. QueueIsServed'
  BY <1>1 DEF QueueIsServed
<1>7. /\ transactions' \in [Threads -> Seq(TransactionStatus)]
      /\ todo' \in [Threads -> Seq(TransactionStatus)]
      /\ submit_held' \in [Threads -> Seq(TransactionStatus)]
  BY <1>0, <1>1
<1>8. \A b \in Threads : canonical(submit_held'[b]) = {}
  BY <1>3, CanonicalEmpty
<1>9. \A b \in Threads : pc'[b] # "apply" =>
         transactions'[b] = <<>> /\ todo'[b] = <<>> /\ submit_held'[b] = <<>>
  BY <1>3
<1> QED BY <1>1, <1>3, <1>4, <1>5, <1>6, <1>7, <1>8, <1>9 DEF Taken

-----------------------------------------------------------------------------
\* What submitting t does to the queue: t's canonical object is in it, unless
\* it is in the running batch already.
LEMMA Enqueued ==
  ASSUME IInv, NEW t \in Txs, NEW from \in {"peer", "rpc"}, NEW f \in {"yes", "no"}
  PROVE  LET q == enqueue(t, from, f)
         IN /\ q \in Seq(TransactionStatus)
            /\ canonical(q) = IF t \in applying THEN canonical(mTransactions)
                              ELSE canonical(mTransactions) \cup {t}
            /\ q = mTransactions \/ q # <<>>
            /\ t \notin applying => q # <<>>
<1> DEFINE e == [tx |-> t, from |-> from, failType |-> f]
<1>1. e \in TransactionStatus /\ e.from # "held" /\ e.tx = t
  BY DEF TransactionStatus
<1>2. mTransactions \in Seq(TransactionStatus)
  BY DEF IInv, TypeOK
<1> HIDE DEF e
<1>3. /\ Append(mTransactions, e) \in Seq(TransactionStatus)
      /\ Append(mTransactions, e) # <<>>
      /\ canonical(Append(mTransactions, e)) = canonical(mTransactions) \cup {t}
  BY <1>1, <1>2, CanonicalAppend, AppendProperties
<1>4. enqueue(t, from, f) = IF t \in applying THEN mTransactions ELSE Append(mTransactions, e)
  BY DEF enqueue, e
<1>5. CASE t \in applying
  BY <1>2, <1>4, <1>5
<1>6. CASE t \notin applying
  BY <1>3, <1>4, <1>6
<1> QED BY <1>5, <1>6

LEMMA SyncStep ==
  ASSUME IInv, NEW c \in Clients, NEW t \in Txs, NEW f \in {"yes", "no"},
         doTransactionSync(c, t, f)
  PROVE  IInv'
<1> DEFINE q == enqueue(t, "rpc", f)
<1>0. c \in Threads /\ Clients \subseteq Threads
  BY DEF Threads
<1>1. /\ q \in Seq(TransactionStatus)
      /\ canonical(q) = IF t \in applying THEN canonical(mTransactions)
                        ELSE canonical(mTransactions) \cup {t}
      /\ q = mTransactions \/ q # <<>>
      /\ t \notin applying => q # <<>>
  BY Enqueued
<1> HIDE DEF q
<1>2. /\ pc[c] = "idle" /\ loop(c, q)
      /\ applying' = applying \cup {t} /\ arg' = [arg EXCEPT ![c] = {t}]
      /\ submits < MaxSubmits /\ submits' = submits + 1
      /\ UNCHANGED <<answered, held, bad, localTX, jobs, stopping>>
  BY DEF doTransactionSync, processTransaction, ledgerVars, q
<1>t. TypeOK
  BY DEF IInv
<1>3. /\ arg' \in [Clients -> SUBSET Txs] /\ applying' \subseteq Txs /\ submits' \in Nat
      /\ answered' \subseteq Txs /\ held' \subseteq Txs /\ bad' \subseteq Txs /\ localTX' \subseteq Txs
      /\ jobs' \in Nat /\ stopping' \in {"yes", "no"}
  BY <1>2, <1>t DEF TypeOK
<1>4. \A d \in Clients : arg'[d] = IF d = c THEN {t} ELSE arg[d]
  BY <1>2, <1>t DEF TypeOK
<1>5. CASE mDispatchState = "running"
  <2>1. /\ pc' = [pc EXCEPT ![c] = "wait"] /\ mTransactions' = q
        /\ UNCHANGED <<transactions, todo, submit_held, mDispatchState>>
    BY <1>2, <1>5 DEF loop, batchVars
  <2>2. /\ pc' \in [Threads -> {"idle", "wait", "woken", "apply"}]
        /\ \A b \in Threads : pc'[b] = IF b = c THEN "wait" ELSE pc[b]
    BY <2>1, <1>t, <1>0 DEF TypeOK
  <2>3. TypeOK'
    BY <1>3, <2>1, <2>2, <1>1, <1>t DEF TypeOK
  <2>4. Shape'
    <3>1. \A b \in Threads : pc'[b] # "apply" =>
            transactions'[b] = <<>> /\ todo'[b] = <<>> /\ submit_held'[b] = <<>>
      BY <2>1, <2>2, <1>2 DEF IInv, Shape
    <3>2. \A b \in Threads : canonical(submit_held'[b]) = {}
      BY <2>1 DEF IInv, Shape
    <3>3. \A d \in Clients : /\ pc'[d] # "idle" => arg'[d] # {}
                             /\ \A x, y \in arg'[d] : x = y
      BY <1>4, <2>2, <1>0 DEF IInv, Shape
    <3> QED BY <3>1, <3>2, <3>3 DEF Shape
  <2>5. OneBatchAtATime'
    BY <2>1, <2>2, <1>2, <1>0 DEF IInv, OneBatchAtATime
  <2>6. Flags'
    <3>1. \A x \in Txs : x \in applying' <=>
            x \in canonical(q) \/ \E a \in Threads : x \in canonical(transactions[a])
      BY <1>1, <1>2 DEF IInv, Flags
    <3>2. \A a \in Threads : canonical(q) \cap canonical(transactions[a]) = {}
      BY <1>1 DEF IInv, Flags
    <3> QED BY <3>1, <3>2, <2>1 DEF Flags
  <2>7. QueueIsServed'
    BY <2>1, <1>5 DEF QueueIsServed
  <2>8. Awaited'
    BY <1>2, <1>4, <2>1 DEF IInv, Awaited
  <2>9. AnsweredOnReturn'
    BY <2>2, <1>4, <1>2, <1>0 DEF IInv, AnsweredOnReturn
  <2> QED BY <2>3, <2>4, <2>5, <2>6, <2>7, <2>8, <2>9 DEF IInv
<1>6. CASE mDispatchState # "running"
  <2>1. apply(c, q) /\ pc' = [pc EXCEPT ![c] = "apply"]
    BY <1>2, <1>6 DEF loop
  <2>2. /\ pc' \in [Threads -> {"idle", "wait", "woken", "apply"}]
        /\ \A b \in Threads : pc'[b] = IF b = c THEN "apply" ELSE pc[b]
    BY <2>1, <1>t, <1>0 DEF TypeOK
  <2>3. \A x \in Txs : x \in applying' <=> x \in canonical(q)
    BY <1>1, <1>2, <1>6, Quiet
  <2>4. q # <<>>
    <3>1. CASE t \in applying
      BY <3>1, <1>1, <1>6, Quiet, CanonicalWitness
    <3> QED BY <3>1, <1>1
  <2>5. Taken'
    BY <1>0, <1>1, <1>6, <2>1, <2>3, <2>4, Taking
  <2>6. TypeOK'
    BY <1>3, <2>2, <2>5 DEF TypeOK, Taken
  <2>7. Shape'
    <3>1. \A d \in Clients : /\ pc'[d] # "idle" => arg'[d] # {}
                             /\ \A x, y \in arg'[d] : x = y
      BY <1>4, <2>2, <1>0 DEF IInv, Shape
    <3> QED BY <3>1, <2>5 DEF Shape, Taken
  <2>8. Awaited'
    BY <1>2, <1>4, <2>5 DEF IInv, Awaited, Taken
  <2>9. AnsweredOnReturn'
    BY <2>2, <1>4, <1>2, <1>0 DEF IInv, AnsweredOnReturn
  <2> QED BY <2>5, <2>6, <2>7, <2>8, <2>9 DEF IInv, Taken
<1> QED BY <1>5, <1>6


LEMMA WokenStep ==
  ASSUME IInv, NEW c \in Clients, Woken(c)
  PROVE  IInv'
<1>0. c \in Threads /\ Clients \subseteq Threads
  BY DEF Threads
<1>t. TypeOK
  BY DEF IInv
<1>1. /\ pc[c] = "woken"
      /\ UNCHANGED <<applying, answered, held, bad, localTX, arg, jobs, stopping, submits>>
  BY DEF Woken, ledgerVars
<1>2. PICK t \in arg[c] : t \in Txs /\ arg[c] = {t}
  <2>1. arg[c] # {} /\ arg[c] \subseteq Txs /\ \A x, y \in arg[c] : x = y
    BY <1>1, <1>t DEF IInv, Shape, TypeOK
  <2> QED BY <2>1
<1>3. CASE arg[c] \subseteq applying /\ mDispatchState = "running"
  <2>1. /\ pc' = [pc EXCEPT ![c] = "wait"]
        /\ UNCHANGED <<mTransactions, transactions, todo, submit_held, mDispatchState>>
    BY <1>3 DEF Woken, loop, batchVars
  <2>2. /\ pc' \in [Threads -> {"idle", "wait", "woken", "apply"}]
        /\ \A b \in Threads : pc'[b] = IF b = c THEN "wait" ELSE pc[b]
    BY <2>1, <1>t, <1>0 DEF TypeOK
  <2>3. TypeOK'
    BY <1>1, <2>1, <2>2, <1>t DEF TypeOK
  <2>4. Shape' /\ OneBatchAtATime' /\ AnsweredOnReturn'
    BY <1>0, <1>1, <1>2, <2>1, <2>2, SMTT(30) DEF IInv, Shape, OneBatchAtATime, AnsweredOnReturn
  <2>5. Flags' /\ QueueIsServed' /\ Awaited'
    BY <1>1, <2>1 DEF IInv, Flags, QueueIsServed, Awaited
  <2> QED BY <2>3, <2>4, <2>5 DEF IInv
<1>4. CASE arg[c] \subseteq applying /\ mDispatchState # "running"
  <2>1. apply(c, mTransactions) /\ pc' = [pc EXCEPT ![c] = "apply"]
    BY <1>4 DEF Woken, loop
  <2>2. /\ pc' \in [Threads -> {"idle", "wait", "woken", "apply"}]
        /\ \A b \in Threads : pc'[b] = IF b = c THEN "apply" ELSE pc[b]
    BY <2>1, <1>t, <1>0 DEF TypeOK
  <2>3. \A x \in Txs : x \in applying' <=> x \in canonical(mTransactions)
    BY <1>1, <1>4, Quiet
  <2>4. mTransactions # <<>> /\ mTransactions \in Seq(TransactionStatus)
    BY <1>1, <1>2, <1>4, <2>3, <1>t, CanonicalWitness DEF TypeOK
  <2>5. Taken'
    BY <1>0, <1>4, <2>1, <2>3, <2>4, Taking
  <2>6. TypeOK'
    BY <1>1, <2>2, <2>5, <1>t DEF TypeOK, Taken
  <2>7. Shape'
    BY <1>0, <1>1, <2>2, <2>5 DEF IInv, Shape, Taken
  <2>8. Awaited' /\ AnsweredOnReturn'
    BY <1>0, <1>1, <2>2, <2>5 DEF IInv, Awaited, AnsweredOnReturn, Taken
  <2> QED BY <2>5, <2>6, <2>7, <2>8 DEF IInv, Taken
<1>5. CASE ~(arg[c] \subseteq applying)
  <2>1. /\ pc' = [pc EXCEPT ![c] = "idle"]
        /\ UNCHANGED <<mTransactions, transactions, todo, submit_held, mDispatchState>>
    BY <1>5 DEF Woken, batchVars
  <2>2. /\ pc' \in [Threads -> {"idle", "wait", "woken", "apply"}]
        /\ \A b \in Threads : pc'[b] = IF b = c THEN "idle" ELSE pc[b]
    BY <2>1, <1>t, <1>0 DEF TypeOK
  <2>3. TypeOK'
    BY <1>1, <2>1, <2>2, <1>t DEF TypeOK
  <2>4. Shape' /\ OneBatchAtATime'
    BY <1>0, <1>1, <1>2, <2>1, <2>2 DEF IInv, Shape, OneBatchAtATime
  <2>5. Flags' /\ QueueIsServed' /\ Awaited'
    BY <1>1, <2>1 DEF IInv, Flags, QueueIsServed, Awaited
  <2>6. AnsweredOnReturn'
    <3>1. arg[c] \subseteq answered
      BY <1>2, <1>5 DEF IInv, Awaited
    <3> QED BY <3>1, <1>0, <1>1, <2>2 DEF IInv, AnsweredOnReturn
  <2> QED BY <2>3, <2>4, <2>5, <2>6 DEF IInv
<1> QED BY <1>3, <1>4, <1>5

LEMMA SpuriousStep ==
  ASSUME IInv, NEW c \in Clients, Spurious(c)
  PROVE  IInv'
<1>0. c \in Threads /\ Clients \subseteq Threads
  BY DEF Threads
<1>t. TypeOK
  BY DEF IInv
<1>1. /\ pc[c] = "wait" /\ pc' = [pc EXCEPT ![c] = "woken"]
      /\ UNCHANGED <<mTransactions, mDispatchState, applying, transactions, todo, submit_held>>
      /\ UNCHANGED <<answered, held, bad, localTX, arg, jobs, stopping, submits>>
  BY DEF Spurious, queueVars, batchVars, ledgerVars
<1>2. /\ pc' \in [Threads -> {"idle", "wait", "woken", "apply"}]
      /\ \A b \in Threads : pc'[b] = IF b = c THEN "woken" ELSE pc[b]
  BY <1>1, <1>t, <1>0 DEF TypeOK
<1>3. TypeOK'
  BY <1>1, <1>2, <1>t DEF TypeOK
<1>4. Shape' /\ OneBatchAtATime' /\ AnsweredOnReturn'
  BY <1>0, <1>1, <1>2 DEF IInv, Shape, OneBatchAtATime, AnsweredOnReturn
<1>5. Flags' /\ QueueIsServed' /\ Awaited'
  BY <1>1 DEF IInv, Flags, QueueIsServed, Awaited
<1> QED BY <1>3, <1>4, <1>5 DEF IInv

LEMMA AsyncStep ==
  ASSUME IInv, NEW t \in Txs, doTransactionAsync(t)
  PROVE  IInv'
<1> DEFINE q == enqueue(t, "peer", "no")
<1>t. TypeOK
  BY DEF IInv
<1>1. /\ t \notin applying /\ mTransactions' = q /\ applying' = applying \cup {t}
      /\ submits' = submits + 1
      /\ UNCHANGED <<transactions, todo, submit_held>>
      /\ UNCHANGED <<answered, held, bad, localTX, pc, arg, stopping>>
  BY DEF doTransactionAsync, processTransaction, batchVars, ledgerVars
<1>2. \/ /\ mDispatchState = "none" /\ stopping = "no"
         /\ jobs' = jobs + 1 /\ mDispatchState' = "scheduled"
      \/ mDispatchState = "none" /\ stopping = "yes" /\ UNCHANGED <<jobs, mDispatchState>>
      \/ mDispatchState # "none" /\ UNCHANGED <<jobs, mDispatchState>>
  BY <1>t DEF doTransactionAsync, addJob, dispatchAfterAddJob, TypeOK
<1>3. /\ q \in Seq(TransactionStatus) /\ q # <<>>
      /\ canonical(q) = canonical(mTransactions) \cup {t}
  BY <1>1, Enqueued
<1> HIDE DEF q
<1>4. TypeOK'
  BY <1>1, <1>2, <1>3, <1>t DEF TypeOK
<1>5. Shape' /\ Awaited' /\ AnsweredOnReturn'
  BY <1>1 DEF IInv, Shape, Awaited, AnsweredOnReturn
<1>6. OneBatchAtATime'
  BY <1>1, <1>2 DEF IInv, OneBatchAtATime
<1>7. Flags'
  BY <1>1, <1>3 DEF IInv, Flags
<1>8. QueueIsServed'
  BY <1>1, <1>2, <1>3, <1>t DEF IInv, QueueIsServed, TypeOK
<1> QED BY <1>4, <1>5, <1>6, <1>7, <1>8 DEF IInv

LEMMA JobStep ==
  ASSUME IInv, NEW w \in Workers, transactionBatch(w)
  PROVE  IInv'
<1>0. w \in Threads /\ w \notin Clients /\ Clients \subseteq Threads
  BY ThreadsAssumption DEF Threads
<1>t. TypeOK
  BY DEF IInv
<1>1. /\ pc[w] = "idle" /\ jobs > 0 /\ jobs' = jobs - 1
      /\ UNCHANGED <<applying, answered, held, bad, localTX, arg, stopping, submits>>
  BY DEF transactionBatch, ledgerVars
<1>2. jobs' \in Nat
  BY <1>1, <1>t DEF TypeOK
<1>3. CASE mDispatchState = "running" \/ mTransactions = <<>>
  <2>1. UNCHANGED <<pc, mTransactions, transactions, todo, submit_held, mDispatchState>>
    BY <1>3 DEF transactionBatch, batchVars
  <2>2. TypeOK'
    BY <1>1, <1>2, <2>1, <1>t DEF TypeOK
  <2>3. Shape' /\ OneBatchAtATime' /\ AnsweredOnReturn' /\ Flags' /\ Awaited'
    BY <1>1, <2>1 DEF IInv, Shape, OneBatchAtATime, AnsweredOnReturn, Flags, Awaited
  <2>4. QueueIsServed'
    BY <1>3, <2>1 DEF IInv, QueueIsServed
  <2> QED BY <2>2, <2>3, <2>4 DEF IInv
<1>4. CASE ~(mDispatchState = "running" \/ mTransactions = <<>>)
  <2>1. apply(w, mTransactions) /\ pc' = [pc EXCEPT ![w] = "apply"]
    BY <1>4 DEF transactionBatch
  <2>2. /\ pc' \in [Threads -> {"idle", "wait", "woken", "apply"}]
        /\ \A b \in Threads : pc'[b] = IF b = w THEN "apply" ELSE pc[b]
    BY <2>1, <1>t, <1>0 DEF TypeOK
  <2>3. \A x \in Txs : x \in applying' <=> x \in canonical(mTransactions)
    BY <1>1, <1>4, Quiet
  <2>4. Taken'
    BY <1>0, <1>4, <2>1, <2>3, <1>t, Taking DEF TypeOK
  <2>5. TypeOK'
    BY <1>1, <1>2, <2>2, <2>4, <1>t DEF TypeOK, Taken
  <2>6. Shape' /\ Awaited' /\ AnsweredOnReturn'
    BY <1>0, <1>1, <2>2, <2>4 DEF IInv, Shape, Awaited, AnsweredOnReturn, Taken
  <2> QED BY <2>4, <2>5, <2>6 DEF IInv, Taken
<1> QED BY <1>3, <1>4


-----------------------------------------------------------------------------
LEMMA ReportStep ==
  ASSUME IInv, NEW a \in Threads, NEW r \in Results, Report(a, r)
  PROVE  IInv'
<1> DEFINE e == Head(todo[a])
<1> DEFINE released == IF r = "tesSUCCESS" THEN prune(e.tx) ELSE {}
<1>t. TypeOK
  BY DEF IInv
<1>1. /\ pc[a] = "apply" /\ todo[a] # <<>>
      /\ held' = (held \ released) \cup (IF holds(e, r) THEN {e.tx} ELSE {})
      /\ answered' = IF e.from = "held" THEN answered ELSE answered \cup {e.tx}
      /\ bad' = IF r = "temMALFORMED" THEN bad \cup {e.tx} ELSE bad
      /\ localTX' = IF addLocal(e, r) THEN localTX \cup {e.tx} ELSE localTX
      /\ todo' = [todo EXCEPT ![a] = Tail(@)]
      /\ UNCHANGED <<mTransactions, mDispatchState, applying, transactions>>
      /\ UNCHANGED <<pc, arg, jobs, stopping, submits>>
  BY DEF Report, queueVars
<1>2. PICK s \in heldEntries(released) : submit_held' = [submit_held EXCEPT ![a] = @ \o s]
  BY DEF Report
<1>3. todo[a] \in Seq(TransactionStatus) /\ submit_held[a] \in Seq(TransactionStatus)
  BY <1>t DEF TypeOK
<1>4. e \in TransactionStatus /\ Tail(todo[a]) \in Seq(TransactionStatus)
  BY <1>1, <1>3, HeadTailProperties
<1>5. e.tx \in Txs
  BY <1>4 DEF TransactionStatus
<1>6. released \subseteq Txs
  BY <1>t DEF prune, TypeOK
<1>7. s \in Seq(TransactionStatus) /\ canonical(s) = {}
  BY <1>2, <1>6, HeldEntries
<1>8. /\ submit_held[a] \o s \in Seq(TransactionStatus)
      /\ canonical(submit_held[a] \o s) = {}
  <2>1. canonical(submit_held[a]) = {}
    BY DEF IInv, Shape
  <2> QED BY <2>1, <1>3, <1>7, CanonicalConcat, ConcatProperties
<1>9. canonical(todo[a]) \subseteq
        canonical(Tail(todo[a])) \cup (IF e.from # "held" THEN {e.tx} ELSE {})
  BY <1>1, <1>3, CanonicalTail
<1> HIDE DEF e, released
<1>10. /\ todo' \in [Threads -> Seq(TransactionStatus)]
       /\ \A b \in Threads : todo'[b] = IF b = a THEN Tail(todo[a]) ELSE todo[b]
  BY <1>1, <1>4, <1>t DEF TypeOK
<1>11. /\ submit_held' \in [Threads -> Seq(TransactionStatus)]
       /\ \A b \in Threads : submit_held'[b] = IF b = a THEN submit_held[a] \o s ELSE submit_held[b]
  BY <1>2, <1>8, <1>t DEF TypeOK
<1>12. TypeOK'
  <2>1. answered' \subseteq Txs /\ bad' \subseteq Txs /\ localTX' \subseteq Txs
    BY <1>1, <1>5, <1>t DEF TypeOK
  <2>2. held' \subseteq Txs
    BY <1>1, <1>5, <1>t DEF TypeOK
  <2> QED BY <2>1, <2>2, <1>1, <1>10, <1>11, <1>t DEF TypeOK
<1>13. Shape'
  <2>1. \A b \in Threads : pc'[b] # "apply" =>
          transactions'[b] = <<>> /\ todo'[b] = <<>> /\ submit_held'[b] = <<>>
    BY <1>1, <1>10, <1>11 DEF IInv, Shape
  <2>2. \A b \in Threads : canonical(submit_held'[b]) = {}
    BY <1>8, <1>11 DEF IInv, Shape
  <2> QED BY <2>1, <2>2, <1>1 DEF IInv, Shape
<1>14. OneBatchAtATime' /\ Flags' /\ QueueIsServed'
  BY <1>1 DEF IInv, OneBatchAtATime, Flags, QueueIsServed
<1>15. Awaited'
  <2>1. answered \subseteq answered'
    BY <1>1
  <2>2. \A t \in canonical(todo[a]) : t \in answered' \/ t \in canonical(todo'[a])
    BY <1>1, <1>9, <1>10
  <2>3. \A b \in Threads : \A t \in canonical(transactions[b]) :
          t \in answered' \/ t \in canonical(todo'[b])
    BY <2>1, <2>2, <1>10 DEF IInv, Awaited
  <2> QED BY <2>1, <2>3, <1>1 DEF IInv, Awaited
<1>16. AnsweredOnReturn'
  BY <1>1 DEF IInv, AnsweredOnReturn
<1> QED BY <1>12, <1>13, <1>14, <1>15, <1>16 DEF IInv

\* When thread a ends its batch: nobody else is in apply, every transaction
\* of the batch has its result, and exactly the flags of the queue stay up.
LEMMA Finishing ==
  ASSUME IInv, NEW a \in Threads, pc[a] = "apply", todo[a] = <<>>,
         applying' = applying \ canonical(transactions[a])
  PROVE  /\ \A b \in Threads : b # a =>
              pc[b] # "apply" /\ transactions[b] = <<>> /\ todo[b] = <<>> /\ submit_held[b] = <<>>
         /\ canonical(transactions[a]) \subseteq answered
         /\ applying' \subseteq Txs
         /\ rejoin(a) \in Seq(TransactionStatus)
         /\ canonical(rejoin(a)) = canonical(mTransactions)
         /\ \A t \in Txs : t \in applying' <=> t \in canonical(mTransactions)
<1>1. \A b \in Threads : b # a =>
         pc[b] # "apply" /\ transactions[b] = <<>> /\ todo[b] = <<>> /\ submit_held[b] = <<>>
  BY DEF IInv, OneBatchAtATime, Shape
<1>2. canonical(transactions[a]) \subseteq answered
  BY CanonicalEmpty DEF IInv, Awaited
<1>3. applying' \subseteq Txs
  BY DEF IInv, TypeOK
<1>4. rejoin(a) \in Seq(TransactionStatus) /\ canonical(rejoin(a)) = canonical(mTransactions)
  <2>1. /\ mTransactions \in Seq(TransactionStatus) /\ submit_held[a] \in Seq(TransactionStatus)
        /\ canonical(submit_held[a]) = {}
    BY DEF IInv, TypeOK, Shape
  <2> QED BY <2>1, CanonicalConcat, ConcatProperties DEF rejoin
<1>5. \A b \in Threads : b # a => canonical(transactions[b]) = {}
  BY <1>1, CanonicalEmpty
<1>6. \A t \in Txs : t \in applying' <=> t \in canonical(mTransactions)
  BY <1>5 DEF IInv, Flags
<1> QED BY <1>1, <1>2, <1>3, <1>4, <1>6

LEMMA FinishSyncStep ==
  ASSUME IInv, NEW c \in Clients, FinishSync(c)
  PROVE  IInv'
<1> DEFINE p == IF arg[c] \subseteq applying' THEN "woken" ELSE "idle"
<1>0. c \in Threads /\ Clients \subseteq Threads
  BY DEF Threads
<1>t. TypeOK
  BY DEF IInv
<1>1. /\ pc[c] = "apply" /\ todo[c] = <<>>
      /\ applying' = applying \ canonical(transactions[c])
      /\ mTransactions' = rejoin(c) /\ pc' = notify_all(c, p)
      /\ transactions' = [transactions EXCEPT ![c] = <<>>]
      /\ submit_held' = [submit_held EXCEPT ![c] = <<>>]
      /\ UNCHANGED <<todo, answered, held, bad, localTX, arg, stopping, submits>>
  BY DEF FinishSync, ledgerVars
<1>2. \/ /\ mTransactions' # <<>> /\ stopping = "no"
         /\ jobs' = jobs + 1 /\ mDispatchState' = "scheduled"
      \/ mTransactions' # <<>> /\ stopping = "yes" /\ jobs' = jobs /\ mDispatchState' = "none"
      \/ mTransactions' = <<>> /\ jobs' = jobs /\ mDispatchState' = "none"
  BY <1>t DEF FinishSync, addJob, dispatchAfterAddJob, TypeOK
<1>3. /\ \A b \in Threads : b # c =>
           pc[b] # "apply" /\ transactions[b] = <<>> /\ todo[b] = <<>> /\ submit_held[b] = <<>>
      /\ canonical(transactions[c]) \subseteq answered
      /\ applying' \subseteq Txs
      /\ rejoin(c) \in Seq(TransactionStatus)
      /\ canonical(rejoin(c)) = canonical(mTransactions)
      /\ \A t \in Txs : t \in applying' <=> t \in canonical(mTransactions)
  BY <1>0, <1>1, Finishing
<1>4. p \in {"woken", "idle"}
  OBVIOUS
<1>5. /\ pc' \in [Threads -> {"idle", "wait", "woken", "apply"}]
      /\ \A b \in Threads : pc'[b] = IF b = c THEN p ELSE IF pc[b] = "wait" THEN "woken" ELSE pc[b]
  <2> HIDE DEF p
  <2> QED BY <1>1, <1>4, <1>t DEF notify_all, TypeOK
<1>6. \A b \in Threads : /\ transactions'[b] = <<>> /\ todo'[b] = <<>> /\ submit_held'[b] = <<>>
                         /\ pc'[b] # "apply"
  <2> HIDE DEF p
  <2> QED BY <1>0, <1>1, <1>3, <1>4, <1>5, <1>t DEF TypeOK
<1>7. TypeOK'
  <2>1. /\ transactions' \in [Threads -> Seq(TransactionStatus)]
        /\ submit_held' \in [Threads -> Seq(TransactionStatus)]
    BY <1>1, <1>t DEF TypeOK
  <2>2. jobs' \in Nat /\ mDispatchState' \in {"none", "scheduled", "running"}
    BY <1>2, <1>t DEF TypeOK
  <2> QED BY <2>1, <2>2, <1>1, <1>3, <1>5, <1>t DEF TypeOK
<1>9. Shape'
  <2>1. \A b \in Threads : canonical(submit_held'[b]) = {}
    BY <1>6, CanonicalEmpty
  <2>2. arg[c] # {}
    BY <1>1 DEF IInv, Shape
  <2>3. \A d \in Clients : pc'[d] # "idle" => arg'[d] # {}
    <3> HIDE DEF p
    <3> QED BY <2>2, <1>0, <1>1, <1>4, <1>5 DEF IInv, Shape
  <2> QED BY <2>1, <2>3, <1>1, <1>6 DEF IInv, Shape
<1>10. OneBatchAtATime'
  BY <1>2, <1>6 DEF OneBatchAtATime
<1>11. Flags'
  <2>1. \A b \in Threads : canonical(transactions'[b]) = {}
    BY <1>6, CanonicalEmpty
  <2> QED BY <2>1, <1>1, <1>3 DEF Flags
<1>12. QueueIsServed'
  BY <1>1, <1>2, <1>t DEF QueueIsServed, TypeOK
<1>13. Awaited'
  <2>1. \A b \in Threads : canonical(transactions'[b]) = {}
    BY <1>6, CanonicalEmpty
  <2> QED BY <2>1, <1>1, <1>3 DEF IInv, Awaited
<1>14. AnsweredOnReturn'
  <2>1. ASSUME NEW d \in Clients, pc'[d] = "idle" PROVE arg'[d] \subseteq answered'
    <3>1. CASE d = c
      <4>1. ~(arg[c] \subseteq applying')
        BY <2>1, <3>1, <1>0, <1>5
      <4>2. \A x, y \in arg[c] : x = y
        BY DEF IInv, Shape
      <4> QED BY <4>1, <4>2, <3>1, <1>1, <1>13 DEF Awaited
    <3>2. CASE d # c
      <4>1. pc[d] = "idle"
        BY <2>1, <3>2, <1>0, <1>5
      <4> QED BY <4>1, <1>1 DEF IInv, AnsweredOnReturn
    <3> QED BY <3>1, <3>2
  <2> QED BY <2>1 DEF AnsweredOnReturn
<1> QED BY <1>7, <1>9, <1>10, <1>11, <1>12, <1>13, <1>14 DEF IInv


LEMMA FinishBatchStep ==
  ASSUME IInv, NEW w \in Workers, FinishBatch(w)
  PROVE  IInv'
<1> DEFINE q == rejoin(w)
<1>0. w \in Threads /\ w \notin Clients /\ Clients \subseteq Threads
  BY ThreadsAssumption DEF Threads
<1>t. TypeOK
  BY DEF IInv
<1>1. /\ pc[w] = "apply" /\ todo[w] = <<>>
      /\ applying' = applying \ canonical(transactions[w])
      /\ UNCHANGED <<answered, held, bad, localTX, arg, jobs, stopping, submits>>
  BY DEF FinishBatch, ledgerVars
<1>3. /\ \A b \in Threads : b # w =>
           pc[b] # "apply" /\ transactions[b] = <<>> /\ todo[b] = <<>> /\ submit_held[b] = <<>>
      /\ canonical(transactions[w]) \subseteq answered
      /\ applying' \subseteq Txs
      /\ q \in Seq(TransactionStatus)
      /\ canonical(q) = canonical(mTransactions)
      /\ \A t \in Txs : t \in applying' <=> t \in canonical(mTransactions)
  BY <1>0, <1>1, Finishing
<1>4. \A c \in Clients : \A t \in arg'[c] : t \in answered' \/ t \in applying'
  BY <1>1, <1>3 DEF IInv, Awaited
<1>5. CASE q # <<>>
  <2>1. /\ mTransactions' = <<>> /\ mDispatchState' = "running"
        /\ transactions' = [transactions EXCEPT ![w] = q]
        /\ todo' = [todo EXCEPT ![w] = q]
        /\ submit_held' = [submit_held EXCEPT ![w] = <<>>]
        /\ pc' = notify_all(w, "apply")
    BY <1>5 DEF FinishBatch, apply
  <2> HIDE DEF q
  <2>2. /\ pc' \in [Threads -> {"idle", "wait", "woken", "apply"}]
        /\ \A b \in Threads : pc'[b] = IF b = w THEN "apply" ELSE IF pc[b] = "wait" THEN "woken" ELSE pc[b]
    BY <2>1, <1>t DEF notify_all, TypeOK
  <2>3. \A b \in Threads : /\ transactions'[b] = IF b = w THEN q ELSE <<>>
                           /\ todo'[b] = IF b = w THEN q ELSE <<>>
                           /\ submit_held'[b] = <<>>
                           /\ pc'[b] = "apply" <=> b = w
    BY <1>0, <1>3, <2>1, <2>2, <1>t DEF TypeOK
  <2>4. TypeOK'
    <3>1. /\ transactions' \in [Threads -> Seq(TransactionStatus)]
          /\ todo' \in [Threads -> Seq(TransactionStatus)]
          /\ submit_held' \in [Threads -> Seq(TransactionStatus)]
      <4>1. q \in Seq(TransactionStatus) /\ <<>> \in Seq(TransactionStatus)
        BY <1>3, EmptySeq
      <4> QED BY <4>1, <2>1, <1>t DEF TypeOK
    <3> QED BY <3>1, <2>1, <2>2, <1>1, <1>3, <1>t DEF TypeOK
  <2>5. Shape'
    <3>1. \A b \in Threads : canonical(submit_held'[b]) = {}
      BY <2>3, CanonicalEmpty
    <3>2. \A d \in Clients : pc'[d] # "idle" => arg'[d] # {}
      <4>1. \A d \in Clients : pc'[d] # "idle" => pc[d] # "idle"
        BY <1>0, <2>2
      <4> QED BY <4>1, <1>1 DEF IInv, Shape
    <3> QED BY <3>1, <3>2, <2>3, <1>1 DEF IInv, Shape
  <2>6. OneBatchAtATime'
    BY <1>0, <1>5, <2>1, <2>3 DEF OneBatchAtATime
  <2>7. Flags'
    <3>1. canonical(mTransactions') = {}
      BY <2>1, CanonicalEmpty
    <3>2. \A t \in Txs : t \in applying' <=> \E b \in Threads : t \in canonical(transactions'[b])
      BY <1>0, <1>3, <2>3, CanonicalEmpty
    <3> QED BY <3>1, <3>2 DEF Flags
  <2>8. QueueIsServed'
    BY <2>1 DEF QueueIsServed
  <2>9. Awaited'
    BY <1>4, <2>3 DEF Awaited
  <2>10. AnsweredOnReturn'
    BY <1>0, <1>1, <2>2 DEF IInv, AnsweredOnReturn
  <2> QED BY <2>4, <2>5, <2>6, <2>7, <2>8, <2>9, <2>10 DEF IInv
<1>6. CASE q = <<>>
  <2>1. /\ mTransactions' = <<>> /\ mDispatchState' = "none"
        /\ pc' = notify_all(w, "idle")
        /\ transactions' = [transactions EXCEPT ![w] = <<>>]
        /\ UNCHANGED <<todo, submit_held>>
    BY <1>6 DEF FinishBatch
  <2>e. submit_held[w] = <<>>
    <3>1. mTransactions \in Seq(TransactionStatus) /\ submit_held[w] \in Seq(TransactionStatus)
      BY <1>0, <1>t DEF TypeOK
    <3>2. Len(mTransactions) + Len(submit_held[w]) = 0
      BY <1>6, <3>1, ConcatProperties DEF rejoin
    <3>3. Len(submit_held[w]) = 0
      BY <3>1, <3>2, LenProperties
    <3> QED BY <3>1, <3>3, EmptySeq
  <2> HIDE DEF q
  <2>2. /\ pc' \in [Threads -> {"idle", "wait", "woken", "apply"}]
        /\ \A b \in Threads : pc'[b] = IF b = w THEN "idle" ELSE IF pc[b] = "wait" THEN "woken" ELSE pc[b]
    BY <2>1, <1>t DEF notify_all, TypeOK
  <2>3. \A b \in Threads : /\ transactions'[b] = <<>> /\ todo'[b] = <<>> /\ submit_held'[b] = <<>>
                           /\ pc'[b] # "apply"
    BY <1>0, <1>1, <1>3, <2>1, <2>2, <2>e, <1>t DEF TypeOK
  <2>4. TypeOK'
    <3>1. transactions' \in [Threads -> Seq(TransactionStatus)]
      <4>1. <<>> \in Seq(TransactionStatus)
        BY EmptySeq
      <4> QED BY <4>1, <2>1, <1>t DEF TypeOK
    <3> QED BY <3>1, <2>1, <2>2, <1>1, <1>3, <1>t DEF TypeOK
  <2>5. Shape'
    <3>1. \A b \in Threads : canonical(submit_held'[b]) = {}
      BY <2>3, CanonicalEmpty
    <3>2. \A d \in Clients : pc'[d] # "idle" => arg'[d] # {}
      <4>1. \A d \in Clients : pc'[d] # "idle" => pc[d] # "idle"
        BY <1>0, <2>2
      <4> QED BY <4>1, <1>1 DEF IInv, Shape
    <3> QED BY <3>1, <3>2, <2>3, <1>1 DEF IInv, Shape
  <2>6. OneBatchAtATime'
    BY <2>1, <2>3 DEF OneBatchAtATime
  <2>7. Flags'
    <3>1. canonical(mTransactions') = {} /\ canonical(mTransactions) = {}
      BY <2>1, <1>3, <1>6, CanonicalEmpty
    <3>2. \A b \in Threads : canonical(transactions'[b]) = {}
      BY <2>3, CanonicalEmpty
    <3> QED BY <3>1, <3>2, <1>3 DEF Flags
  <2>8. QueueIsServed'
    BY <2>1 DEF QueueIsServed
  <2>9. Awaited'
    BY <1>4, <2>3, CanonicalEmpty DEF Awaited
  <2>10. AnsweredOnReturn'
    BY <1>0, <1>1, <2>2 DEF IInv, AnsweredOnReturn
  <2> QED BY <2>4, <2>5, <2>6, <2>7, <2>8, <2>9, <2>10 DEF IInv
<1> QED BY <1>5, <1>6

\* The steps of the ledger close and of the job queue's stop.
LEMMA OtherStep ==
  ASSUME IInv, applyHeldTransactions \/ Stop \/ UNCHANGED vars
  PROVE  IInv'
<1>1. /\ UNCHANGED <<mTransactions, mDispatchState, applying, transactions, todo, submit_held>>
      /\ UNCHANGED <<answered, bad, localTX, pc, arg, jobs, submits>>
      /\ held' = held \/ held' = {}
      /\ stopping' = stopping \/ stopping' = "yes"
  BY DEF applyHeldTransactions, Stop, vars, queueVars, batchVars, ledgerVars
<1>2. TypeOK'
  BY <1>1 DEF IInv, TypeOK
<1>3. Shape' /\ OneBatchAtATime' /\ Flags' /\ Awaited' /\ AnsweredOnReturn'
  BY <1>1 DEF IInv, Shape, OneBatchAtATime, Flags, Awaited, AnsweredOnReturn
<1>4. QueueIsServed'
  BY <1>1 DEF IInv, QueueIsServed
<1> QED BY <1>2, <1>3, <1>4 DEF IInv

LEMMA NextStep ==
  ASSUME IInv, [Next]_vars
  PROVE  IInv'
<1>1. ASSUME NEW t \in Txs, doTransactionAsync(t) PROVE IInv'
  BY <1>1, AsyncStep
<1>2. ASSUME NEW t \in Txs, NEW c \in Clients, NEW f \in {"yes", "no"}, doTransactionSync(c, t, f)
      PROVE IInv'
  BY <1>2, SyncStep
<1>3. ASSUME NEW w \in Workers, transactionBatch(w) PROVE IInv'
  BY <1>3, JobStep
<1>4. ASSUME NEW c \in Clients, Woken(c) \/ Spurious(c) PROVE IInv'
  BY <1>4, WokenStep, SpuriousStep
<1>5. ASSUME NEW a \in Threads, NEW r \in Results, Report(a, r) PROVE IInv'
  BY <1>5, ReportStep
<1>6. ASSUME NEW a \in Threads, FinishSync(a) PROVE IInv'
  <2>1. a \in Clients
    BY <1>6 DEF FinishSync
  <2> QED BY <1>6, <2>1, FinishSyncStep
<1>7. ASSUME NEW a \in Threads, FinishBatch(a) PROVE IInv'
  <2>1. a \in Workers
    BY <1>7 DEF FinishBatch
  <2> QED BY <1>7, <2>1, FinishBatchStep
<1>8. ASSUME applyHeldTransactions \/ Stop \/ UNCHANGED vars PROVE IInv'
  BY <1>8, OtherStep
<1> QED BY <1>1, <1>2, <1>3, <1>4, <1>5, <1>6, <1>7, <1>8 DEF Next, Submit, RunJob, Batch

LEMMA AlwaysIInv == Spec => []IInv
BY InitIInv, NextStep, PTL DEF Spec

-----------------------------------------------------------------------------
\* Batches never overlap: the two asserts at the head of NetworkOPsImp::apply
\* hold for any number of clients and workers.
THEOREM BatchesNeverOverlap == Spec => []OneBatchAtATime
<1>1. IInv => OneBatchAtATime
  BY DEF IInv
<1> QED BY <1>1, AlwaysIInv, PTL

\* A transaction is marked as being applied exactly while it is in the queue
\* or in the running batch.
THEOREM FlagsAreExact == Spec => []ApplyingMeansQueued
<1>1. IInv => ApplyingMeansQueued
  <2> SUFFICES ASSUME IInv PROVE ApplyingMeansQueued
    OBVIOUS
  <2>1. applying \subseteq Txs /\ canonical(mTransactions) \subseteq Txs
    BY CanonicalType DEF IInv, TypeOK
  <2>2. \A a \in Threads : canonical(transactions[a]) \subseteq Txs
    BY CanonicalType DEF IInv, TypeOK
  <2>3. \A t \in Txs : t \in applying <=>
          t \in canonical(mTransactions) \/ \E a \in Threads : t \in canonical(transactions[a])
    BY DEF IInv, Flags
  <2> QED BY <2>1, <2>2, <2>3 DEF ApplyingMeansQueued
<1> QED BY <1>1, AlwaysIInv, PTL

\* Submitted transactions are never left in the queue without a job, or a
\* running batch, to take them.
THEOREM QueueNeverStranded == Spec => []QueueIsServed
<1>1. IInv => QueueIsServed
  BY DEF IInv
<1> QED BY <1>1, AlwaysIInv, PTL

\* doTransactionSync returns only once its transaction has a result.
THEOREM ReturnsAnswered == Spec => []AnsweredOnReturn
<1>1. IInv => AnsweredOnReturn
  BY DEF IInv
<1> QED BY <1>1, AlwaysIInv, PTL

-----------------------------------------------------------------------------
\* No canonical object is twice in the entries of s.
Once(s) ==
  \A i, j \in DOMAIN s : s[i].tx = s[j].tx /\ s[i].from # "held" /\ s[j].from # "held" => i = j

\* QueuedOnce, for the queue and for each batch by itself.
EachOnce == Once(mTransactions) /\ \A a \in Threads : Once(transactions[a])

\* Two sequences without a canonical object in common.
LEMMA OnceConcat ==
  ASSUME NEW s \in Seq(TransactionStatus), NEW v \in Seq(TransactionStatus),
         Once(s), Once(v), canonical(s) \cap canonical(v) = {}
  PROVE  Once(s \o v)
<1> DEFINE n == Len(s)
           m == Len(v)
           u == s \o v
<1>1. n \in Nat /\ DOMAIN s = 1 .. n /\ m \in Nat /\ DOMAIN v = 1 .. m
  BY LenProperties
<1>2. DOMAIN u = 1 .. n + m /\ \A i \in 1 .. n + m : u[i] = IF i <= n THEN s[i] ELSE v[i - n]
  BY <1>1, ConcatProperties
<1> HIDE DEF n, m, u
<1>0. ASSUME NEW k \in DOMAIN u
      PROVE  /\ k \in Nat
             /\ k <= n => k \in DOMAIN s /\ u[k] = s[k]
             /\ ~(k <= n) => k - n \in DOMAIN v /\ u[k] = v[k - n]
  <2>1. k \in 1 .. n + m /\ k \in Nat
    BY <1>1, <1>2
  <2>2. u[k] = IF k <= n THEN s[k] ELSE v[k - n]
    BY <1>2, <2>1
  <2>3. k <= n => k \in DOMAIN s
    BY <1>1, <2>1
  <2>4. ~(k <= n) => k - n \in DOMAIN v
    BY <1>1, <2>1
  <2> QED BY <2>1, <2>2, <2>3, <2>4, Zenon
<1>3. ASSUME NEW i \in DOMAIN u, NEW j \in DOMAIN u,
             u[i].tx = u[j].tx, u[i].from # "held", u[j].from # "held"
      PROVE  i = j
  <2>1. /\ i \in Nat /\ j \in Nat
        /\ i <= n => i \in DOMAIN s /\ u[i] = s[i] /\ u[i].tx \in canonical(s)
        /\ j <= n => j \in DOMAIN s /\ u[j] = s[j] /\ u[j].tx \in canonical(s)
    <3>1. i \in Nat /\ j \in Nat /\ (i <= n => i \in DOMAIN s /\ u[i] = s[i])
          /\ (j <= n => j \in DOMAIN s /\ u[j] = s[j])
      BY <1>0
    <3> QED BY <3>1, <1>3 DEF canonical
  <2>2. /\ ~(i <= n) => i - n \in DOMAIN v /\ u[i] = v[i - n] /\ u[i].tx \in canonical(v)
        /\ ~(j <= n) => j - n \in DOMAIN v /\ u[j] = v[j - n] /\ u[j].tx \in canonical(v)
    <3>1. /\ ~(i <= n) => i - n \in DOMAIN v /\ u[i] = v[i - n]
          /\ ~(j <= n) => j - n \in DOMAIN v /\ u[j] = v[j - n]
      BY <1>0
    <3> QED BY <3>1, <1>3 DEF canonical
  <2>3. CASE i <= n /\ j <= n
    BY <2>1, <2>3, <1>3 DEF Once
  <2>4. CASE ~(i <= n) /\ ~(j <= n)
    <3>1. i - n = j - n
      BY <2>2, <2>4, <1>3 DEF Once
    <3> QED BY <3>1, <2>1, <1>1
  <2>5. CASE (i <= n /\ ~(j <= n)) \/ (~(i <= n) /\ j <= n)
    BY <2>1, <2>2, <2>5, <1>3
  <2> QED BY <2>3, <2>4, <2>5
<1>4. Once(u)
  BY <1>3 DEF Once
<1> QED BY <1>4 DEF u

\* The released transactions join the queue.
LEMMA OnceRejoin ==
  ASSUME NEW s \in Seq(TransactionStatus), NEW v \in Seq(TransactionStatus),
         Once(s), canonical(v) = {}
  PROVE  Once(s \o v)
<1>1. Once(v)
  <2>1. ASSUME NEW i \in DOMAIN v PROVE v[i].from = "held"
    <3>1. v[i].from # "held" => v[i].tx \in canonical(v)
      BY DEF canonical
    <3> QED BY <3>1
  <2> QED BY <2>1 DEF Once
<1> QED BY <1>1, OnceConcat

\* A submission is queued only when its transaction is not being applied.
LEMMA OnceEnqueue ==
  ASSUME IInv, EachOnce, NEW t \in Txs, NEW from \in {"peer", "rpc"}, NEW f \in {"yes", "no"}
  PROVE  Once(enqueue(t, from, f))
<1> DEFINE e == [tx |-> t, from |-> from, failType |-> f]
<1>1. mTransactions \in Seq(TransactionStatus) /\ Once(mTransactions)
  BY DEF IInv, TypeOK, EachOnce
<1>2. CASE t \in applying
  BY <1>1, <1>2 DEF enqueue
<1>3. CASE t \notin applying
  <2>1. e \in TransactionStatus /\ e.tx = t /\ e.from # "held"
    BY DEF TransactionStatus
  <2>2. t \notin canonical(mTransactions)
    BY <1>3 DEF IInv, Flags
  <2>3. enqueue(t, from, f) = Append(mTransactions, e)
    BY <1>3 DEF enqueue
  <2> HIDE DEF e
  <2> DEFINE n == Len(mTransactions)
             u == Append(mTransactions, e)
  <2>4. n \in Nat /\ DOMAIN mTransactions = 1 .. n
    BY <1>1, LenProperties
  <2>5. DOMAIN u = 1 .. n + 1 /\ u[n + 1] = e /\ \A i \in 1 .. n : u[i] = mTransactions[i]
    BY <1>1, <2>1, <2>4, AppendProperties
  <2> HIDE DEF n, u
  <2>6. ASSUME NEW i \in 1 .. n, u[i].from # "held" PROVE u[i].tx # t
    <3>1. i \in DOMAIN mTransactions /\ mTransactions[i].from # "held" /\ u[i] = mTransactions[i]
      BY <2>4, <2>5, <2>6
    <3>2. u[i].tx \in canonical(mTransactions)
      BY <3>1 DEF canonical
    <3> QED BY <2>2, <3>2
  <2>7. ASSUME NEW i \in DOMAIN u, NEW j \in DOMAIN u,
               u[i].tx = u[j].tx, u[i].from # "held", u[j].from # "held"
        PROVE  i = j
    <3>1. (i = n + 1 \/ i \in 1 .. n) /\ (j = n + 1 \/ j \in 1 .. n)
      BY <2>4, <2>5
    <3>2. CASE i \in 1 .. n /\ j \in 1 .. n
      BY <1>1, <2>4, <2>5, <2>7, <3>2 DEF Once
    <3>3. CASE i = n + 1 \/ j = n + 1
      BY <2>1, <2>5, <2>6, <2>7, <3>1, <3>3
    <3> QED BY <3>1, <3>2, <3>3
  <2>8. Once(u)
    BY <2>7 DEF Once
  <2> QED BY <2>3, <2>8 DEF u
<1> QED BY <1>2, <1>3

\* Every step leaves the queue a sequence without repetition, or moves it
\* to the batch of a thread.
LEMMA OnceMoved ==
  ASSUME EachOnce, transactions \in [Threads -> Seq(TransactionStatus)], NEW a \in Threads, NEW q, Once(q),
         \/ mTransactions' = q /\ transactions' = transactions
         \/ mTransactions' = <<>> /\ transactions' = [transactions EXCEPT ![a] = q]
         \/ mTransactions' = q /\ transactions' = [transactions EXCEPT ![a] = <<>>]
  PROVE  EachOnce'
<1>1. Once(<<>>)
  BY DEF Once
<1>2. ASSUME NEW b \in Threads PROVE transactions'[b] \in {transactions[b], q, <<>>}
  OBVIOUS
<1>3. \A b \in Threads : Once(transactions'[b])
  BY <1>1, <1>2 DEF EachOnce
<1>4. mTransactions' = q \/ mTransactions' = <<>>
  OBVIOUS
<1>5. Once(mTransactions')
  BY <1>1, <1>4
<1> QED BY <1>3, <1>5 DEF EachOnce

LEMMA OnceStep ==
  ASSUME IInv, EachOnce, [Next]_vars PROVE EachOnce'
<1>1. /\ transactions \in [Threads -> Seq(TransactionStatus)] /\ Once(mTransactions)
      /\ mTransactions \in Seq(TransactionStatus)
  BY DEF IInv, TypeOK, EachOnce
<1>2. ASSUME UNCHANGED <<mTransactions, transactions>> PROVE EachOnce'
  BY <1>2 DEF EachOnce
<1>3. ASSUME NEW c \in Threads, NEW q, Once(q), loop(c, q) PROVE EachOnce'
  <2>1. \/ mTransactions' = q /\ transactions' = transactions
        \/ mTransactions' = <<>> /\ transactions' = [transactions EXCEPT ![c] = q]
    BY <1>3 DEF loop, apply, batchVars
  <2> QED BY <1>1, <1>3, <2>1, OnceMoved
<1>4. ASSUME NEW t \in Txs, doTransactionAsync(t) PROVE EachOnce'
  <2>1. UNCHANGED transactions /\ mTransactions' = enqueue(t, "peer", "no")
    BY <1>4 DEF doTransactionAsync, batchVars
  <2>2. Once(enqueue(t, "peer", "no"))
    BY OnceEnqueue
  <2> QED BY <2>1, <2>2 DEF EachOnce
<1>5. ASSUME NEW t \in Txs, NEW c \in Clients, NEW f \in {"yes", "no"}, doTransactionSync(c, t, f) PROVE EachOnce'
  <2>1. loop(c, enqueue(t, "rpc", f)) /\ c \in Threads
    BY <1>5 DEF doTransactionSync, Threads
  <2>2. Once(enqueue(t, "rpc", f))
    BY OnceEnqueue
  <2> QED BY <1>3, <2>1, <2>2
<1>6. ASSUME NEW c \in Clients, Woken(c) \/ Spurious(c) PROVE EachOnce'
  <2>1. loop(c, mTransactions) \/ UNCHANGED <<mTransactions, transactions>>
    BY <1>6 DEF Woken, Spurious, queueVars, batchVars
  <2>2. c \in Threads
    BY DEF Threads
  <2> QED BY <1>1, <1>2, <1>3, <2>1, <2>2
<1>7. ASSUME NEW w \in Workers, transactionBatch(w) PROVE EachOnce'
  <2>1. \/ UNCHANGED <<mTransactions, transactions>>
        \/ mTransactions' = <<>> /\ transactions' = [transactions EXCEPT ![w] = mTransactions]
    BY <1>7 DEF transactionBatch, apply, batchVars
  <2>2. w \in Threads
    BY DEF Threads
  <2> QED BY <1>1, <1>2, <2>1, <2>2, OnceMoved
<1>8. ASSUME NEW a \in Threads, NEW r \in Results, Report(a, r) PROVE EachOnce'
  BY <1>2, <1>8 DEF Report, queueVars
<1>9. ASSUME NEW a \in Threads, FinishSync(a) \/ FinishBatch(a) PROVE EachOnce'
  <2>1. \/ mTransactions' = rejoin(a) /\ transactions' = [transactions EXCEPT ![a] = <<>>]
        \/ mTransactions' = <<>> /\ transactions' = [transactions EXCEPT ![a] = rejoin(a)]
    BY <1>9 DEF FinishSync, FinishBatch, apply
  <2>2. submit_held[a] \in Seq(TransactionStatus) /\ canonical(submit_held[a]) = {}
    BY DEF IInv, TypeOK, Shape
  <2>3. Once(rejoin(a))
    BY <1>1, <2>2, OnceRejoin DEF rejoin
  <2> QED BY <1>1, <2>1, <2>3, OnceMoved
<1>10. ASSUME applyHeldTransactions \/ Stop \/ UNCHANGED vars PROVE EachOnce'
  BY <1>2, <1>10 DEF applyHeldTransactions, Stop, vars, queueVars, batchVars
<1> QED BY <1>4, <1>5, <1>6, <1>7, <1>8, <1>9, <1>10 DEF Next, Submit, RunJob, Batch

\* A transaction is never queued or applied twice at a time, however its
\* submissions by peers and clients overlap with batches.
THEOREM NeverQueuedTwice == Spec => []QueuedOnce
<1>1. Init => EachOnce
  BY DEF Init, EachOnce, Once, NoThread
<1>2. ASSUME IInv, EachOnce PROVE QueuedOnce
  <2>1. SUFFICES ASSUME NEW a \in Threads PROVE Once(mTransactions \o transactions[a])
    BY DEF QueuedOnce, Once
  <2>2. /\ mTransactions \in Seq(TransactionStatus) /\ transactions[a] \in Seq(TransactionStatus)
        /\ Once(mTransactions) /\ Once(transactions[a])
        /\ canonical(mTransactions) \cap canonical(transactions[a]) = {}
    BY <1>2 DEF IInv, TypeOK, EachOnce, Flags
  <2> QED BY <2>2, OnceConcat
<1> QED BY <1>1, <1>2, OnceStep, AlwaysIInv, PTL DEF Spec

=============================================================================
