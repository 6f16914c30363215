------------------------------ MODULE LedgerMaster ------------------------------
(******************************************************************************)
(* How a server decides that a ledger is fully validated and publishes the    *)
(* validated ledgers in order: app/ledger/impl/LedgerMaster.cpp with          *)
(* Ledger.cpp and PendingSaves.h, driven by arriving validations              *)
(* (RCLValidations.cpp), completed acquisitions (InboundLedger.cpp) and the   *)
(* consensus thread (RCLConsensus.cpp).                                       *)
(*                                                                            *)
(* Each action is one critical section of m_mutex, or one stretch of code     *)
(* that runs without it.  A ledger is the path that leads to it from the      *)
(* genesis ledger, so its sequence is the length of the path, its parent the  *)
(* path without its last element, and hashOfSeq a prefix.  <<>> is no ledger. *)
(* The clock tests of canBeCurrent are taken to succeed.                      *)
(******************************************************************************)
EXTENDS Integers, Sequences, FiniteSetsExt

CONSTANTS
    Validators,      \* the trusted validators
    Quorum,          \* ValidatorList::quorum
    Ledgers,         \* the ledgers there are
    Signed,          \* the ones the validators sign
    Built,           \* the ones this server's consensus can build
    Stored,          \* ledgers in the node store when the server starts
    Rows,            \* the Ledgers table when the server starts
    MAX_LEDGER_GAP,
    HistorySize,     \* ledger_history_
    MaxCalls,        \* bound: validations whose checkAccept has not returned
    MaxRounds,       \* bound: consensus rounds
    MaxFailures      \* bound: saves that fail

ASSUME LedgersAssumption ==
    /\ Ledgers \subseteq Seq(Nat)
    /\ \A l \in Ledgers : l # <<>> /\ \A n \in 1..Len(l) : SubSeq(l, 1, n) \in Ledgers
    /\ Stored \cup Signed \cup Built \subseteq Ledgers
    /\ MAX_LEDGER_GAP \in Nat \ {0} /\ Quorum \in Nat \ {0}

\* The table has a place for every sequence there is.
ASSUME RowsAssumption ==
    /\ Rows \in [DOMAIN Rows -> Ledgers \cup {<<>>}]
    /\ 0 \in DOMAIN Rows /\ \A l \in Ledgers : Len(l) \in DOMAIN Rows

VARIABLES
    byLedger,        \* the trusted full validations held for each ledger
    current,         \* the ledger of each validator's newest validation
    calls,           \* checkAccept(hash, seq) calls that have not run
    accepting,       \* checkAccept(ledger) calls waiting for m_mutex
    held,            \* ledgers that getLedgerByHash finds
    acquiring,       \* acquisitions in progress
    consensus,       \* the consensus thread
    mValidLedger,
    mLastValidLedger,
    mPubLedger,
    advance,         \* the advance thread, mAdvanceWork and mHistLedger
    fill,            \* the tryFill job
    db               \* the Ledgers table, mCompleteLedgers and PendingSaves

inputs == <<byLedger, current>>
vars == <<byLedger, current, calls, accepting, held, acquiring,
          consensus, mValidLedger, mLastValidLedger, mPubLedger, advance, fill,
          db>>

None == <<>>
seq(l) == Len(l)
parent(l) == SubSeq(l, 1, Len(l) - 1)
hashOfSeq(l, s) == SubSeq(l, 1, s)

mValidLedgerSeq == seq(mValidLedger)
mPubLedgerSeq == seq(mPubLedger)
mBuildingLedgerSeq == IF consensus.pc = "building" THEN seq(consensus.ledger) + 1 ELSE 0

numTrustedForLedger(l) == Cardinality(byLedger[l])

--------------------------------------------------------------------------------
(* Saving a ledger: pendSaveValidated, saveValidatedLedger, PendingSaves.     *)

clearLedger(d, s) == [d EXCEPT !.complete = @ \ {s}]

\* saveValidatedLedger past startWork: the row of the sequence is replaced, or
\* the ledger turns out to be incomplete and failedSave clears its sequence.
saveValidatedLedger(d, l, ok) ==
  LET done == [d EXCEPT !.pending = @ \ {seq(l)}] IN
  IF ok THEN [done EXCEPT !.rows[seq(l)] = l]
        ELSE [clearLedger(done, seq(l)) EXCEPT !.failed = @ \cup {l}]

pendSaveValidated_NotPending(d, l, isSynchronous, ok) ==
  LET flagged == [d EXCEPT !.flags = @ \cup {l}] IN
  IF l \in d.flags /\ (~isSynchronous \/ seq(l) \notin d.pending) THEN d
  ELSE IF isSynchronous THEN saveValidatedLedger(flagged, l, ok)
  ELSE IF seq(l) \in d.pending THEN flagged
  ELSE [flagged EXCEPT !.jobs = @ \cup {l}]

\* SF_SAVED keeps a ledger from being saved twice, PendingSaves two ledgers of
\* one sequence from being queued together.
pendSaveValidated(d, l, isSynchronous, ok) ==
  LET flagged == [d EXCEPT !.flags = @ \cup {l}] IN
  IF l \in d.flags /\ (~isSynchronous \/ seq(l) \notin d.pending) THEN d
  ELSE IF isSynchronous THEN saveValidatedLedger(flagged, l, ok)
  ELSE IF seq(l) \in d.pending THEN flagged
  ELSE [flagged EXCEPT !.pending = @ \cup {seq(l)}, !.jobs = @ \cup {l}]

\* Whether a save succeeds is decided by the data of the ledger.
Outcomes == IF Cardinality(db.failed) < MaxFailures THEN BOOLEAN ELSE {TRUE}

\* failedSave also asks for the ledger again.
reacquired(d) == acquiring \cup (d.failed \ db.failed)

SaveJob(l, ok) ==
  /\ l \in db.jobs
  /\ LET taken == [db EXCEPT !.jobs = @ \ {l}] IN
     db' = IF seq(l) \in db.pending THEN saveValidatedLedger(taken, l, ok) ELSE taken
  /\ acquiring' = reacquired(db')
  /\ UNCHANGED <<inputs, calls, accepting, held, consensus, mValidLedger,
                 mLastValidLedger, mPubLedger, advance, fill>>

--------------------------------------------------------------------------------
(* Accepting a ledger.                                                        *)

tryAdvance_Idle(a, valid) ==
  IF a.pc = "idle" /\ valid # None THEN [a EXCEPT !.work = TRUE, !.pc = "find"] ELSE a

\* Queue the advance thread, unless it runs: then it will loop again.
tryAdvance(a, valid) ==
  [a EXCEPT !.work = TRUE, !.pc = IF a.pc = "idle" /\ valid # None THEN "find" ELSE @]

HandleValidation(v, l) ==
  /\ seq(l) > seq(current[v])
  /\ Cardinality(calls \cup {c.ledger : c \in accepting}) < MaxCalls
  /\ byLedger' = [byLedger EXCEPT ![l] = @ \cup {v}]
  /\ current' = [current EXCEPT ![v] = l]
  /\ calls' = calls \cup {l}
  /\ UNCHANGED <<accepting, held, acquiring, consensus, mValidLedger,
                 mLastValidLedger, mPubLedger, advance, fill, db>>

\* checkAccept(hash, seq): a ledger that is neither old nor being built is
\* looked up, and asked for when it is missing.
wanted(l) == seq(l) > mValidLedgerSeq /\ seq(l) # mBuildingLedgerSeq

checkAcceptHash(l, then) ==
  /\ mLastValidLedger' =
       IF /\ seq(l) >= mValidLedgerSeq
          /\ numTrustedForLedger(l) >= Quorum
          /\ seq(l) > seq(mLastValidLedger)
         THEN l ELSE mLastValidLedger
  /\ accepting' = IF wanted(l) /\ l \in held
                    THEN accepting \cup {[ledger |-> l, then |-> then]} ELSE accepting
  /\ acquiring' = IF wanted(l) /\ l \notin held THEN acquiring \cup {l} ELSE acquiring

CheckAcceptHash(l) ==
  /\ l \in calls
  /\ calls' = calls \ {l}
  /\ checkAcceptHash(l, "return")
  /\ UNCHANGED <<inputs, held, consensus, mValidLedger, mPubLedger, advance,
                 fill, db>>

\* canBeCurrent, without its clock.
canBeCurrent(l) == seq(l) >= mValidLedgerSeq

acceptable_NoRecheck(l) == numTrustedForLedger(l) >= Quorum

acceptable(l) == seq(l) > mValidLedgerSeq /\ numTrustedForLedger(l) >= Quorum

\* The part of checkAccept(ledger) under m_mutex, and what its caller does next.
CheckAccept(c, ok) ==
  /\ c \in accepting
  /\ accepting' = accepting \ {c}
  /\ consensus' = [consensus EXCEPT !.pc = IF c.then \in {"recheck", "switch"} THEN c.then ELSE @]
  /\ IF acceptable(c.ledger)
       THEN /\ mValidLedger' = c.ledger
            /\ advance' = tryAdvance(advance, mValidLedger')
            /\ IF mPubLedger = None
                 THEN /\ db' = pendSaveValidated(db, c.ledger, TRUE, ok)
                      /\ mPubLedger' = c.ledger
                 ELSE UNCHANGED <<db, mPubLedger>>
       ELSE /\ advance' = IF c.then = "advance" THEN tryAdvance(advance, mValidLedger) ELSE advance
            /\ UNCHANGED <<mValidLedger, mPubLedger, db>>
  /\ acquiring' = reacquired(db')
  /\ UNCHANGED <<inputs, calls, held, mLastValidLedger, fill>>

\* InboundLedger::done: the ledger is stored, offered to checkAccept, and then
\* tryAdvance is called in any case.
Acquired(l) ==
  /\ l \in acquiring
  /\ acquiring' = acquiring \ {l}
  /\ held' = held \cup {l}
  /\ IF canBeCurrent(l)
       THEN accepting' = accepting \cup {[ledger |-> l, then |-> "advance"]} /\ UNCHANGED advance
       ELSE advance' = tryAdvance(advance, mValidLedger) /\ UNCHANGED accepting
  /\ UNCHANGED <<inputs, calls, consensus, mValidLedger, mLastValidLedger, mPubLedger,
                 fill, db>>

--------------------------------------------------------------------------------
(* The consensus thread: onClose, buildLCL, consensusBuilt, switchLCL.        *)

CloseLedger(l) ==
  /\ consensus.pc = "idle" /\ consensus.rounds < MaxRounds
  /\ l \in held /\ \E b \in Built : parent(b) = l
  /\ consensus' = [pc |-> "building", ledger |-> l, rounds |-> consensus.rounds + 1]
  /\ UNCHANGED <<inputs, calls, accepting, held, acquiring, mValidLedger,
                 mLastValidLedger, mPubLedger, advance, fill, db>>

ConsensusBuilt(l) ==
  /\ consensus.pc = "building"
  /\ parent(l) = consensus.ledger
  /\ held' = held \cup {l}
  /\ IF seq(l) <= mValidLedgerSeq
       THEN /\ consensus' = [consensus EXCEPT !.pc = "switch", !.ledger = l]
            /\ UNCHANGED accepting
       ELSE /\ consensus' = [consensus EXCEPT !.pc = "accept", !.ledger = l]
            /\ accepting' = accepting \cup {[ledger |-> l, then |-> "recheck"]}
  /\ UNCHANGED <<inputs, calls, acquiring, mValidLedger, mLastValidLedger,
                 mPubLedger, advance, fill, db>>

\* The ledgers that more than a quorum of the current validations name.
newest_None == {}

newest ==
  LET named == {l \in Ledgers : /\ Cardinality({v \in Validators : current[v] = l}) > Quorum
                                /\ seq(l) > mValidLedgerSeq}
  IN  {l \in named : \A m \in named : seq(m) <= seq(l)}

\* The rest of consensusBuilt: was a ledger other than ours validated?
Recheck ==
  /\ consensus.pc = "recheck"
  /\ IF seq(consensus.ledger) <= mValidLedgerSeq \/ newest = {}
       THEN /\ consensus' = [consensus EXCEPT !.pc = "switch"]
            /\ UNCHANGED <<accepting, acquiring, mLastValidLedger>>
       ELSE \E l \in newest :
              /\ checkAcceptHash(l, "switch")
              /\ consensus' = [consensus EXCEPT !.pc = IF l \in held THEN "accept" ELSE "switch"]
  /\ UNCHANGED <<inputs, calls, held, mValidLedger, mPubLedger, advance, fill,
                 db>>

SwitchLCL ==
  /\ consensus.pc = "switch"
  /\ consensus' = [consensus EXCEPT !.pc = "idle", !.ledger = None]
  /\ accepting' = IF canBeCurrent(consensus.ledger)
                    THEN accepting \cup {[ledger |-> consensus.ledger, then |-> "return"]}
                    ELSE accepting
  /\ UNCHANGED <<inputs, calls, held, acquiring, mValidLedger,
                 mLastValidLedger, mPubLedger, advance, fill, db>>

--------------------------------------------------------------------------------
(* The advance thread: doAdvance and what it calls.                           *)

\* The end of an iteration of doAdvance: loop while there is work.
again(a, progress) ==
  [a EXCEPT !.work = a.work \/ progress, !.seq = 0, !.target = None, !.list = <<>>,
            !.pc = IF a.work \/ progress THEN "find" ELSE "idle"]

\* RangeSet.h: the sequences below s that are not complete.
missingBelow(s) == IF db.complete = {} THEN {} ELSE (1..(s - 1)) \ db.complete

shouldAcquire(s) == mValidLedgerSeq - s <= HistorySize

\* With nothing to publish, look for a hole in the history unless the server is
\* busy (its load, its write load and its queue of old ledgers).
lookBack(a, busy) ==
  LET gaps == missingBelow(mPubLedgerSeq)
      last == Max(gaps)
  IN  IF busy \/ mValidLedgerSeq # mPubLedgerSeq
        THEN again([a EXCEPT !.hist = None], FALSE)
        ELSE IF gaps # {} /\ (fill.seq = 0 \/ last > fill.seq) /\ shouldAcquire(last)
               THEN [a EXCEPT !.pc = "fetch", !.seq = last, !.target = None]
               ELSE again(a, FALSE)

\* findNewLedgersToPublish up to the point where it releases m_mutex.  There is
\* a published ledger as soon as there is a validated one (CheckAccept).
FindNewLedgersToPublish(busy) ==
  LET started == [advance EXCEPT !.work = FALSE] IN
  /\ advance.pc = "find"
  /\ IF mValidLedgerSeq > mPubLedgerSeq + MAX_LEDGER_GAP
       THEN /\ mPubLedger' = mValidLedger
            /\ advance' = [started EXCEPT !.pc = "full", !.list = <<mValidLedger>>]
       ELSE /\ UNCHANGED mPubLedger
            /\ advance' = IF mValidLedgerSeq <= mPubLedgerSeq
                            THEN lookBack(started, busy)
                            ELSE [started EXCEPT !.pc = "scan", !.list = <<>>,
                                                 !.seq = mPubLedgerSeq + 1, !.target = mValidLedger]
  /\ UNCHANGED <<inputs, calls, accepting, held, acquiring, consensus,
                 mValidLedger, mLastValidLedger, fill, db>>

\* One iteration of its loop: only a ledger that follows the ones already found
\* is published now, and a missing one is asked for.
follows_Any(s) == TRUE

follows(s) == s = mPubLedgerSeq + Len(advance.list) + 1

Scan ==
  LET s == advance.seq
      l == hashOfSeq(advance.target, s)
      found == s = seq(advance.target) \/ l \in held
  IN
  /\ advance.pc = "scan" /\ s <= seq(advance.target)
  /\ advance' = [advance EXCEPT !.seq = s + 1,
                                !.list = IF found /\ follows(s) THEN Append(@, l) ELSE @]
  /\ acquiring' = IF found THEN acquiring ELSE acquiring \cup {l}
  /\ UNCHANGED <<inputs, calls, accepting, held, consensus, mValidLedger,
                 mLastValidLedger, mPubLedger, fill, db>>

Scanned(busy) ==
  /\ advance.pc = "scan" /\ advance.seq > seq(advance.target)
  /\ advance' = IF advance.list = <<>> THEN lookBack(advance, busy)
                                       ELSE [advance EXCEPT !.pc = "full", !.seq = 0, !.target = None]
  /\ UNCHANGED <<inputs, calls, accepting, held, acquiring, consensus,
                 mValidLedger, mLastValidLedger, mPubLedger, fill, db>>

\* setFullLedger before it takes m_mutex.
makeFull(d, l, isSynchronous, ok) ==
  LET prior == seq(l) - 1
      cleared == IF prior > 0 /\ d.rows[prior] \notin {None, parent(l)} THEN clearLedger(d, prior) ELSE d
      saved == pendSaveValidated(cleared, l, isSynchronous, ok)
  IN  [saved EXCEPT !.complete = @ \cup {seq(l)}]

\* getLedgerBySeq for a sequence at or below the validated one.
getLedgerBySeq(s) ==
  LET l == hashOfSeq(mValidLedger, s) IN IF l \in held \cup {mValidLedger} THEN l ELSE None

\* fixMismatch: everything complete above the last ledger in common goes.
fixMismatch(complete, l) ==
  LET below == {s \in complete : s < seq(l)}
      match == {s \in below : getLedgerBySeq(s) = hashOfSeq(l, s)}
  IN  complete \ {s \in below : \A m \in match : s > m}

\* The part of setFullLedger under m_mutex: the ledger it is given is at or
\* below the validated one, so setValidLedger is not reached.
checkPrior(d, l) ==
  LET prior == seq(l) - 1 IN
  IF prior \in d.complete /\ getLedgerBySeq(prior) # parent(l)
    THEN [d EXCEPT !.complete = fixMismatch(@, l)]
    ELSE d

SetFullLedger(ok) ==
  /\ advance.pc \in {"full", "histfull"}
  /\ db' = makeFull(db, Head(advance.list), advance.pc = "full", ok)
  /\ acquiring' = reacquired(db')
  /\ advance' = [advance EXCEPT !.pc = IF @ = "full" THEN "check" ELSE "histcheck"]
  /\ UNCHANGED <<inputs, calls, accepting, held, consensus, mValidLedger,
                 mLastValidLedger, mPubLedger, fill>>

CheckPrior ==
  /\ advance.pc \in {"check", "histcheck"}
  /\ db' = checkPrior(db, Head(advance.list))
  /\ advance' = [advance EXCEPT !.pc = IF @ = "check" THEN "publish" ELSE "hist"]
  /\ UNCHANGED <<inputs, calls, accepting, held, acquiring, consensus,
                 mValidLedger, mLastValidLedger, mPubLedger, fill>>

\* setPubLedger, and pubLedger tells the subscribers; after the last one newPFWork reports progress.
Publish ==
  /\ advance.pc = "publish"
  /\ mPubLedger' = Head(advance.list)
  /\ LET rest == [advance EXCEPT !.list = Tail(@)] IN
     advance' = IF rest.list = <<>> THEN again(rest, TRUE) ELSE [rest EXCEPT !.pc = "full"]
  /\ UNCHANGED <<inputs, calls, accepting, held, acquiring, consensus,
                 mValidLedger, mLastValidLedger, fill, db>>

\* fetchForHistory: a missing ledger is asked for together with the ones below.
FetchForHistory ==
  LET s == advance.seq
      from == IF seq(advance.hist) >= s THEN advance.hist ELSE mValidLedger
      l == hashOfSeq(from, s)
  IN
  /\ advance.pc = "fetch"
  /\ IF l \in held
       THEN /\ advance' = [advance EXCEPT !.pc = "histfull", !.seq = 0, !.list = <<l>>]
            /\ UNCHANGED acquiring
       ELSE /\ advance' = [advance EXCEPT !.pc = "fetched"]
            /\ acquiring' = acquiring \cup ({hashOfSeq(from, i) : i \in 1..s} \ held)
  /\ UNCHANGED <<inputs, calls, accepting, held, consensus, mValidLedger,
                 mLastValidLedger, mPubLedger, fill, db>>

\* The history ledger is complete.  When the table already has its parent, a
\* job goes on from there.
HistoryFetched ==
  LET l == Head(advance.list) IN
  /\ advance.pc = "hist"
  /\ advance' = again([advance EXCEPT !.hist = l], TRUE)
  /\ fill' = IF fill.seq = 0 /\ db.rows[seq(l) - 1] = parent(l)
               THEN [seq |-> seq(l), ledger |-> l, hashes |-> None] ELSE fill
  /\ UNCHANGED <<inputs, calls, accepting, held, acquiring, consensus,
                 mValidLedger, mLastValidLedger, mPubLedger, db>>

NotFetched ==
  /\ advance.pc = "fetched"
  /\ advance' = again(advance, mValidLedgerSeq # mPubLedgerSeq)
  /\ UNCHANGED <<inputs, calls, accepting, held, acquiring, consensus,
                 mValidLedger, mLastValidLedger, mPubLedger, fill, db>>

\* tryFill reads the hashes of the table once (getHashesByIndex) ...
FillRead ==
  /\ fill.seq > 0 /\ fill.hashes = None
  /\ fill' = [fill EXCEPT !.hashes = db.rows]
  /\ db' = [db EXCEPT !.complete = @ \cup {fill.seq}]
  /\ UNCHANGED <<inputs, calls, accepting, held, acquiring, consensus,
                 mValidLedger, mLastValidLedger, mPubLedger, advance>>

\* ... and marks as complete the rows that are linked to its ledger, down to
\* the first that is not or that is complete already.
linked_Unchecked(s) == fill.hashes[s] # None

linked(s) == fill.hashes[s] = hashOfSeq(fill.ledger, s)

TryFill ==
  LET run == {s \in 1..(fill.seq - 1) :
                \A t \in s..(fill.seq - 1) : t \notin db.complete /\ linked(t)}
  IN
  /\ fill.seq > 0 /\ fill.hashes # None
  /\ db' = [db EXCEPT !.complete = @ \cup run \cup {fill.seq}]
  /\ fill' = [seq |-> 0, ledger |-> None, hashes |-> None]
  /\ advance' = tryAdvance(advance, mValidLedger)
  /\ UNCHANGED <<inputs, calls, accepting, held, acquiring, consensus,
                 mValidLedger, mLastValidLedger, mPubLedger>>

--------------------------------------------------------------------------------
Init ==
  /\ byLedger = [l \in Ledgers |-> {}] /\ current = [v \in Validators |-> None]
  /\ calls = {} /\ accepting = {} /\ acquiring = {}
  /\ held = Stored
  /\ consensus = [pc |-> "idle", ledger |-> None, rounds |-> 0]
  /\ mValidLedger = None /\ mLastValidLedger = None /\ mPubLedger = None
  /\ advance = [pc |-> "idle", work |-> FALSE, seq |-> 0, target |-> None,
                list |-> <<>>, hist |-> None]
  /\ fill = [seq |-> 0, ledger |-> None, hashes |-> None]
  /\ db = [rows |-> Rows, complete |-> {}, flags |-> {}, pending |-> {}, jobs |-> {}, failed |-> {}]

AdvanceThread ==
  \/ \E busy \in BOOLEAN : FindNewLedgersToPublish(busy) \/ Scanned(busy)
  \/ \E ok \in Outcomes : SetFullLedger(ok)
  \/ Scan
  \/ CheckPrior
  \/ Publish
  \/ FetchForHistory
  \/ HistoryFetched
  \/ NotFetched

ConsensusThread ==
  \/ \E l \in Built : ConsensusBuilt(l)
  \/ Recheck
  \/ SwitchLCL

Jobs ==
  \/ \E l \in calls : CheckAcceptHash(l)
  \/ \E c \in accepting, ok \in Outcomes : CheckAccept(c, ok)
  \/ \E l \in db.jobs, ok \in Outcomes : SaveJob(l, ok)
  \/ FillRead
  \/ TryFill

Arrive == \E l \in acquiring : Acquired(l)

Next ==
  \/ \E v \in Validators, l \in Signed : HandleValidation(v, l)
  \/ \E l \in held : CloseLedger(l)
  \/ Arrive
  \/ ConsensusThread
  \/ Jobs
  \/ AdvanceThread

Spec == Init /\ [][Next]_vars

\* The threads run, and a ledger some peer has is eventually received.
Fairness ==
  WF_vars(AdvanceThread) /\ WF_vars(ConsensusThread) /\ WF_vars(Jobs) /\ WF_vars(Arrive)

FairSpec == Spec /\ Fairness

--------------------------------------------------------------------------------
\* The validated ledger only moves to a higher sequence, however the calls of
\* checkAccept for different ledgers overlap (LedgerMaster.cpp:645).
ValidatedMovesForward == [][seq(mValidLedger') > seq(mValidLedger)]_mValidLedger

\* The stream of published ledgers has no hole and no repetition: after the
\* first the next one has the next sequence, or it jumps ahead because more than
\* MAX_LEDGER_GAP are missing (findNewLedgersToPublish).
PublishedInOrder ==
  [][\/ mPubLedger = None
     \/ seq(mPubLedger') = seq(mPubLedger) + 1
     \/ seq(mPubLedger') > seq(mPubLedger) + MAX_LEDGER_GAP]_mPubLedger

\* The history the server says it has is a chain: the saved ledgers of two
\* successive complete sequences are parent and child (setFullLedger clears a
\* prior ledger that does not fit, tryFill stops at one).  A failed save is the
\* exception: SF_SAVED then keeps the ledger from being saved again.
saveFailed(s) == \E l \in db.failed : seq(l) = s

HistoryIsLinked ==
  \A s \in db.complete :
     /\ s - 1 \in db.complete
     /\ \A t \in {s - 1, s} : t \notin db.pending /\ ~saveFailed(t) /\ db.rows[t] # None
     => db.rows[s - 1] = parent(db.rows[s])

\* A sequence reported as complete is saved or about to be, unless the save of
\* a ledger of this sequence failed.
CompleteIsSaved ==
  \A s \in db.complete : db.rows[s] # None \/ s \in db.pending \/ saveFailed(s)

\* A validated ledger is eventually published, or overtaken: no call of
\* tryAdvance is lost while the advance thread runs without m_mutex.
ValidatedIsPublished ==
  \A l \in Signed : mValidLedger = l ~> mPubLedgerSeq >= seq(l)

\* When more than a quorum of the validators have their newest validation on a
\* ledger for good, it or a later one becomes the validated ledger, although
\* checkAccept drops the validations of the sequence that is being built.
QuorumIsNoticed ==
  \A l \in Signed :
     [](Cardinality({v \in Validators : current[v] = l}) > Quorum)
        ~> mValidLedgerSeq >= seq(l)

================================================================================
