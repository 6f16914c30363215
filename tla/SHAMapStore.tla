------------------------------ MODULE SHAMapStore ------------------------------
(******************************************************************************)
(* Online deletion (SHAMapStoreImp.cpp) on the rotating node store            *)
(* (DatabaseRotatingImp.cpp, Database.cpp): the thread that copies the state  *)
(* of a validated ledger into the writable backend, puts a new backend in its *)
(* place and deletes the archive, while ledgers are stored and nodes fetched, *)
(* the health of the server changes, and the server stops or crashes.         *)
(*                                                                            *)
(* A node object is its hash.  The state of the ledger with sequence i is the *)
(* set State[i] of nodes.  The tables that are cleared batch by batch are one *)
(* table, of which the rows below "cleared" are deleted.  What a backend has  *)
(* stored is on disk.                                                         *)
(******************************************************************************)
EXTENDS Integers, Sequences, FiniteSets

CONSTANTS
    Nodes,           \* node objects
    State,           \* the nodes of the state of each ledger, in a sequence
    Dirs,            \* names of directories unique_path may find
    DeleteInterval,  \* setup_.deleteInterval
    DeleteBatch,     \* setup_.deleteBatch
    Grants,          \* sequences the operator may set with can_delete
    MaxCrashes,      \* bound: crashes
    MaxSick          \* bound: times the server loses its health

NoDir == "none"
NoLedger == 0

ASSUME StateAssumption == State \in Seq(SUBSET Nodes)
ASSUME DirsAssumption == NoDir \notin Dirs /\ \E d, e \in Dirs : d # e
ASSUME DeleteAssumption == DeleteInterval \in Nat \ {0} /\ DeleteBatch \in Nat \ {0} /\ Grants \subseteq Nat

VARIABLES
    disk,            \* the backends' directories, with the nodes in each
    saved,           \* the DbState row, and CanDeleteSeq
    cleared,         \* the rows below this sequence are deleted
    open,            \* names of writableBackend_ and archiveBackend_
    pCache, nCache,  \* the positive and the negative cache
    built,           \* sequence of the last ledger stored
    valid,           \* sequence of the last validated ledger
    newLedger, working, stop, healthy, canDelete,     \* members of SHAMapStoreImp
    good,            \* operating mode full and validated ledger young
    rot,             \* the thread of run()
    fetching,        \* a thread in doFetch
    skipped,         \* nodes a copy leaves out of the writable backend: see CopyNode and SpuriousWake
    granted,         \* the largest canDelete so far
    crashes, sick    \* so far (bounds only)

store == <<disk, saved, cleared, open>>
caches == <<pCache, nCache>>
ledgers == <<built, valid>>
members == <<newLedger, working, stop, healthy, canDelete>>
history == <<skipped, granted>>
bounds == <<crashes, sick>>
vars == <<store, caches, ledgers, members, good, rot, fetching, history, bounds>>

Up == open.writable # NoDir

stateOf(seq) == IF seq = 0 THEN {} ELSE State[seq]

--------------------------------------------------------------------------------
(* Start and crash.                                                           *)

Idle == [pc |-> "down", seq |-> NoLedger, lastRotated |-> 0, todo |-> {}, dirs |-> <<>>]

NotFetching == [pc |-> "idle", node |-> {}]

Init ==
  /\ disk = [d \in {} |-> {}]
  /\ saved = [writable |-> NoDir, archive |-> NoDir, lastRotated |-> 0, canDelete |-> 0]
  /\ cleared = 1 /\ open = [writable |-> NoDir, archive |-> NoDir]
  /\ pCache = {} /\ nCache = {}
  /\ built = 0 /\ valid = 0
  /\ newLedger = NoLedger /\ working = TRUE /\ stop = FALSE /\ healthy = TRUE /\ canDelete = 0
  /\ good \in BOOLEAN /\ rot = Idle /\ fetching = NotFetching
  /\ skipped = {} /\ granted = 0 /\ crashes = 0 /\ sick = 0

\* dbPaths: it removes what the state row does not name, and refuses to start
\* when something that it names is missing.
consistent == \/ saved.writable = NoDir /\ saved.archive = NoDir
              \/ {saved.writable, saved.archive} \subseteq DOMAIN disk

DbPaths ==
  /\ ~Up /\ rot.pc = "down" /\ consistent
  /\ disk' = [d \in {saved.writable, saved.archive} \ {NoDir} |-> disk[d]]
  /\ rot' = [rot EXCEPT !.pc = "starting"]
  /\ UNCHANGED <<saved, cleared, open, caches, ledgers, members, good, fetching, history, bounds>>

\* Any unused name: which one makes no difference.
unique_path(D) == CHOOSE d \in Dirs : d \notin DOMAIN D

withDir(D, d) == [e \in DOMAIN D \cup {d} |-> IF e = d THEN {} ELSE D[e]]

\* makeDatabase with no backends in the state row: it makes both.
MakeBackends ==
  /\ rot.pc = "starting" /\ saved.writable = NoDir
  /\ LET w == unique_path(disk)
         a == unique_path(withDir(disk, w))
     IN  /\ disk' = withDir(withDir(disk, w), a)
         /\ rot' = [rot EXCEPT !.pc = "backends", !.dirs = <<w, a>>]
  /\ UNCHANGED <<saved, cleared, open, caches, ledgers, members, good, fetching, history, bounds>>

\* The rest of makeDatabase, and the start of run.
MakeDatabase ==
  /\ \/ rot.pc = "backends"
     \/ rot.pc = "starting" /\ saved.writable # NoDir
  /\ LET names == IF rot.pc = "backends" THEN rot.dirs ELSE <<saved.writable, saved.archive>>
     IN  /\ saved' = [saved EXCEPT !.writable = names[1], !.archive = names[2]]
         /\ open' = [writable |-> names[1], archive |-> names[2]]
  /\ rot' = [Idle EXCEPT !.pc = "top", !.lastRotated = saved.lastRotated]
  /\ canDelete' = saved.canDelete
  /\ UNCHANGED <<disk, cleared, caches, ledgers, newLedger, working, stop, healthy, good, fetching, history, bounds>>

\* The server dies: what is in memory is gone.
Crash ==
  /\ crashes < MaxCrashes /\ rot.pc # "down"
  /\ crashes' = crashes + 1
  /\ open' = [writable |-> NoDir, archive |-> NoDir]
  /\ pCache' = {} /\ nCache' = {}
  /\ newLedger' = NoLedger /\ working' = TRUE /\ stop' = FALSE /\ healthy' = TRUE /\ canDelete' = 0
  /\ rot' = Idle /\ fetching' = NotFetching
  /\ UNCHANGED <<disk, saved, cleared, ledgers, good, history, sick>>

--------------------------------------------------------------------------------
(* The node store.                                                            *)

\* DatabaseRotatingImp::store of the nodes that a new ledger adds.
BuildLedger ==
  /\ Up /\ built = valid /\ built < Len(State)
  /\ built' = built + 1
  /\ LET new == stateOf(built + 1) \ stateOf(built)
     IN  /\ pCache' = pCache \cup new /\ nCache' = nCache \ new
         /\ disk' = [disk EXCEPT ![open.writable] = @ \cup new]
         /\ skipped' = skipped \ new
  /\ UNCHANGED <<saved, cleared, open, valid, members, good, rot, fetching, granted, bounds>>

\* doFetch, as one step: from the caches, or from the writable backend, or from
\* the archive, which stores it in the writable backend.
doFetch(n) ==
  LET miss == n \notin pCache \cup nCache
      old  == n \in disk[open.archive] \ disk[open.writable]
      found == n \in disk[open.archive] \cup disk[open.writable]
  IN  /\ pCache' = IF miss /\ found THEN pCache \cup {n} ELSE pCache
      /\ nCache' = IF miss /\ ~found THEN nCache \cup {n} ELSE nCache
      /\ disk' = IF miss /\ old THEN [disk EXCEPT ![open.writable] = @ \cup {n}] ELSE disk

\* doFetch in another thread, step by step: the backends are read one after the
\* other, and the negative cache is filled after a second look at the positive.
Fetch(n) ==
  /\ Up /\ fetching.pc = "idle" /\ n \notin pCache \cup nCache
  /\ fetching' = [pc |-> IF n \in disk[open.writable] THEN "found" ELSE "archive", node |-> {n}]
  /\ UNCHANGED <<store, caches, ledgers, members, good, rot, history, bounds>>

FetchArchive ==
  /\ fetching.pc = "archive"
  /\ LET found == fetching.node \subseteq disk[open.archive]
     IN  /\ fetching' = [fetching EXCEPT !.pc = IF found THEN "found" ELSE "missing"]
         /\ disk' = IF found THEN [disk EXCEPT ![open.writable] = @ \cup fetching.node] ELSE disk
         /\ nCache' = IF found THEN nCache \ fetching.node ELSE nCache
         /\ skipped' = IF found THEN skipped \ fetching.node ELSE skipped
  /\ UNCHANGED <<saved, cleared, open, pCache, ledgers, members, good, rot, granted, bounds>>

FetchLookAgain ==
  /\ fetching.pc = "missing"
  /\ fetching' = IF fetching.node \subseteq pCache THEN NotFetching ELSE [fetching EXCEPT !.pc = "insert"]
  /\ UNCHANGED <<store, caches, ledgers, members, good, rot, history, bounds>>

FetchDone ==
  /\ fetching.pc \in {"found", "insert"}
  /\ fetching' = NotFetching
  /\ pCache' = IF fetching.pc = "found" THEN pCache \cup fetching.node ELSE pCache
  /\ nCache' = IF fetching.pc = "insert" THEN nCache \cup fetching.node ELSE nCache
  /\ UNCHANGED <<store, ledgers, members, good, rot, history, bounds>>

\* The caches age.
Sweep(n) ==
  /\ n \in pCache \cup nCache
  /\ pCache' = pCache \ {n} /\ nCache' = nCache \ {n}
  /\ UNCHANGED <<store, ledgers, members, good, rot, fetching, history, bounds>>

--------------------------------------------------------------------------------
(* What others do to the thread.                                              *)

woken(r) == IF r.pc = "wait" THEN [r EXCEPT !.pc = "woken"] ELSE r

\* setValidLedger calls onLedgerClosed.
OnLedgerClosed ==
  /\ Up /\ valid < built
  /\ valid' = built /\ newLedger' = built /\ working' = TRUE
  /\ rot' = woken(rot)
  /\ UNCHANGED <<store, caches, built, stop, healthy, canDelete, good, fetching, history, bounds>>

OnStop ==
  /\ Up /\ ~stop
  /\ stop' = TRUE
  /\ rot' = woken(rot)
  /\ UNCHANGED <<store, caches, ledgers, newLedger, working, healthy, canDelete, good, fetching, history, bounds>>

SetCanDelete(seq) ==
  /\ Up /\ seq # canDelete
  /\ canDelete' = seq /\ saved' = [saved EXCEPT !.canDelete = seq]
  /\ granted' = IF seq > granted THEN seq ELSE granted
  /\ UNCHANGED <<disk, cleared, open, caches, ledgers, newLedger, working, stop, healthy, good, rot, fetching,
                 skipped, bounds>>

HealthChanges ==
  /\ good' = ~good
  /\ IF good THEN sick < MaxSick /\ sick' = sick + 1 ELSE UNCHANGED sick
  /\ UNCHANGED <<store, caches, ledgers, members, rot, fetching, history, crashes>>

--------------------------------------------------------------------------------
(* run().                                                                     *)

afterTop_Waits == "wait"

afterTop == IF stop THEN "stopped" ELSE "wait"

Top ==
  /\ rot.pc = "top"
  /\ healthy' = TRUE /\ working' = FALSE
  /\ rot' = [Idle EXCEPT !.pc = afterTop, !.lastRotated = rot.lastRotated]
  /\ UNCHANGED <<store, caches, ledgers, newLedger, stop, canDelete, good, fetching, history, bounds>>

\* Nothing wakes the thread: when it had been noted before the last rotation, the
\* ledger that the thread now takes lacks nodes of the last ledger that are only in
\* the archive.
SpuriousWake ==
  /\ rot.pc = "wait"
  /\ rot' = woken(rot)
  /\ skipped' = IF newLedger = NoLedger THEN skipped
                ELSE skipped \cup ((stateOf(built) \ stateOf(newLedger)) \ disk[open.writable])
  /\ UNCHANGED <<store, caches, ledgers, members, good, fetching, granted, bounds>>

Woken ==
  /\ rot.pc = "woken"
  /\ newLedger' = NoLedger
  /\ rot' = IF newLedger = NoLedger THEN [rot EXCEPT !.pc = "top"]
                                    ELSE [rot EXCEPT !.pc = "check", !.seq = newLedger]
  /\ UNCHANGED <<store, caches, ledgers, working, stop, healthy, canDelete, good, fetching, history, bounds>>

due_NoAdvice(seq, last) == seq >= last + DeleteInterval

due(seq, last) == seq >= last + DeleteInterval /\ canDelete >= last - 1

Check ==
  /\ rot.pc = "check"
  /\ LET last == IF rot.lastRotated = 0 THEN rot.seq ELSE rot.lastRotated
     IN  /\ saved' = IF rot.lastRotated = 0 THEN [saved EXCEPT !.lastRotated = last] ELSE saved
         /\ rot' = [rot EXCEPT !.lastRotated = last, !.pc = IF due(rot.seq, last) THEN "begin" ELSE "top"]
  /\ UNCHANGED <<disk, cleared, open, caches, ledgers, members, good, fetching, history, bounds>>

\* health(): once unhealthy, until the top of the loop.
stillHealthy_Now == good

stillHealthy == healthy /\ good

\* The health checks between the stages of the rotation.
Stages == [begin |-> "clear", cleared |-> "copy", copied |-> "freshen", freshened |-> "make", made |-> "rotate"]

Health ==
  /\ Up /\ rot.pc \in DOMAIN Stages
  /\ healthy' = IF stop THEN healthy ELSE stillHealthy
  /\ \/ /\ stop
        /\ rot' = [rot EXCEPT !.pc = "stopped"]
     \/ /\ ~stop /\ ~healthy'
        /\ rot' = [rot EXCEPT !.pc = "top"]
     \/ /\ ~stop /\ healthy'
        /\ rot' = [rot EXCEPT !.pc = Stages[rot.pc], !.todo = IF rot.pc = "cleared" THEN stateOf(rot.seq) ELSE {}]
  /\ UNCHANGED <<store, caches, ledgers, newLedger, working, stop, canDelete, good, fetching, history, bounds>>

\* clearSql: the next batch of rows.
clearSql(last) == IF cleared + DeleteBatch < last THEN cleared + DeleteBatch ELSE last

\* clearPrior: a batch, or the end of it.
ClearPrior ==
  /\ rot.pc = "clear"
  /\ healthy' = IF stop THEN healthy ELSE stillHealthy
  /\ IF ~stop /\ healthy' /\ cleared < rot.lastRotated
       THEN /\ cleared' = clearSql(rot.lastRotated)
            /\ UNCHANGED rot
       ELSE /\ rot' = [rot EXCEPT !.pc = "cleared"]
            /\ UNCHANGED cleared
  /\ UNCHANGED <<disk, saved, open, caches, ledgers, newLedger, working, stop, canDelete, good, fetching, history,
                 bounds>>

\* The health check of copyNode and freshenCache after every so many nodes.
checked(n, check) ==
  /\ healthy' = IF check /\ ~stop THEN stillHealthy ELSE healthy
  /\ rot' = [rot EXCEPT !.todo = IF check /\ (stop \/ ~healthy') THEN {} ELSE @ \ {n}]

CopyNode(n, check) ==
  /\ rot.pc = "copy" /\ n \in rot.todo
  /\ doFetch(n) /\ checked(n, check)
  /\ skipped' = IF n \in disk'[open.writable] THEN skipped \ {n} ELSE skipped \cup {n}
  /\ UNCHANGED <<saved, cleared, open, ledgers, newLedger, working, stop, canDelete, good, fetching, granted, bounds>>

FreshenCache(n, check) ==
  /\ rot.pc = "freshening" /\ n \in rot.todo
  /\ doFetch(n) /\ checked(n, check)
  /\ UNCHANGED <<saved, cleared, open, ledgers, newLedger, working, stop, canDelete, good, fetching, history, bounds>>

\* freshenCaches: the keys of the positive cache, and those of the caches of tree
\* nodes and transactions.
FreshenCaches(others) ==
  /\ rot.pc = "freshen"
  /\ rot' = [rot EXCEPT !.pc = "freshening", !.todo = pCache \cup others]
  /\ UNCHANGED <<store, caches, ledgers, members, good, fetching, history, bounds>>

AllVisited ==
  /\ rot.pc \in {"copy", "freshening"} /\ rot.todo = {}
  /\ rot' = [rot EXCEPT !.pc = IF @ = "copy" THEN "copied" ELSE "freshened"]
  /\ UNCHANGED <<store, caches, ledgers, members, good, fetching, history, bounds>>

\* Bound: a name is left.
MakeBackendRotating ==
  /\ rot.pc = "make" /\ Dirs \ DOMAIN disk # {}
  /\ disk' = withDir(disk, unique_path(disk))
  /\ rot' = [rot EXCEPT !.pc = "made", !.dirs = <<unique_path(disk)>>]
  /\ UNCHANGED <<saved, cleared, open, caches, ledgers, members, good, fetching, history, bounds>>

rotated(new) == [saved EXCEPT !.writable = new, !.archive = open.writable, !.lastRotated = rot.seq]

\* What rotateBackends returns, to be deleted.
oldBackend_Writable == open.writable

oldBackend == open.archive

Rotate ==
  /\ rot.pc = "rotate"
  /\ saved' = rotated(rot.dirs[1])
  /\ open' = [writable |-> rot.dirs[1], archive |-> open.writable]
  /\ rot' = [rot EXCEPT !.pc = "delete", !.lastRotated = rot.seq, !.dirs = <<oldBackend>>]
  /\ UNCHANGED <<disk, cleared, caches, ledgers, members, good, fetching, history, bounds>>

DeleteBackend ==
  /\ rot.pc = "delete"
  /\ disk' = [d \in DOMAIN disk \ {rot.dirs[1]} |-> disk[d]]
  /\ rot' = [rot EXCEPT !.pc = "top"]
  /\ UNCHANGED <<saved, cleared, open, caches, ledgers, members, good, fetching, history, bounds>>

Run ==
  \/ Top \/ Woken \/ Check \/ Health \/ ClearPrior \/ AllVisited \/ MakeBackendRotating \/ Rotate \/ DeleteBackend
  \/ \E n \in Nodes, check \in BOOLEAN : CopyNode(n, check) \/ FreshenCache(n, check)
  \/ \E others \in SUBSET Nodes : FreshenCaches(others)

Next ==
  \/ DbPaths \/ MakeBackends \/ MakeDatabase \/ Crash \/ BuildLedger \/ OnLedgerClosed \/ OnStop \/ HealthChanges \/ SpuriousWake
  \/ \E n \in Nodes : Fetch(n) \/ Sweep(n)
  \/ FetchArchive \/ FetchLookAgain \/ FetchDone
  \/ \E seq \in Grants : SetCanDelete(seq)
  \/ Run

Spec == Init /\ [][Next]_vars /\ WF_vars(Run)

--------------------------------------------------------------------------------
\* Whatever is copied, fetched, aborted or crashes in between, every node of the
\* current ledger stays in one of the two backends, but for nodes that copyNode
\* found in a cache instead of fetching them from the archive, and for those that
\* it does not visit when a spurious wake-up starts it on a ledger from before the
\* last rotation.
StateSurvives ==
  saved.writable # NoDir =>
    \A n \in stateOf(built) \ skipped : \E d \in {saved.writable, saved.archive} \cap DOMAIN disk : n \in disk[d]

\* At whatever moment the server dies, dbPaths finds both backends it left.
RestartFindsBackends == consistent

\* clearPrior leaves at least DeleteInterval ledgers, and deletes none that
\* can_delete has never allowed, although the thread reads both only once.
KeptInterval == cleared > 1 => cleared + DeleteInterval <= valid /\ cleared <= granted + 1

\* Once told to stop the thread ends, whatever it is at and whether or not the
\* notification came while it waited.
StopEnds == stop ~> rot.pc \in {"stopped", "down"}
================================================================================
