--------------------------- MODULE SHAMapStore_proofs ---------------------------
(* Proofs about SHAMapStore: the backends a restart finds, the ledgers that    *)
(* are kept and the nodes that survive every rotation, abort and crash.        *)
EXTENDS SHAMapStore, TLAPS

(* The program counters of the thread before and after the server is up.       *)
Starting == {"down", "starting", "backends"}
Waiting == {"top", "wait", "woken", "stopped", "delete"}
Copying == {"check", "begin", "clear", "cleared"}
Copied == {"freshen", "freshening", "freshened", "make", "made", "rotate"}
Running == Waiting \cup Copying \cup {"copy", "copied"} \cup Copied

Names == Dirs \cup {NoDir}

StoreType ==
  /\ disk \in [DOMAIN disk -> SUBSET Nodes] /\ DOMAIN disk \subseteq Dirs
  /\ saved \in [writable : Names, archive : Names, lastRotated : Nat, canDelete : Nat]
  /\ open \in [writable : Names, archive : Names]
  /\ cleared \in Nat

LedgersType ==
  /\ built \in Nat /\ valid \in Nat /\ newLedger \in Nat
  /\ built <= Len(State) /\ valid <= built /\ newLedger <= valid /\ rot.seq <= valid
  /\ canDelete \in Nat /\ granted \in Nat
  /\ pCache \in SUBSET Nodes /\ nCache \in SUBSET Nodes /\ skipped \in SUBSET Nodes

ThreadsType ==
  /\ rot \in [pc : Starting \cup Running, seq : Nat, lastRotated : Nat, todo : SUBSET Nodes, dirs : Seq(Dirs)]
  /\ fetching \in [pc : {"idle", "archive", "found", "missing", "insert"}, node : SUBSET Nodes]

TypeOK == StoreType /\ LedgersType /\ ThreadsType

(* What the state row, the database and the thread say of the directories.     *)
Backends ==
  /\ saved.writable = NoDir => saved.archive = NoDir /\ built = 0
  /\ saved.writable # NoDir =>
       saved.archive # saved.writable /\ saved.writable \in DOMAIN disk /\ saved.archive \in DOMAIN disk
  /\ Up <=> rot.pc \in Running
  /\ Up => open.writable = saved.writable /\ open.archive = saved.archive
  /\ fetching.pc # "idle" => Up
  /\ rot.pc = "starting" => DOMAIN disk = {saved.writable, saved.archive} \ {NoDir}
  /\ rot.pc = "backends" => /\ saved.writable = NoDir
                            /\ rot.dirs[1] # rot.dirs[2] /\ rot.dirs[1] \in DOMAIN disk /\ rot.dirs[2] \in DOMAIN disk
  /\ rot.pc \in {"made", "rotate"} => rot.dirs[1] \in DOMAIN disk \ {saved.writable, saved.archive}
  /\ rot.pc = "delete" => rot.dirs[1] \notin {saved.writable, saved.archive}

(* What is cleared was checked against the ledger the thread is at.            *)
Cleared ==
  /\ canDelete <= granted /\ saved.canDelete <= granted
  /\ KeptInterval
  /\ rot.pc \in {"begin", "clear"} => /\ rot.lastRotated + DeleteInterval <= rot.seq
                                      /\ rot.lastRotated <= granted + 1

(* The nodes of the last ledger that are in the writable backend but for those *)
(* in N.                                                                       *)
WritableHasBut(N) == \A n \in stateOf(built) : n \in skipped \/ n \in N \/ n \in disk[open.writable]

(* What is not in the ledger that the thread has taken was stored after the    *)
(* last rotation; what it has visited is copied.                               *)
CopyComplete ==
  /\ rot.pc = "woken" /\ newLedger # NoLedger => stop \/ WritableHasBut(stateOf(newLedger))
  /\ rot.pc \in Copying => stop \/ WritableHasBut(stateOf(rot.seq))
  /\ rot.pc \in {"copy", "copied"} => stop \/ ~healthy \/ WritableHasBut(rot.todo)
  /\ rot.pc = "copied" => rot.todo = {}
  /\ rot.pc \in Copied => WritableHasBut({})

(* The inductive invariant.                                                    *)
IInv == TypeOK /\ Backends /\ Cleared /\ CopyComplete /\ StateSurvives

--------------------------------------------------------------------------------
(* Lemmas about the model's operators.                                         *)

(* The state of a ledger is a set of nodes, that of no ledger is empty.        *)
LEMMA StateOfType == ASSUME NEW seq \in Nat, seq <= Len(State) PROVE stateOf(seq) \in SUBSET Nodes
BY StateAssumption DEF stateOf

(* unique_path finds a name that is not in use while there is one.             *)
LEMMA UniquePath ==
  ASSUME NEW D, Dirs \ DOMAIN D # {}
  PROVE  unique_path(D) \in Dirs /\ unique_path(D) \notin DOMAIN D
<1>1. \E d \in Dirs : d \notin DOMAIN D
  OBVIOUS
<1> QED BY <1>1 DEF unique_path

(* A new directory is empty and the others keep what they have.                *)
LEMMA WithDir ==
  ASSUME NEW D, D \in [DOMAIN D -> SUBSET Nodes], DOMAIN D \subseteq Dirs, NEW d \in Dirs
  PROVE  /\ withDir(D, d) \in [DOMAIN withDir(D, d) -> SUBSET Nodes]
         /\ DOMAIN withDir(D, d) = DOMAIN D \cup {d}
         /\ \A e \in DOMAIN D : e # d => withDir(D, d)[e] = D[e]
BY DEF withDir

(* The names of the state row are directories, two of them, as of the start.   *)
LEMMA Opened ==
  ASSUME IInv, Up
  PROVE  /\ open.writable \in DOMAIN disk /\ open.archive \in DOMAIN disk /\ open.writable # open.archive
         /\ open.writable = saved.writable /\ open.archive = saved.archive
         /\ saved.writable # NoDir
BY DEF IInv, Backends, Up

--------------------------------------------------------------------------------
(* Frames: what most steps leave alone.                                        *)

(* A step that only adds to the backends loses no node, when a node that is    *)
(* skipped no more is in the writable backend.                                 *)
LEMMA DiskGrows ==
  ASSUME IInv, Up, UNCHANGED <<saved, open, built>>,
         DOMAIN disk' = DOMAIN disk, \A d \in DOMAIN disk : disk[d] \subseteq disk'[d],
         \A n \in skipped \ skipped' : n \in disk'[open.writable]
  PROVE  StateSurvives' /\ \A N : WritableHasBut(N) => WritableHasBut(N)'
<1> USE Opened
<1>1. stateOf(built') = stateOf(built)
  BY DEF stateOf
<1>2. open'.writable \in DOMAIN disk
  OBVIOUS
<1>3. StateSurvives'
  <2> SUFFICES ASSUME saved'.writable # NoDir, NEW n \in stateOf(built') \ skipped'
               PROVE  \E d \in {saved'.writable, saved'.archive} \cap DOMAIN disk' : n \in disk'[d]
    BY DEF StateSurvives
  <2>1. CASE n \in skipped
    BY <2>1
  <2>2. CASE n \notin skipped
    <3>1. PICK d \in {saved.writable, saved.archive} \cap DOMAIN disk : n \in disk[d]
      BY <1>1, <2>2 DEF IInv, StateSurvives
    <3> QED BY <3>1
  <2> QED BY <2>1, <2>2
<1>4. ASSUME NEW N, WritableHasBut(N) PROVE WritableHasBut(N)'
  BY <1>1, <1>2, <1>4 DEF WritableHasBut
<1> QED BY <1>3, <1>4

(* The same when no backend changes at all.                                    *)
LEMMA DiskSame ==
  ASSUME IInv, UNCHANGED <<disk, saved, open, built, skipped>>
  PROVE  StateSurvives' /\ \A N : WritableHasBut(N) => WritableHasBut(N)'
<1>1. stateOf(built') = stateOf(built)
  BY DEF stateOf
<1> QED BY <1>1 DEF IInv, StateSurvives, WritableHasBut

--------------------------------------------------------------------------------
(* The initial states, and one lemma for each action.                          *)

LEMMA InitIInv == Init => IInv
<1> SUFFICES ASSUME Init PROVE IInv
  OBVIOUS
<1> USE StateAssumption, DirsAssumption, DeleteAssumption DEF Init, Idle, NotFetching, Up, NoLedger
<1>1. TypeOK
  BY DEF TypeOK, StoreType, LedgersType, ThreadsType, Names, Starting
<1>2. Backends
  BY DEF Backends, Running, Waiting, Copying, Copied
<1>3. Cleared
  BY DEF Cleared, KeptInterval
<1>4. CopyComplete
  BY DEF CopyComplete, Copying, Copied
<1>5. StateSurvives
  BY DEF StateSurvives
<1> QED BY <1>1, <1>2, <1>3, <1>4, <1>5 DEF IInv

LEMMA DbPathsIInv == IInv /\ DbPaths => IInv'
<1> SUFFICES ASSUME IInv, DbPaths PROVE IInv'
  OBVIOUS
<1>1. /\ UNCHANGED <<saved, open, cleared, built, valid, newLedger, pCache, nCache, stop, healthy, canDelete, granted, skipped, fetching>>
      /\ rot' = [rot EXCEPT !.pc = "starting"]
      /\ disk' = [d \in {saved.writable, saved.archive} \ {NoDir} |-> disk[d]]
      /\ ~Up
  BY DEF DbPaths, caches, ledgers, members, history
<1>2. /\ DOMAIN disk' = {saved.writable, saved.archive} \ {NoDir}
      /\ \A d \in DOMAIN disk' : d \in DOMAIN disk /\ disk'[d] = disk[d]
      /\ saved.writable # NoDir => saved.archive # NoDir
  BY <1>1, DirsAssumption DEF IInv, Backends, TypeOK, StoreType
<1>3. rot'.pc = "starting" /\ rot'.seq = rot.seq /\ rot'.lastRotated = rot.lastRotated
  BY <1>1 DEF IInv, TypeOK, ThreadsType
<1>4. TypeOK'
  <2>1. disk' \in [DOMAIN disk' -> SUBSET Nodes] /\ DOMAIN disk' \subseteq Dirs
    BY <1>1, <1>2 DEF IInv, TypeOK, StoreType
  <2> QED BY <1>1, <1>3, <2>1 DEF IInv, TypeOK, StoreType, LedgersType, ThreadsType, Starting
<1>5. Backends'
  BY <1>1, <1>2, <1>3 DEF IInv, Backends, Up, Running, Waiting, Copying, Copied
<1>6. Cleared'
  BY <1>1, <1>3 DEF IInv, Cleared, KeptInterval
<1>7. CopyComplete'
  BY <1>3 DEF CopyComplete, Copying, Copied
<1>8. StateSurvives'
  <2> SUFFICES ASSUME saved.writable # NoDir, NEW n \in stateOf(built) \ skipped
               PROVE  \E d \in {saved.writable, saved.archive} \cap DOMAIN disk' : n \in disk'[d]
    BY <1>1 DEF StateSurvives, stateOf
  <2>1. PICK d \in {saved.writable, saved.archive} \cap DOMAIN disk : n \in disk[d]
    BY DEF IInv, StateSurvives
  <2> QED BY <1>2, <2>1
<1> QED BY <1>4, <1>5, <1>6, <1>7, <1>8 DEF IInv

LEMMA MakeBackendsIInv == IInv /\ MakeBackends => IInv'
<1> SUFFICES ASSUME IInv, MakeBackends PROVE IInv'
  OBVIOUS
<1> DEFINE w == unique_path(disk)
           D == withDir(disk, w)
           a == unique_path(D)
<1>1. /\ UNCHANGED <<saved, open, cleared, built, valid, newLedger, pCache, nCache, stop, healthy, canDelete, granted, skipped, fetching>>
      /\ rot' = [rot EXCEPT !.pc = "backends", !.dirs = <<w, a>>]
      /\ disk' = withDir(D, a)
      /\ saved.writable = NoDir /\ rot.pc = "starting"
  BY DEF MakeBackends, caches, ledgers, members, history
<1>2. DOMAIN disk = {}
  BY <1>1 DEF IInv, Backends
<1>3. w \in Dirs
  BY <1>2, UniquePath, DirsAssumption
<1>4. DOMAIN D = {w} /\ D \in [DOMAIN D -> SUBSET Nodes]
  <2>1. disk \in [DOMAIN disk -> SUBSET Nodes] /\ DOMAIN disk \subseteq Dirs
    BY DEF IInv, TypeOK, StoreType
  <2>2. D \in [DOMAIN D -> SUBSET Nodes] /\ DOMAIN D = DOMAIN disk \cup {w}
    BY <1>3, <2>1, WithDir
  <2> QED BY <1>2, <2>2
<1>5. a \in Dirs /\ a # w
  <2> HIDE DEF w, D
  <2>1. Dirs \ DOMAIN D # {}
    BY <1>4, DirsAssumption
  <2> QED BY <1>4, <2>1, UniquePath
<1> HIDE DEF w, D, a
<1>6. DOMAIN disk' = {w, a} /\ disk' \in [DOMAIN disk' -> SUBSET Nodes]
  <2>1. DOMAIN D \subseteq Dirs
    BY <1>3, <1>4
  <2>2. DOMAIN withDir(D, a) = DOMAIN D \cup {a} /\ withDir(D, a) \in [DOMAIN withDir(D, a) -> SUBSET Nodes]
    BY <1>4, <1>5, <2>1, WithDir
  <2> QED BY <1>1, <1>4, <2>2
<1>7. rot'.pc = "backends" /\ rot'.dirs = <<w, a>> /\ rot'.seq = rot.seq /\ rot'.lastRotated = rot.lastRotated
  BY <1>1 DEF IInv, TypeOK, ThreadsType
<1>8. TypeOK'
  <2>1. <<w, a>> \in Seq(Dirs)
    BY <1>3, <1>5
  <2>2. ThreadsType'
    BY <1>1, <2>1 DEF IInv, TypeOK, ThreadsType, Starting
  <2> QED BY <1>1, <1>3, <1>5, <1>6, <1>7, <2>2 DEF IInv, TypeOK, StoreType, LedgersType
<1>9. Backends'
  BY <1>1, <1>5, <1>6, <1>7 DEF IInv, Backends, Up, Running, Waiting, Copying, Copied
<1>10. Cleared'
  BY <1>1, <1>7 DEF IInv, Cleared, KeptInterval
<1>11. CopyComplete'
  BY <1>7 DEF CopyComplete, Copying, Copied
<1>12. StateSurvives'
  BY <1>1 DEF StateSurvives
<1> QED BY <1>8, <1>9, <1>10, <1>11, <1>12 DEF IInv

LEMMA MakeDatabaseIInv == IInv /\ MakeDatabase => IInv'
<1> SUFFICES ASSUME IInv, MakeDatabase PROVE IInv'
  OBVIOUS
<1> DEFINE names == IF rot.pc = "backends" THEN rot.dirs ELSE <<saved.writable, saved.archive>>
<1>1. /\ UNCHANGED <<disk, cleared, built, valid, newLedger, pCache, nCache, stop, healthy, granted, skipped, fetching>>
      /\ saved' = [saved EXCEPT !.writable = names[1], !.archive = names[2]]
      /\ open' = [writable |-> names[1], archive |-> names[2]]
      /\ rot' = [Idle EXCEPT !.pc = "top", !.lastRotated = saved.lastRotated]
      /\ canDelete' = saved.canDelete
      /\ rot.pc = "backends" \/ (rot.pc = "starting" /\ saved.writable # NoDir)
  <2>1. saved' = [saved EXCEPT !.writable = names[1], !.archive = names[2]]
    BY DEF MakeDatabase
  <2>2. open' = [writable |-> names[1], archive |-> names[2]]
    BY DEF MakeDatabase
  <2>3. rot.pc = "backends" \/ (rot.pc = "starting" /\ saved.writable # NoDir)
    BY DEF MakeDatabase
  <2> QED BY <2>1, <2>2, <2>3 DEF MakeDatabase, caches, ledgers, history
<1>2. /\ names[1] # names[2] /\ names[1] \in DOMAIN disk /\ names[2] \in DOMAIN disk
      /\ saved.writable # NoDir => names[1] = saved.writable /\ names[2] = saved.archive
  BY <1>1 DEF IInv, Backends
<1>3. names[1] \in Dirs /\ names[2] \in Dirs /\ names[1] # NoDir /\ names[2] # NoDir
  BY <1>2, DirsAssumption DEF IInv, TypeOK, StoreType
<1> HIDE DEF names
<1>10. rot'.pc = "top" /\ rot'.seq = 0
  BY <1>1 DEF Idle, NoLedger
<1>4. TypeOK'
  <2>1. StoreType'
    BY <1>1, <1>3 DEF IInv, TypeOK, StoreType, Names
  <2>2. LedgersType'
    BY <1>1, <1>10 DEF IInv, TypeOK, StoreType, LedgersType
  <2>3. ThreadsType'
    <3>1. rot' = [pc |-> "top", seq |-> 0, lastRotated |-> saved.lastRotated, todo |-> {}, dirs |-> <<>>]
      BY <1>1 DEF Idle, NoLedger
    <3>2. saved.lastRotated \in Nat
      BY DEF IInv, TypeOK, StoreType
    <3>3. "top" \in Starting \cup Running
      BY DEF Running, Waiting
    <3>4. rot' \in [pc : Starting \cup Running, seq : Nat, lastRotated : Nat, todo : SUBSET Nodes, dirs : Seq(Dirs)]
      BY <3>1, <3>2, <3>3
    <3> QED BY <1>1, <3>4 DEF IInv, TypeOK, ThreadsType
  <2> QED BY <2>1, <2>2, <2>3 DEF TypeOK
<1>5. saved'.writable = names[1] /\ saved'.archive = names[2] /\ saved'.canDelete = saved.canDelete
  BY <1>1 DEF IInv, TypeOK, StoreType
<1>6. Backends'
  BY <1>1, <1>2, <1>3, <1>5, <1>10 DEF Backends, Up, Running, Waiting
<1>7. Cleared'
  BY <1>1, <1>5, <1>10 DEF IInv, Cleared, KeptInterval
<1>8. CopyComplete'
  BY <1>10 DEF CopyComplete, Copying, Copied
<1>9. StateSurvives'
  <2>1. CASE saved.writable = NoDir
    BY <1>1, <2>1 DEF IInv, Backends, StateSurvives, stateOf
  <2>2. CASE saved.writable # NoDir
    BY <1>1, <1>2, <1>5, <2>2 DEF IInv, StateSurvives, stateOf
  <2> QED BY <2>1, <2>2
<1> QED BY <1>4, <1>6, <1>7, <1>8, <1>9 DEF IInv

LEMMA CrashIInv == IInv /\ Crash => IInv'
<1> SUFFICES ASSUME IInv, Crash PROVE IInv'
  OBVIOUS
<1> USE DEF IInv, Crash, store, caches, ledgers, members, history, bounds, Up, NoLedger, Idle, NotFetching
<1>1. TypeOK'
  <2>1. StoreType'
    BY DEF TypeOK, StoreType, LedgersType, ThreadsType, Names
  <2>2. LedgersType'
    BY DEF TypeOK, StoreType, LedgersType, ThreadsType
  <2>3. rot' \in [pc : Starting \cup Running, seq : Nat, lastRotated : Nat, todo : SUBSET Nodes, dirs : Seq(Dirs)]
    BY DEF TypeOK, StoreType, LedgersType, ThreadsType, Starting
  <2>4. fetching' \in [pc : {"idle", "archive", "found", "missing", "insert"}, node : SUBSET Nodes]
    OBVIOUS
  <2> QED BY <2>1, <2>2, <2>3, <2>4 DEF TypeOK, StoreType, LedgersType, ThreadsType
<1>2. Backends'
  BY DEF TypeOK, StoreType, LedgersType, ThreadsType, Backends, Starting, Running, Waiting, Copying, Copied
<1>3. Cleared'
  BY DEF TypeOK, StoreType, LedgersType, ThreadsType, Cleared, KeptInterval
<1>4. CopyComplete'
  BY DEF TypeOK, StoreType, LedgersType, ThreadsType, CopyComplete, Copying, Copied
<1>5. StateSurvives'
  BY DEF StateSurvives, stateOf
<1> QED BY <1>1, <1>2, <1>3, <1>4, <1>5

(* A step that touches only the caches and the fetching thread, or nothing.    *)
LEMMA QuietIInv ==
  ASSUME IInv, UNCHANGED <<disk, saved, cleared, open, built, valid, newLedger, stop, healthy, canDelete, rot, skipped, granted>>,
         pCache' \in SUBSET Nodes, nCache' \in SUBSET Nodes,
         fetching' \in [pc : {"idle", "archive", "found", "missing", "insert"}, node : SUBSET Nodes],
         fetching'.pc # "idle" => Up
  PROVE  IInv'
<1>1. TypeOK'
  BY DEF IInv, TypeOK, StoreType, LedgersType, ThreadsType
<1>2. Backends'
  BY DEF IInv, Backends, Up
<1>3. Cleared'
  BY DEF IInv, Cleared, KeptInterval
<1>4. CopyComplete'
  BY DEF IInv, CopyComplete, WritableHasBut, stateOf
<1> QED BY <1>1, <1>2, <1>3, <1>4, DiskSame DEF IInv

LEMMA FetchIInv == ASSUME NEW n \in Nodes PROVE IInv /\ Fetch(n) => IInv'
<1> SUFFICES ASSUME IInv, Fetch(n) PROVE IInv'
  OBVIOUS
<1>1. fetching' \in [pc : {"idle", "archive", "found", "missing", "insert"}, node : SUBSET Nodes] /\ Up
  BY DEF Fetch
<1> QED BY <1>1, QuietIInv DEF Fetch, store, caches, ledgers, members, history, IInv, TypeOK, LedgersType

LEMMA FetchLookAgainIInv == IInv /\ FetchLookAgain => IInv'
<1> SUFFICES ASSUME IInv, FetchLookAgain PROVE IInv'
  OBVIOUS
<1>1. fetching' \in [pc : {"idle", "archive", "found", "missing", "insert"}, node : SUBSET Nodes] /\ Up
  BY DEF FetchLookAgain, NotFetching, IInv, TypeOK, ThreadsType, Backends
<1> QED BY <1>1, QuietIInv DEF FetchLookAgain, store, caches, ledgers, members, history, IInv, TypeOK, LedgersType

LEMMA FetchDoneIInv == IInv /\ FetchDone => IInv'
<1> SUFFICES ASSUME IInv, FetchDone PROVE IInv'
  OBVIOUS
<1>1. fetching' \in [pc : {"idle", "archive", "found", "missing", "insert"}, node : SUBSET Nodes] /\ fetching'.pc = "idle"
  BY DEF FetchDone, NotFetching
<1>2. pCache' \in SUBSET Nodes /\ nCache' \in SUBSET Nodes
  BY DEF FetchDone, IInv, TypeOK, LedgersType, ThreadsType
<1> QED BY <1>1, <1>2, QuietIInv DEF FetchDone, store, ledgers, members, history

LEMMA SweepIInv == ASSUME NEW n \in Nodes PROVE IInv /\ Sweep(n) => IInv'
<1> SUFFICES ASSUME IInv, Sweep(n) PROVE IInv'
  OBVIOUS
<1>1. pCache' \in SUBSET Nodes /\ nCache' \in SUBSET Nodes
  BY DEF Sweep, IInv, TypeOK, LedgersType
<1> QED BY <1>1, QuietIInv DEF Sweep, store, ledgers, members, history, IInv, TypeOK, ThreadsType, Backends

LEMMA HealthChangesIInv == IInv /\ HealthChanges => IInv'
BY QuietIInv DEF HealthChanges, store, caches, ledgers, members, history, IInv, TypeOK, LedgersType, ThreadsType, Backends

LEMMA StutterIInv == IInv /\ UNCHANGED vars => IInv'
BY QuietIInv DEF vars, store, caches, ledgers, members, history, IInv, TypeOK, LedgersType, ThreadsType, Backends

(* The new nodes of a ledger go into the writable backend, the others are      *)
(* where they were.                                                            *)
LEMMA BuildLedgerIInv == IInv /\ BuildLedger => IInv'
<1> SUFFICES ASSUME IInv, BuildLedger PROVE IInv'
  OBVIOUS
<1> DEFINE new == stateOf(built + 1) \ stateOf(built)
<1>1. /\ UNCHANGED <<saved, open, cleared, valid, newLedger, stop, healthy, canDelete, granted, rot, fetching>>
      /\ Up /\ built' = built + 1 /\ built < Len(State)
      /\ pCache' = pCache \cup new /\ nCache' = nCache \ new /\ skipped' = skipped \ new
      /\ disk' = [disk EXCEPT ![open.writable] = @ \cup new]
  BY DEF BuildLedger, members
<1>2. built \in Nat /\ Len(State) \in Nat
  BY StateAssumption DEF IInv, TypeOK, LedgersType
<1>3. new \in SUBSET Nodes
  BY <1>1, <1>2, StateOfType
<1>4. /\ DOMAIN disk' = DOMAIN disk /\ disk'[open.writable] = disk[open.writable] \cup new
      /\ \A d \in DOMAIN disk : disk[d] \subseteq disk'[d]
  BY <1>1, Opened DEF IInv, TypeOK, StoreType
<1>5. \A n \in stateOf(built') : n \notin skipped' => n \in new \/ (n \in stateOf(built) /\ n \notin skipped)
  BY <1>1
<1> HIDE DEF new
<1>6. TypeOK'
  <2>1. disk' \in [DOMAIN disk' -> SUBSET Nodes]
    BY <1>1, <1>3, Opened DEF IInv, TypeOK, StoreType
  <2>2. StoreType'
    BY <1>1, <1>4, <2>1 DEF IInv, TypeOK, StoreType
  <2>3. LedgersType'
    BY <1>1, <1>2, <1>3 DEF IInv, TypeOK, LedgersType
  <2> QED BY <1>1, <2>2, <2>3 DEF IInv, TypeOK, ThreadsType
<1>7. Backends'
  BY <1>1, <1>4, Opened DEF IInv, Backends, Up
<1>8. Cleared'
  BY <1>1 DEF IInv, Cleared, KeptInterval
<1>9. ASSUME NEW N, WritableHasBut(N) PROVE WritableHasBut(N)'
  BY <1>1, <1>4, <1>5, <1>9 DEF WritableHasBut
<1>10. CopyComplete'
  <2>1. stateOf(newLedger') = stateOf(newLedger) /\ stateOf(rot'.seq) = stateOf(rot.seq)
    BY <1>1
  <2> QED BY <1>1, <1>9, <2>1 DEF IInv, CopyComplete
<1>11. StateSurvives'
  <2> SUFFICES ASSUME NEW n \in stateOf(built') \ skipped'
               PROVE  \E d \in {saved'.writable, saved'.archive} \cap DOMAIN disk' : n \in disk'[d]
    BY DEF StateSurvives
  <2>1. CASE n \in new
    BY <1>1, <1>4, <2>1, Opened
  <2>2. CASE n \in stateOf(built) /\ n \notin skipped
    <3>1. PICK d \in {saved.writable, saved.archive} \cap DOMAIN disk : n \in disk[d]
      BY <1>1, <2>2, Opened DEF IInv, StateSurvives
    <3> QED BY <1>1, <1>4, <3>1
  <2> QED BY <1>5, <2>1, <2>2
<1> QED BY <1>6, <1>7, <1>8, <1>10, <1>11 DEF IInv

LEMMA FetchArchiveIInv == IInv /\ FetchArchive => IInv'
<1> SUFFICES ASSUME IInv, FetchArchive PROVE IInv'
  OBVIOUS
<1>1. CASE ~(fetching.node \subseteq disk[open.archive])
  <2>1. fetching' = [fetching EXCEPT !.pc = "missing"] /\ Up
    BY <1>1 DEF FetchArchive, IInv, Backends
  <2>2. UNCHANGED <<disk, saved, cleared, open, built, valid, newLedger, stop, healthy, canDelete, rot, skipped, granted, pCache, nCache>>
    BY <1>1 DEF FetchArchive, ledgers, members
  <2> QED BY <2>1, <2>2, QuietIInv DEF IInv, TypeOK, LedgersType, ThreadsType
<1>2. CASE fetching.node \subseteq disk[open.archive]
  <2>1. /\ UNCHANGED <<saved, open, cleared, built, valid, newLedger, stop, healthy, canDelete, granted, rot, pCache>>
        /\ fetching' = [fetching EXCEPT !.pc = "found"] /\ Up
        /\ nCache' = nCache \ fetching.node /\ skipped' = skipped \ fetching.node
        /\ disk' = [disk EXCEPT ![open.writable] = @ \cup fetching.node]
    BY <1>2 DEF FetchArchive, ledgers, members, IInv, Backends
  <2>2. fetching.node \in SUBSET Nodes
    BY DEF IInv, TypeOK, ThreadsType
  <2>3. /\ DOMAIN disk' = DOMAIN disk /\ disk'[open.writable] = disk[open.writable] \cup fetching.node
        /\ \A d \in DOMAIN disk : disk[d] \subseteq disk'[d]
        /\ disk' \in [DOMAIN disk' -> SUBSET Nodes]
    BY <2>1, <2>2, Opened DEF IInv, TypeOK, StoreType
  <2>4. TypeOK'
    BY <2>1, <2>2, <2>3 DEF IInv, TypeOK, StoreType, LedgersType, ThreadsType
  <2>5. Backends'
    BY <2>1, <2>3 DEF IInv, Backends, Up
  <2>6. Cleared'
    BY <2>1 DEF IInv, Cleared, KeptInterval
  <2>7. StateSurvives' /\ \A N : WritableHasBut(N) => WritableHasBut(N)'
    BY <2>1, <2>3, DiskGrows
  <2>8. CopyComplete'
    <3>1. stateOf(newLedger') = stateOf(newLedger) /\ stateOf(rot'.seq) = stateOf(rot.seq)
      BY <2>1
    <3> QED BY <2>1, <2>7, <3>1 DEF IInv, CopyComplete
  <2> QED BY <2>4, <2>5, <2>6, <2>7, <2>8 DEF IInv
<1> QED BY <1>1, <1>2

(* A ledger that is noted now has all that is stored: what the thread will not *)
(* copy is stored later.                                                       *)
LEMMA OnLedgerClosedIInv == IInv /\ OnLedgerClosed => IInv'
<1> SUFFICES ASSUME IInv, OnLedgerClosed PROVE IInv'
  OBVIOUS
<1>1. /\ UNCHANGED <<disk, saved, cleared, open, built, stop, healthy, canDelete, granted, skipped, fetching, pCache, nCache>>
      /\ Up /\ valid' = built /\ newLedger' = built /\ valid < built /\ rot' = woken(rot)
  BY DEF OnLedgerClosed, store, caches, history
<1>2. /\ rot' \in [pc : Starting \cup Running, seq : Nat, lastRotated : Nat, todo : SUBSET Nodes, dirs : Seq(Dirs)]
      /\ rot'.seq = rot.seq /\ rot'.lastRotated = rot.lastRotated /\ rot'.todo = rot.todo /\ rot'.dirs = rot.dirs
      /\ rot'.pc = rot.pc \/ (rot.pc = "wait" /\ rot'.pc = "woken")
  BY <1>1 DEF woken, IInv, TypeOK, ThreadsType, Running, Waiting
<1>3. TypeOK'
  BY <1>1, <1>2 DEF IInv, TypeOK, StoreType, LedgersType, ThreadsType
<1>4. Backends'
  BY <1>1, <1>2 DEF IInv, Backends, Up, Running, Waiting
<1>5. Cleared'
  BY <1>1, <1>2, DeleteAssumption DEF IInv, Cleared, KeptInterval, TypeOK, StoreType, LedgersType
<1>6. StateSurvives' /\ \A N : WritableHasBut(N) => WritableHasBut(N)'
  BY <1>1, DiskSame
<1>7. WritableHasBut(stateOf(newLedger))'
  BY <1>1 DEF WritableHasBut
<1>8. CopyComplete'
  BY <1>1, <1>2, <1>6, <1>7 DEF IInv, CopyComplete, Copying, Copied
<1> QED BY <1>3, <1>4, <1>5, <1>6, <1>8 DEF IInv

LEMMA OnStopIInv == IInv /\ OnStop => IInv'
<1> SUFFICES ASSUME IInv, OnStop PROVE IInv'
  OBVIOUS
<1>1. /\ UNCHANGED <<disk, saved, cleared, open, built, valid, newLedger, healthy, canDelete, granted, skipped, fetching, pCache, nCache>>
      /\ Up /\ stop' = TRUE /\ rot' = woken(rot)
  BY DEF OnStop, store, caches, ledgers, history
<1>2. /\ rot' \in [pc : Starting \cup Running, seq : Nat, lastRotated : Nat, todo : SUBSET Nodes, dirs : Seq(Dirs)]
      /\ rot'.seq = rot.seq /\ rot'.lastRotated = rot.lastRotated /\ rot'.todo = rot.todo /\ rot'.dirs = rot.dirs
      /\ rot'.pc = rot.pc \/ (rot.pc = "wait" /\ rot'.pc = "woken")
  BY <1>1 DEF woken, IInv, TypeOK, ThreadsType, Running, Waiting
<1>3. TypeOK'
  BY <1>1, <1>2 DEF IInv, TypeOK, StoreType, LedgersType, ThreadsType
<1>4. Backends'
  BY <1>1, <1>2 DEF IInv, Backends, Up, Running, Waiting
<1>5. Cleared'
  BY <1>1, <1>2 DEF IInv, Cleared, KeptInterval
<1>6. StateSurvives' /\ \A N : WritableHasBut(N) => WritableHasBut(N)'
  BY <1>1, DiskSame
<1>7. CopyComplete'
  BY <1>1, <1>2, <1>6 DEF IInv, CopyComplete, Copied
<1> QED BY <1>3, <1>4, <1>5, <1>6, <1>7 DEF IInv

(* A wake-up that nothing caused: what the thread will not copy is skipped.    *)
LEMMA SpuriousWakeIInv == IInv /\ SpuriousWake => IInv'
<1> SUFFICES ASSUME IInv, SpuriousWake PROVE IInv'
  OBVIOUS
<1>1. /\ UNCHANGED <<disk, saved, cleared, open, built, valid, newLedger, stop, healthy, canDelete, granted, fetching, pCache, nCache>>
      /\ rot.pc = "wait" /\ rot' = [rot EXCEPT !.pc = "woken"]
      /\ skipped \subseteq skipped'
      /\ newLedger # NoLedger => skipped' = skipped \cup ((stateOf(built) \ stateOf(newLedger)) \ disk[open.writable])
  BY DEF SpuriousWake, woken, store, caches, ledgers, members
<1>2. /\ rot' \in [pc : Starting \cup Running, seq : Nat, lastRotated : Nat, todo : SUBSET Nodes, dirs : Seq(Dirs)]
      /\ rot'.seq = rot.seq /\ rot'.pc = "woken" /\ Up
  BY <1>1 DEF IInv, TypeOK, ThreadsType, Running, Waiting, Backends
<1>3. skipped' \in SUBSET Nodes
  BY StateOfType DEF SpuriousWake, IInv, TypeOK, LedgersType
<1>4. TypeOK'
  BY <1>1, <1>2, <1>3 DEF IInv, TypeOK, StoreType, LedgersType, ThreadsType
<1>5. Backends'
  BY <1>1, <1>2 DEF IInv, Backends, Up, Running, Waiting
<1>6. Cleared'
  BY <1>1, <1>2 DEF IInv, Cleared, KeptInterval
<1>7. StateSurvives'
  BY <1>1, <1>2, DiskGrows
<1>8. newLedger # NoLedger => WritableHasBut(stateOf(newLedger))'
  BY <1>1 DEF WritableHasBut
<1>9. CopyComplete'
  BY <1>1, <1>2, <1>8 DEF CopyComplete, Copying, Copied
<1> QED BY <1>4, <1>5, <1>6, <1>7, <1>9 DEF IInv

LEMMA SetCanDeleteIInv == ASSUME NEW seq \in Grants PROVE IInv /\ SetCanDelete(seq) => IInv'
<1> SUFFICES ASSUME IInv, SetCanDelete(seq) PROVE IInv'
  OBVIOUS
<1>1. /\ UNCHANGED <<disk, cleared, open, built, valid, newLedger, stop, healthy, rot, skipped, fetching, pCache, nCache>>
      /\ canDelete' = seq /\ saved' = [saved EXCEPT !.canDelete = seq]
      /\ granted' = IF seq > granted THEN seq ELSE granted
  BY DEF SetCanDelete, caches, ledgers
<1>2. seq \in Nat /\ seq <= granted' /\ granted <= granted' /\ granted' \in Nat
  BY <1>1, DeleteAssumption DEF IInv, TypeOK, LedgersType
<1>3. saved'.writable = saved.writable /\ saved'.archive = saved.archive /\ saved'.canDelete = seq
  BY <1>1 DEF IInv, TypeOK, StoreType
<1>4. TypeOK'
  BY <1>1, <1>2 DEF IInv, TypeOK, StoreType, LedgersType, ThreadsType
<1>5. Backends'
  BY <1>1, <1>3 DEF IInv, Backends, Up
<1>6. Cleared'
  BY <1>1, <1>2, <1>3, SMTT(30) DEF IInv, Cleared, KeptInterval, TypeOK, StoreType, LedgersType, ThreadsType
<1>7. CopyComplete'
  BY <1>1 DEF IInv, CopyComplete, WritableHasBut, stateOf
<1>8. StateSurvives'
  BY <1>1, <1>3 DEF IInv, StateSurvives, stateOf
<1> QED BY <1>4, <1>5, <1>6, <1>7, <1>8 DEF IInv

LEMMA TopIInv == IInv /\ Top => IInv'
<1> SUFFICES ASSUME IInv, Top PROVE IInv'
  OBVIOUS
<1>1. /\ UNCHANGED <<disk, saved, cleared, open, built, valid, newLedger, stop, canDelete, granted, skipped, fetching, pCache, nCache>>
      /\ rot.pc = "top" /\ rot' = [Idle EXCEPT !.pc = afterTop, !.lastRotated = rot.lastRotated]
  BY DEF Top, store, caches, ledgers, history
<1>2. rot' = [pc |-> afterTop, seq |-> 0, lastRotated |-> rot.lastRotated, todo |-> {}, dirs |-> <<>>]
  BY <1>1 DEF Idle, NoLedger
<1>3. afterTop \in {"wait", "stopped"} /\ afterTop \in Starting \cup Running
  BY DEF afterTop, Running, Waiting
<1>4. rot.lastRotated \in Nat
  BY DEF IInv, TypeOK, ThreadsType
<1>5. rot' \in [pc : Starting \cup Running, seq : Nat, lastRotated : Nat, todo : SUBSET Nodes, dirs : Seq(Dirs)]
  BY <1>2, <1>3, <1>4
<1>6. rot'.pc \in {"wait", "stopped"} /\ rot'.seq = 0
  BY <1>2, <1>3
<1>7. TypeOK'
  BY <1>1, <1>5, <1>6 DEF IInv, TypeOK, StoreType, LedgersType, ThreadsType
<1>8. Backends'
  BY <1>1, <1>6 DEF IInv, Backends, Up, Running, Waiting
<1>9. Cleared'
  BY <1>1, <1>6 DEF IInv, Cleared, KeptInterval
<1>10. CopyComplete'
  BY <1>6 DEF CopyComplete, Copying, Copied
<1> QED BY <1>1, <1>7, <1>8, <1>9, <1>10, DiskSame DEF IInv

LEMMA WokenIInv == IInv /\ Woken => IInv'
<1> SUFFICES ASSUME IInv, Woken PROVE IInv'
  OBVIOUS
<1>1. /\ UNCHANGED <<disk, saved, cleared, open, built, valid, stop, healthy, canDelete, granted, skipped, fetching, pCache, nCache>>
      /\ rot.pc = "woken" /\ newLedger' = 0
      /\ rot' = IF newLedger = 0 THEN [rot EXCEPT !.pc = "top"] ELSE [rot EXCEPT !.pc = "check", !.seq = newLedger]
  BY DEF Woken, store, caches, ledgers, history, NoLedger
<1>2. /\ rot' \in [pc : Starting \cup Running, seq : Nat, lastRotated : Nat, todo : SUBSET Nodes, dirs : Seq(Dirs)]
      /\ \/ rot'.pc = "top" /\ rot'.seq = rot.seq
         \/ rot'.pc = "check" /\ rot'.seq = newLedger /\ newLedger # 0
  BY <1>1 DEF IInv, TypeOK, LedgersType, ThreadsType, Running, Waiting, Copying
<1>3. TypeOK'
  <2>1. rot'.seq <= valid
    BY <1>2 DEF IInv, TypeOK, LedgersType
  <2>2. StoreType'
    BY <1>1 DEF IInv, TypeOK, StoreType
  <2>3. LedgersType'
    BY <1>1, <2>1 DEF IInv, TypeOK, LedgersType
  <2>4. ThreadsType'
    BY <1>1, <1>2 DEF IInv, TypeOK, ThreadsType
  <2> QED BY <2>2, <2>3, <2>4 DEF TypeOK
<1>4. Backends'
  BY <1>1, <1>2 DEF IInv, Backends, Up, Running, Waiting, Copying
<1>5. Cleared'
  BY <1>1, <1>2 DEF IInv, Cleared, KeptInterval
<1>6. StateSurvives' /\ \A N : WritableHasBut(N) => WritableHasBut(N)'
  BY <1>1, DiskSame
<1>7. rot'.pc = "check" => stop \/ WritableHasBut(stateOf(rot.seq))'
  BY <1>1, <1>2, <1>6 DEF IInv, CopyComplete, NoLedger
<1>8. CopyComplete'
  BY <1>1, <1>2, <1>7 DEF CopyComplete, Copying, Copied
<1> QED BY <1>3, <1>4, <1>5, <1>6, <1>8 DEF IInv

(* The thread goes on only with a ledger far enough from the last rotation,    *)
(* and that can_delete allows.                                                 *)
LEMMA CheckIInv == IInv /\ Check => IInv'
<1> SUFFICES ASSUME IInv, Check PROVE IInv'
  OBVIOUS
<1> DEFINE last == IF rot.lastRotated = 0 THEN rot.seq ELSE rot.lastRotated
<1>1. /\ UNCHANGED <<disk, cleared, open, built, valid, newLedger, stop, healthy, canDelete, granted, skipped, fetching, pCache, nCache>>
      /\ rot.pc = "check"
      /\ saved' = IF rot.lastRotated = 0 THEN [saved EXCEPT !.lastRotated = last] ELSE saved
      /\ rot' = [rot EXCEPT !.lastRotated = last, !.pc = IF due(rot.seq, last) THEN "begin" ELSE "top"]
  BY DEF Check, caches, ledgers, members, history
<1>2. last \in Nat
  BY DEF IInv, TypeOK, ThreadsType
<1> HIDE DEF last
<1>3. /\ rot' \in [pc : Starting \cup Running, seq : Nat, lastRotated : Nat, todo : SUBSET Nodes, dirs : Seq(Dirs)]
      /\ rot'.pc \in {"begin", "top"} /\ rot'.seq = rot.seq /\ rot'.lastRotated = last
      /\ rot'.pc = "begin" => due(rot.seq, last)
  BY <1>1, <1>2 DEF IInv, TypeOK, ThreadsType, Running, Waiting, Copying
<1>4. /\ saved' \in [writable : Names, archive : Names, lastRotated : Nat, canDelete : Nat]
      /\ saved'.writable = saved.writable /\ saved'.archive = saved.archive /\ saved'.canDelete = saved.canDelete
  BY <1>1, <1>2 DEF IInv, TypeOK, StoreType
<1>5. TypeOK'
  BY <1>1, <1>3, <1>4 DEF IInv, TypeOK, StoreType, LedgersType, ThreadsType
<1>6. Backends'
  BY <1>1, <1>3, <1>4 DEF IInv, Backends, Up, Running, Waiting, Copying
<1>7. Cleared'
  BY <1>1, <1>2, <1>3, <1>4, DeleteAssumption, SMTT(30) DEF IInv, Cleared, KeptInterval, due, TypeOK, LedgersType, ThreadsType
<1>8. stop \/ WritableHasBut(stateOf(rot.seq))'
  BY <1>1, <1>3 DEF IInv, CopyComplete, Copying, WritableHasBut
<1>9. CopyComplete'
  BY <1>1, <1>3, <1>8 DEF CopyComplete, Copied
<1>10. StateSurvives'
  BY <1>1, <1>4 DEF IInv, StateSurvives, stateOf
<1> QED BY <1>5, <1>6, <1>7, <1>9, <1>10 DEF IInv

(* A stage is entered only when the thread is not to stop and has been healthy *)
(* since the top of the loop: then the copy of the last stage was not cut.     *)
LEMMA HealthIInv == IInv /\ Health => IInv'
<1> SUFFICES ASSUME IInv, Health PROVE IInv'
  OBVIOUS
<1>1. /\ UNCHANGED <<disk, saved, cleared, open, built, valid, newLedger, stop, canDelete, granted, skipped, fetching, pCache, nCache>>
      /\ rot.pc \in {"begin", "cleared", "copied", "freshened", "made"}
      /\ healthy' = IF stop THEN healthy ELSE stillHealthy
  BY DEF Health, Stages, store, caches, ledgers, history
<1>2. \/ rot' = [rot EXCEPT !.pc = "stopped"]
      \/ rot' = [rot EXCEPT !.pc = "top"]
      \/ ~stop /\ healthy /\ rot' = [rot EXCEPT !.pc = Stages[rot.pc], !.todo = IF rot.pc = "cleared" THEN stateOf(rot.seq) ELSE {}]
  BY <1>1 DEF Health, stillHealthy
<1>3. \/ rot.pc = "begin" /\ Stages[rot.pc] = "clear"
      \/ rot.pc = "cleared" /\ Stages[rot.pc] = "copy"
      \/ rot.pc = "copied" /\ Stages[rot.pc] = "freshen"
      \/ rot.pc = "freshened" /\ Stages[rot.pc] = "make"
      \/ rot.pc = "made" /\ Stages[rot.pc] = "rotate"
  BY <1>1 DEF Stages
<1>9. stateOf(rot.seq) \in SUBSET Nodes
  BY StateOfType, StateAssumption DEF IInv, TypeOK, LedgersType, ThreadsType
<1>10. /\ rot' \in [pc : Starting \cup Running, seq : Nat, lastRotated : Nat, todo : SUBSET Nodes, dirs : Seq(Dirs)]
       /\ rot'.seq = rot.seq /\ rot'.lastRotated = rot.lastRotated /\ rot'.dirs = rot.dirs
       /\ \/ rot'.pc \in {"stopped", "top"}
          \/ ~stop /\ healthy /\ rot'.pc = Stages[rot.pc] /\ (rot.pc = "cleared" => rot'.todo = stateOf(rot.seq))
  <2>1. Stages[rot.pc] \in Starting \cup Running /\ "stopped" \in Starting \cup Running /\ "top" \in Starting \cup Running
    BY <1>3 DEF Running, Waiting, Copying, Copied
  <2> QED BY <1>2, <1>9, <2>1 DEF IInv, TypeOK, ThreadsType
<1>4. TypeOK'
  BY <1>1, <1>10 DEF IInv, TypeOK, StoreType, LedgersType, ThreadsType
<1>5. Backends'
  BY <1>1, <1>3, <1>10 DEF IInv, Backends, Up, Running, Waiting, Copying, Copied
<1>6. Cleared'
  BY <1>1, <1>3, <1>10 DEF IInv, Cleared, KeptInterval
<1>7. StateSurvives' /\ \A N : WritableHasBut(N) => WritableHasBut(N)'
  BY <1>1, DiskSame
<1>8. CopyComplete'
  <2>1. stateOf(rot'.seq) = stateOf(rot.seq)
    BY <1>10
  <2> HIDE DEF stateOf, WritableHasBut
  <2> QED BY <1>1, <1>3, <1>7, <1>10, <2>1 DEF IInv, CopyComplete, Copying, Copied
<1> QED BY <1>4, <1>5, <1>6, <1>7, <1>8 DEF IInv

LEMMA ClearPriorIInv == IInv /\ ClearPrior => IInv'
<1> SUFFICES ASSUME IInv, ClearPrior PROVE IInv'
  OBVIOUS
<1>1. /\ UNCHANGED <<disk, saved, open, built, valid, newLedger, stop, canDelete, granted, skipped, fetching, pCache, nCache>>
      /\ rot.pc = "clear"
      /\ \/ rot' = rot /\ cleared < rot.lastRotated /\ cleared' = clearSql(rot.lastRotated)
         \/ rot' = [rot EXCEPT !.pc = "cleared"] /\ cleared' = cleared
  BY DEF ClearPrior, caches, ledgers, history
<1>2. /\ rot' \in [pc : Starting \cup Running, seq : Nat, lastRotated : Nat, todo : SUBSET Nodes, dirs : Seq(Dirs)]
      /\ rot'.pc \in {"clear", "cleared"} /\ rot'.seq = rot.seq /\ rot'.lastRotated = rot.lastRotated
  BY <1>1 DEF IInv, TypeOK, ThreadsType, Running, Copying
<1>3. cleared' \in Nat /\ (cleared' = cleared \/ cleared' <= rot.lastRotated)
  BY <1>1, DeleteAssumption DEF clearSql, IInv, TypeOK, StoreType, ThreadsType
<1>4. TypeOK'
  BY <1>1, <1>2, <1>3 DEF IInv, TypeOK, StoreType, LedgersType, ThreadsType
<1>5. Backends'
  BY <1>1, <1>2 DEF IInv, Backends, Up, Running, Copying
<1>6. Cleared'
  <2>1. /\ rot.lastRotated \in Nat /\ rot.seq \in Nat /\ valid \in Nat /\ granted \in Nat /\ rot.seq <= valid
        /\ rot.lastRotated + DeleteInterval <= rot.seq /\ rot.lastRotated <= granted + 1
    BY <1>1 DEF IInv, Cleared, TypeOK, LedgersType, ThreadsType
  <2>2. KeptInterval'
    BY <1>1, <1>3, <2>1, DeleteAssumption DEF IInv, Cleared, KeptInterval
  <2> QED BY <1>1, <1>2, <2>2 DEF IInv, Cleared
<1>7. StateSurvives' /\ \A N : WritableHasBut(N) => WritableHasBut(N)'
  BY <1>1, DiskSame
<1>8. CopyComplete'
  <2>1. stateOf(rot'.seq) = stateOf(rot.seq)
    BY <1>2
  <2> QED BY <1>1, <1>2, <1>7, <2>1 DEF IInv, CopyComplete, Copying, Copied
<1> QED BY <1>4, <1>5, <1>6, <1>7, <1>8 DEF IInv

(* What doFetch does to the backends and the caches.                           *)
LEMMA DoFetch ==
  ASSUME IInv, Up, NEW n \in Nodes, doFetch(n)
  PROVE  /\ disk' \in [DOMAIN disk' -> SUBSET Nodes] /\ DOMAIN disk' = DOMAIN disk
         /\ \A d \in DOMAIN disk : disk[d] \subseteq disk'[d]
         /\ pCache' \in SUBSET Nodes /\ nCache' \in SUBSET Nodes
<1>1. disk' = disk \/ disk' = [disk EXCEPT ![open.writable] = @ \cup {n}]
  BY DEF doFetch
<1>2. disk \in [DOMAIN disk -> SUBSET Nodes] /\ open.writable \in DOMAIN disk
  BY Opened DEF IInv, TypeOK, StoreType
<1>3. pCache' \in SUBSET Nodes /\ nCache' \in SUBSET Nodes
  BY DEF doFetch, IInv, TypeOK, LedgersType
<1> QED BY <1>1, <1>2, <1>3

(* A node is visited: it is in the writable backend, or skipped, or the copy   *)
(* is cut and the thread will not go on.                                       *)
LEMMA CopyNodeIInv == ASSUME NEW n \in Nodes, NEW check \in BOOLEAN PROVE IInv /\ CopyNode(n, check) => IInv'
<1> SUFFICES ASSUME IInv, CopyNode(n, check) PROVE IInv'
  OBVIOUS
<1>1. /\ UNCHANGED <<saved, cleared, open, built, valid, newLedger, stop, canDelete, granted, fetching>>
      /\ rot.pc = "copy" /\ n \in rot.todo /\ doFetch(n) /\ checked(n, check)
      /\ skipped' = IF n \in disk'[open.writable] THEN skipped \ {n} ELSE skipped \cup {n}
  BY DEF CopyNode, ledgers
<1>2. Up
  BY <1>1 DEF IInv, Backends, Running
<1>3. /\ disk' \in [DOMAIN disk' -> SUBSET Nodes] /\ DOMAIN disk' = DOMAIN disk
      /\ \A d \in DOMAIN disk : disk[d] \subseteq disk'[d]
      /\ pCache' \in SUBSET Nodes /\ nCache' \in SUBSET Nodes
  BY <1>1, <1>2, DoFetch
<1>4. /\ rot' \in [pc : Starting \cup Running, seq : Nat, lastRotated : Nat, todo : SUBSET Nodes, dirs : Seq(Dirs)]
      /\ rot'.pc = "copy" /\ rot'.seq = rot.seq
      /\ rot'.todo = rot.todo \ {n} \/ stop \/ ~healthy'
      /\ healthy' => healthy
  BY <1>1 DEF checked, stillHealthy, IInv, TypeOK, ThreadsType
<1>5. skipped' \in SUBSET Nodes /\ \A k \in skipped \ skipped' : k \in disk'[open.writable]
  BY <1>1 DEF IInv, TypeOK, LedgersType
<1>6. TypeOK'
  BY <1>1, <1>3, <1>4, <1>5 DEF IInv, TypeOK, StoreType, LedgersType, ThreadsType
<1>7. Backends'
  BY <1>1, <1>3, <1>4 DEF IInv, Backends, Up, Running
<1>8. Cleared'
  BY <1>1, <1>4 DEF IInv, Cleared, KeptInterval
<1>9. StateSurvives' /\ \A N : WritableHasBut(N) => WritableHasBut(N)'
  BY <1>1, <1>2, <1>3, <1>5, DiskGrows
<1>10. stop' \/ ~healthy' \/ WritableHasBut(rot.todo)'
  <2> SUFFICES ASSUME ~stop, healthy' PROVE WritableHasBut(rot.todo)'
    BY <1>1
  <2>1. WritableHasBut(rot.todo)
    BY <1>1, <1>4 DEF IInv, CopyComplete
  <2>2. \A k \in stateOf(built') : k \in skipped' \/ k \in rot.todo \/ k \in disk'[open'.writable]
    BY <1>9, <2>1 DEF WritableHasBut
  <2>3. n \in skipped' \/ n \in disk'[open'.writable]
    BY <1>1
  <2> QED BY <1>4, <2>2, <2>3 DEF WritableHasBut
<1>11. CopyComplete'
  BY <1>4, <1>10 DEF CopyComplete, Copying, Copied
<1> QED BY <1>6, <1>7, <1>8, <1>9, <1>11 DEF IInv

LEMMA FreshenCacheIInv == ASSUME NEW n \in Nodes, NEW check \in BOOLEAN PROVE IInv /\ FreshenCache(n, check) => IInv'
<1> SUFFICES ASSUME IInv, FreshenCache(n, check) PROVE IInv'
  OBVIOUS
<1>1. /\ UNCHANGED <<saved, cleared, open, built, valid, newLedger, stop, canDelete, granted, fetching, skipped>>
      /\ rot.pc = "freshening" /\ doFetch(n) /\ checked(n, check)
  BY DEF FreshenCache, ledgers, history
<1>2. Up
  BY <1>1 DEF IInv, Backends, Running, Copied
<1>3. /\ disk' \in [DOMAIN disk' -> SUBSET Nodes] /\ DOMAIN disk' = DOMAIN disk
      /\ \A d \in DOMAIN disk : disk[d] \subseteq disk'[d]
      /\ pCache' \in SUBSET Nodes /\ nCache' \in SUBSET Nodes
  BY <1>1, <1>2, DoFetch
<1>4. /\ rot' \in [pc : Starting \cup Running, seq : Nat, lastRotated : Nat, todo : SUBSET Nodes, dirs : Seq(Dirs)]
      /\ rot'.pc = "freshening" /\ rot'.seq = rot.seq
  BY <1>1 DEF checked, IInv, TypeOK, ThreadsType
<1>5. TypeOK'
  BY <1>1, <1>3, <1>4 DEF IInv, TypeOK, StoreType, LedgersType, ThreadsType
<1>6. Backends'
  BY <1>1, <1>3, <1>4 DEF IInv, Backends, Up, Running, Copied
<1>7. Cleared'
  BY <1>1, <1>4 DEF IInv, Cleared, KeptInterval
<1>8. StateSurvives' /\ \A N : WritableHasBut(N) => WritableHasBut(N)'
  BY <1>1, <1>2, <1>3, DiskGrows
<1>9. CopyComplete'
  BY <1>1, <1>4, <1>8 DEF IInv, CopyComplete, Copying, Copied
<1> QED BY <1>5, <1>6, <1>7, <1>8, <1>9 DEF IInv

LEMMA FreshenCachesIInv == ASSUME NEW others \in SUBSET Nodes PROVE IInv /\ FreshenCaches(others) => IInv'
<1> SUFFICES ASSUME IInv, FreshenCaches(others) PROVE IInv'
  OBVIOUS
<1>1. /\ UNCHANGED <<disk, saved, cleared, open, built, valid, newLedger, stop, healthy, canDelete, granted, skipped, fetching, pCache, nCache>>
      /\ rot.pc = "freshen" /\ rot' = [rot EXCEPT !.pc = "freshening", !.todo = pCache \cup others]
  BY DEF FreshenCaches, store, caches, ledgers, members, history
<1>2. /\ rot' \in [pc : Starting \cup Running, seq : Nat, lastRotated : Nat, todo : SUBSET Nodes, dirs : Seq(Dirs)]
      /\ rot'.pc = "freshening" /\ rot'.seq = rot.seq
  BY <1>1 DEF IInv, TypeOK, LedgersType, ThreadsType, Running, Copied
<1>3. TypeOK'
  BY <1>1, <1>2 DEF IInv, TypeOK, StoreType, LedgersType, ThreadsType
<1>4. Backends'
  BY <1>1, <1>2 DEF IInv, Backends, Up, Running, Copied
<1>5. Cleared'
  BY <1>1, <1>2 DEF IInv, Cleared, KeptInterval
<1>6. StateSurvives' /\ \A N : WritableHasBut(N) => WritableHasBut(N)'
  BY <1>1, DiskSame
<1>7. CopyComplete'
  BY <1>1, <1>2, <1>6 DEF IInv, CopyComplete, Copying, Copied
<1> QED BY <1>3, <1>4, <1>5, <1>6, <1>7 DEF IInv

LEMMA AllVisitedIInv == IInv /\ AllVisited => IInv'
<1> SUFFICES ASSUME IInv, AllVisited PROVE IInv'
  OBVIOUS
<1>1. /\ UNCHANGED <<disk, saved, cleared, open, built, valid, newLedger, stop, healthy, canDelete, granted, skipped, fetching, pCache, nCache>>
      /\ rot.pc \in {"copy", "freshening"} /\ rot.todo = {}
      /\ rot' = [rot EXCEPT !.pc = IF @ = "copy" THEN "copied" ELSE "freshened"]
  BY DEF AllVisited, store, caches, ledgers, members, history
<1>2. /\ rot' \in [pc : Starting \cup Running, seq : Nat, lastRotated : Nat, todo : SUBSET Nodes, dirs : Seq(Dirs)]
      /\ rot'.seq = rot.seq /\ rot'.todo = {}
      /\ \/ rot.pc = "copy" /\ rot'.pc = "copied"
         \/ rot.pc = "freshening" /\ rot'.pc = "freshened"
  BY <1>1 DEF IInv, TypeOK, ThreadsType, Running, Copied
<1>3. TypeOK'
  BY <1>1, <1>2 DEF IInv, TypeOK, StoreType, LedgersType, ThreadsType
<1>4. Backends'
  BY <1>1, <1>2 DEF IInv, Backends, Up, Running, Copied
<1>5. Cleared'
  BY <1>1, <1>2 DEF IInv, Cleared, KeptInterval
<1>6. StateSurvives' /\ \A N : WritableHasBut(N) => WritableHasBut(N)'
  BY <1>1, DiskSame
<1>7. CopyComplete'
  BY <1>1, <1>2, <1>6 DEF IInv, CopyComplete, Copying, Copied
<1> QED BY <1>3, <1>4, <1>5, <1>6, <1>7 DEF IInv

LEMMA MakeBackendRotatingIInv == IInv /\ MakeBackendRotating => IInv'
<1> SUFFICES ASSUME IInv, MakeBackendRotating PROVE IInv'
  OBVIOUS
<1> DEFINE new == unique_path(disk)
<1>1. /\ UNCHANGED <<saved, cleared, open, built, valid, newLedger, stop, healthy, canDelete, granted, skipped, fetching, pCache, nCache>>
      /\ rot.pc = "make" /\ Dirs \ DOMAIN disk # {}
      /\ disk' = withDir(disk, new)
      /\ rot' = [rot EXCEPT !.pc = "made", !.dirs = <<new>>]
  BY DEF MakeBackendRotating, caches, ledgers, members, history
<1>2. new \in Dirs /\ new \notin DOMAIN disk
  BY <1>1, UniquePath
<1> HIDE DEF new
<1>3. /\ disk' \in [DOMAIN disk' -> SUBSET Nodes] /\ DOMAIN disk' = DOMAIN disk \cup {new}
      /\ \A d \in DOMAIN disk : disk'[d] = disk[d]
  BY <1>1, <1>2, WithDir DEF IInv, TypeOK, StoreType
<1>4. /\ rot' \in [pc : Starting \cup Running, seq : Nat, lastRotated : Nat, todo : SUBSET Nodes, dirs : Seq(Dirs)]
      /\ rot'.pc = "made" /\ rot'.seq = rot.seq /\ rot'.dirs = <<new>>
  <2>1. <<new>> \in Seq(Dirs) /\ "made" \in Starting \cup Running
    BY <1>2 DEF Running, Copied
  <2> QED BY <1>1, <2>1 DEF IInv, TypeOK, ThreadsType
<1>5. Up /\ open.writable \in DOMAIN disk
  BY <1>1, Opened DEF IInv, Backends, Running, Copied
<1>6. TypeOK'
  BY <1>1, <1>2, <1>3, <1>4 DEF IInv, TypeOK, StoreType, LedgersType, ThreadsType
<1>7. Backends'
  BY <1>1, <1>2, <1>3, <1>4, <1>5, Opened DEF Backends, Up, Running, Copied
<1>8. Cleared'
  BY <1>1, <1>4 DEF IInv, Cleared, KeptInterval
<1>9. CopyComplete'
  <2>1. WritableHasBut({})'
    BY <1>1, <1>3, <1>5 DEF IInv, CopyComplete, Copied, WritableHasBut
  <2> QED BY <1>4, <2>1 DEF CopyComplete, Copying
<1>10. StateSurvives'
  BY <1>1, <1>3 DEF IInv, StateSurvives
<1> QED BY <1>6, <1>7, <1>8, <1>9, <1>10 DEF IInv

(* The writable backend has all that is not skipped: the archive may go.       *)
LEMMA RotateIInv == IInv /\ Rotate => IInv'
<1> SUFFICES ASSUME IInv, Rotate PROVE IInv'
  OBVIOUS
<1>1. /\ UNCHANGED <<disk, cleared, built, valid, newLedger, stop, healthy, canDelete, granted, skipped, fetching, pCache, nCache>>
      /\ rot.pc = "rotate"
      /\ saved' = [saved EXCEPT !.writable = rot.dirs[1], !.archive = open.writable, !.lastRotated = rot.seq]
      /\ open' = [writable |-> rot.dirs[1], archive |-> open.writable]
      /\ rot' = [rot EXCEPT !.pc = "delete", !.lastRotated = rot.seq, !.dirs = <<open.archive>>]
  BY DEF Rotate, rotated, oldBackend, caches, ledgers, members, history
<1>2. Up
  BY <1>1 DEF IInv, Backends, Running, Copied
<1>3. rot.dirs[1] \in DOMAIN disk \ {open.writable, open.archive}
  BY <1>1, <1>2, Opened DEF IInv, Backends
<1>4. DOMAIN disk \subseteq Dirs
  BY DEF IInv, TypeOK, StoreType
<1>5. /\ rot' \in [pc : Starting \cup Running, seq : Nat, lastRotated : Nat, todo : SUBSET Nodes, dirs : Seq(Dirs)]
      /\ rot'.pc = "delete" /\ rot'.seq = rot.seq /\ rot'.dirs = <<open.archive>>
  <2>1. open.archive \in Dirs
    BY <1>2, <1>4, Opened
  <2>2. <<open.archive>> \in Seq(Dirs) /\ "delete" \in Starting \cup Running
    BY <2>1 DEF Running, Waiting
  <2> QED BY <1>1, <2>2 DEF IInv, TypeOK, ThreadsType
<1>6. /\ saved' \in [writable : Names, archive : Names, lastRotated : Nat, canDelete : Nat]
      /\ saved'.writable = rot.dirs[1] /\ saved'.archive = open.writable /\ saved'.canDelete = saved.canDelete
  BY <1>1, <1>2, <1>3, <1>4, Opened DEF IInv, TypeOK, StoreType, ThreadsType, Names
<1>7. TypeOK'
  <2>1. open' \in [writable : Names, archive : Names]
    BY <1>1, <1>2, <1>3, <1>4, Opened DEF Names
  <2> QED BY <1>1, <1>5, <1>6, <2>1 DEF IInv, TypeOK, StoreType, LedgersType, ThreadsType
<1>8. Backends'
  <2>1. rot.dirs[1] # NoDir
    BY <1>3, <1>4, DirsAssumption
  <2> QED BY <1>1, <1>2, <1>3, <1>5, <1>6, <2>1, Opened DEF Backends, Up, Running, Waiting
<1>9. Cleared'
  BY <1>1, <1>5, <1>6 DEF IInv, Cleared, KeptInterval
<1>10. CopyComplete'
  BY <1>5 DEF CopyComplete, Copying, Copied
<1>11. StateSurvives'
  <2>1. WritableHasBut({})
    BY <1>1 DEF IInv, CopyComplete, Copied
  <2> QED BY <1>1, <1>2, <1>6, <2>1, Opened DEF StateSurvives, WritableHasBut, stateOf
<1> QED BY <1>7, <1>8, <1>9, <1>10, <1>11 DEF IInv

LEMMA DeleteBackendIInv == IInv /\ DeleteBackend => IInv'
<1> SUFFICES ASSUME IInv, DeleteBackend PROVE IInv'
  OBVIOUS
<1>1. /\ UNCHANGED <<saved, cleared, open, built, valid, newLedger, stop, healthy, canDelete, granted, skipped, fetching, pCache, nCache>>
      /\ rot.pc = "delete" /\ rot' = [rot EXCEPT !.pc = "top"]
      /\ disk' = [d \in DOMAIN disk \ {rot.dirs[1]} |-> disk[d]]
  BY DEF DeleteBackend, caches, ledgers, members, history
<1>2. /\ rot' \in [pc : Starting \cup Running, seq : Nat, lastRotated : Nat, todo : SUBSET Nodes, dirs : Seq(Dirs)]
      /\ rot'.pc = "top" /\ rot'.seq = rot.seq
  BY <1>1 DEF IInv, TypeOK, ThreadsType, Running, Waiting
<1>3. /\ disk' \in [DOMAIN disk' -> SUBSET Nodes] /\ DOMAIN disk' \subseteq Dirs
      /\ DOMAIN disk' = DOMAIN disk \ {rot.dirs[1]}
      /\ \A d \in DOMAIN disk' : disk'[d] = disk[d]
  BY <1>1 DEF IInv, TypeOK, StoreType
<1>4. Up /\ rot.dirs[1] \notin {saved.writable, saved.archive}
  BY <1>1 DEF IInv, Backends, Running, Waiting
<1>5. TypeOK'
  BY <1>1, <1>2, <1>3 DEF IInv, TypeOK, StoreType, LedgersType, ThreadsType
<1>6. Backends'
  BY <1>1, <1>2, <1>3, <1>4 DEF IInv, Backends, Up, Running, Waiting
<1>7. Cleared'
  BY <1>1, <1>2 DEF IInv, Cleared, KeptInterval
<1>8. CopyComplete'
  BY <1>2 DEF CopyComplete, Copying, Copied
<1>9. StateSurvives'
  BY <1>1, <1>3, <1>4 DEF IInv, StateSurvives, stateOf
<1> QED BY <1>5, <1>6, <1>7, <1>8, <1>9 DEF IInv

--------------------------------------------------------------------------------
(* The theorems.                                                               *)

LEMMA RunIInv == IInv /\ Run => IInv'
BY TopIInv, WokenIInv, CheckIInv, HealthIInv, ClearPriorIInv, AllVisitedIInv, MakeBackendRotatingIInv, RotateIInv,
   DeleteBackendIInv, CopyNodeIInv, FreshenCacheIInv, FreshenCachesIInv DEF Run

LEMMA NextIInv == IInv /\ [Next]_vars => IInv'
BY DbPathsIInv, MakeBackendsIInv, MakeDatabaseIInv, CrashIInv, BuildLedgerIInv, OnLedgerClosedIInv, OnStopIInv,
   HealthChangesIInv, SpuriousWakeIInv, FetchIInv, SweepIInv, FetchArchiveIInv, FetchLookAgainIInv, FetchDoneIInv,
   SetCanDeleteIInv, RunIInv, StutterIInv DEF Next

LEMMA IInvAlways == Spec => []IInv
BY InitIInv, NextIInv, PTL DEF Spec

(* At whatever step the server dies, dbPaths finds both directories that the   *)
(* state row names, or a row that names none: setState comes after the new     *)
(* backend exists and before the old one is deleted.                           *)
THEOREM RestartAlwaysFindsBackends == Spec => []RestartFindsBackends
<1>1. IInv => RestartFindsBackends
  BY DEF IInv, Backends, RestartFindsBackends, consistent
<1> QED BY <1>1, IInvAlways, PTL

(* clearPrior deletes no ledger nearer than DeleteInterval to the last         *)
(* validated one and none that can_delete never allowed.                       *)
THEOREM IntervalAlwaysKept == Spec => []KeptInterval
<1>1. IInv => KeptInterval
  BY DEF IInv, Cleared
<1> QED BY <1>1, IInvAlways, PTL

(* Every node of the last ledger is in one of the two backends, whatever       *)
(* rotation was cut, stopped or crashed, but for those the copy skips: copyNode *)
(* found them in a cache, or a spurious wake-up gave it an older ledger.       *)
THEOREM StateAlwaysSurvives == Spec => []StateSurvives
<1>1. IInv => StateSurvives
  BY DEF IInv
<1> QED BY <1>1, IInvAlways, PTL
================================================================================
