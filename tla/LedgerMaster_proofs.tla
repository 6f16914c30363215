-------------------------- MODULE LedgerMaster_proofs --------------------------
(* Proofs about LedgerMaster: the order in which ledgers are validated and     *)
(* published, and what the history that the server reports consists of.        *)
EXTENDS LedgerMaster, FiniteSetTheorems, TLAPS

(* The ledgers that lead to one the validators sign.                           *)
Chain == {l \in Ledgers : \E g \in Signed : Len(l) <= Len(g) /\ SubSeq(g, 1, Len(l)) = l}

(* The validators sign no two ledgers on different branches.                   *)
OneBranch == \A g, h \in Signed : Len(g) <= Len(h) => SubSeq(h, 1, Len(g)) = g

Publishing == {"full", "check", "publish"}
Filling == {"histfull", "histcheck", "hist"}
Pcs == {"idle", "find", "scan", "fetch", "fetched"} \cup Publishing \cup Filling

Tables == [DOMAIN Rows -> Ledgers \cup {None}]

RoundStates ==
  [pc : {"idle", "building", "switch", "accept", "recheck"}, ledger : Ledgers \cup {None}, rounds : Nat]

(* What the threads hand to each other are ledgers.                            *)
InputsOK ==
  /\ DOMAIN byLedger = Ledgers
  /\ \A l \in Ledgers : byLedger[l] # {} => l \in Signed
  /\ calls \in SUBSET Ledgers /\ held \in SUBSET Ledgers /\ acquiring \in SUBSET Ledgers
  /\ \A c \in accepting : c.ledger \in Ledgers \cup {None}
  /\ consensus \in RoundStates

(* A ledger is validated only when it is signed, and the first validated one   *)
(* is published at once.                                                       *)
ValidOK ==
  /\ mValidLedger \in Signed \cup {None} /\ mPubLedger \in Chain \cup {None}
  /\ mValidLedger # None => mPubLedger # None

(* The ledgers about to be published follow the published one, or it is the    *)
(* one to which the stream has just jumped.                                    *)
InOrder == \A i \in 1 .. Len(advance.list) : Len(advance.list[i]) = Len(mPubLedger) + i

Advances ==
  [pc : Pcs, work : BOOLEAN, seq : Nat, target : Signed \cup {None}, list : Seq(Chain), hist : Chain \cup {None}]

AdvanceOK ==
  /\ advance \in Advances
  /\ advance.pc # "idle" => mValidLedger # None
  /\ advance.pc = "scan" => advance.target # None /\ advance.seq > 0 /\ InOrder
  /\ advance.pc \in Publishing => advance.list # <<>> /\ (advance.list = <<mPubLedger>> \/ InOrder)
  /\ advance.pc \in Filling => advance.list # <<>>
  /\ advance.pc \in {"fetch", "fetched"} => advance.seq > 0 /\ advance.seq <= Len(mValidLedger)

Databases ==
  [rows : Tables, complete : SUBSET Nat, flags : SUBSET Chain, pending : SUBSET Nat, jobs : SUBSET Chain,
   failed : SUBSET Chain]

(* A table has in the row of a sequence a ledger of this sequence that is      *)
(* validated or below one that is.                                             *)
OnChain(rows, s) == rows[s] \in Chain /\ Len(rows[s]) = s

(* So has the server's table, or it will, or the save has failed.              *)
SavedIn(d, s) == OnChain(d.rows, s) \/ s \in d.pending \/ \E l \in d.failed : Len(l) = s

(* What the database promises: the ledgers marked as saved and the sequences   *)
(* reported as complete are.                                                   *)
Promised(d) ==
  /\ d \in Databases
  /\ \A l \in d.flags : SavedIn(d, Len(l))
  /\ \A s \in d.complete : SavedIn(d, s)

(* The ledger that setFullLedger has saved is.                                 *)
DbOK ==
  /\ Promised(db)
  /\ advance.pc \in {"check", "publish", "histcheck", "hist"} => SavedIn(db, Len(Head(advance.list)))

FillOK ==
  /\ fill \in [seq : Nat, ledger : Chain \cup {None}, hashes : Tables \cup {None}]
  /\ fill.seq > 0 => fill.ledger # None /\ fill.seq = Len(fill.ledger) /\ SavedIn(db, fill.seq)
  /\ fill.hashes # None => \A s \in DOMAIN Rows : OnChain(fill.hashes, s) => OnChain(db.rows, s)

(* The inductive invariant.                                                    *)
IInv == InputsOK /\ ValidOK /\ AdvanceOK /\ DbOK /\ FillOK

--------------------------------------------------------------------------------
(* Ledgers as paths.                                                           *)

(* A prefix of a path has its length and its elements.                         *)
LEMMA Prefix ==
  ASSUME NEW l \in Seq(Nat), NEW n \in 1 .. Len(l)
  PROVE  SubSeq(l, 1, n) \in Seq(Nat) /\ Len(SubSeq(l, 1, n)) = n /\ \A i \in 1 .. n : SubSeq(l, 1, n)[i] = l[i]
  OBVIOUS

(* A prefix of a prefix is a prefix, and so is the whole.                      *)
LEMMA PrefixOfPrefix ==
  ASSUME NEW l \in Seq(Nat), NEW n \in 1 .. Len(l), NEW m \in 1 .. n
  PROVE  SubSeq(SubSeq(l, 1, n), 1, m) = SubSeq(l, 1, m)
<1>1. SubSeq(l, 1, n) \in Seq(Nat) /\ Len(SubSeq(l, 1, n)) = n /\ \A i \in 1 .. n : SubSeq(l, 1, n)[i] = l[i]
  BY Prefix
<1>2. m \in 1 .. Len(SubSeq(l, 1, n)) /\ m \in 1 .. Len(l)
  BY <1>1
<1>3. /\ SubSeq(SubSeq(l, 1, n), 1, m) \in Seq(Nat) /\ Len(SubSeq(SubSeq(l, 1, n), 1, m)) = m
      /\ \A i \in 1 .. m : SubSeq(SubSeq(l, 1, n), 1, m)[i] = SubSeq(l, 1, n)[i]
  BY <1>1, <1>2, Prefix
<1>4. SubSeq(l, 1, m) \in Seq(Nat) /\ Len(SubSeq(l, 1, m)) = m /\ \A i \in 1 .. m : SubSeq(l, 1, m)[i] = l[i]
  BY <1>2, Prefix
<1>5. \A i \in 1 .. m : SubSeq(SubSeq(l, 1, n), 1, m)[i] = SubSeq(l, 1, m)[i]
  BY <1>1, <1>3, <1>4
<1> QED
  BY <1>3, <1>4, <1>5

(* The path of the published ledgers: a ledger the validators sign leads to    *)
(* itself, and what leads to a ledger of the chain is on the chain.            *)
LEMMA ChainFacts ==
  /\ Signed \subseteq Chain /\ Chain \subseteq Ledgers
  /\ \A l \in Chain : \A n \in 1 .. Len(l) : SubSeq(l, 1, n) \in Chain
<1>1. ASSUME NEW l \in Signed PROVE l \in Chain
  <2>1. l \in Seq(Nat) /\ l \in Ledgers /\ Len(l) \in Nat
    BY LedgersAssumption
  <2>2. SubSeq(l, 1, Len(l)) = l
    BY <2>1
  <2> QED
    BY <2>1, <2>2 DEF Chain
<1>2. ASSUME NEW l \in Chain, NEW n \in 1 .. Len(l) PROVE SubSeq(l, 1, n) \in Chain
  <2>1. PICK g \in Signed : Len(l) <= Len(g) /\ SubSeq(g, 1, Len(l)) = l
    BY DEF Chain
  <2>2. g \in Seq(Nat) /\ l \in Seq(Nat) /\ l \in Ledgers /\ Len(l) \in Nat /\ Len(g) \in Nat
    BY LedgersAssumption, SMTT(30) DEF Chain
  <2>3. SubSeq(l, 1, n) \in Ledgers /\ Len(SubSeq(l, 1, n)) = n
    BY <2>2, LedgersAssumption, Prefix
  <2>4. Len(l) \in 1 .. Len(g) /\ n \in 1 .. Len(l)
    BY <2>1, <2>2
  <2>5. SubSeq(SubSeq(g, 1, Len(l)), 1, n) = SubSeq(g, 1, n)
    BY <2>2, <2>4, PrefixOfPrefix
  <2>6. SubSeq(l, 1, n) = SubSeq(g, 1, n) /\ n <= Len(g)
    BY <2>1, <2>2, <2>4, <2>5
  <2> QED
    BY <2>3, <2>6 DEF Chain
<1> QED
  BY <1>1, <1>2 DEF Chain

(* A ledger has a positive sequence, for which the table has a row.            *)
LEMMA LedgerFacts ==
  /\ \A l \in Ledgers : l \in Seq(Nat) /\ l # None /\ Len(l) \in Nat /\ Len(l) > 0 /\ Len(l) \in DOMAIN Rows
  /\ Len(None) = 0
<1>1. ASSUME NEW l \in Ledgers PROVE l \in Seq(Nat) /\ l # None /\ Len(l) \in Nat /\ Len(l) > 0 /\ Len(l) \in DOMAIN Rows
  <2>1. l \in Seq(Nat) /\ l # <<>> /\ Len(l) \in DOMAIN Rows
    BY LedgersAssumption, RowsAssumption
  <2> QED
    BY <2>1 DEF None
<1> QED
  BY <1>1 DEF None

(* When the validators sign one branch only, a sequence has one ledger on it.  *)
LEMMA OneLedger ==
  ASSUME OneBranch, NEW l \in Chain, NEW m \in Chain, Len(l) = Len(m) PROVE l = m
<1>1. PICK g \in Signed : Len(l) <= Len(g) /\ SubSeq(g, 1, Len(l)) = l
  BY DEF Chain
<1>2. PICK h \in Signed : Len(m) <= Len(h) /\ SubSeq(h, 1, Len(m)) = m
  BY DEF Chain
<1>3. /\ g \in Seq(Nat) /\ h \in Seq(Nat) /\ Len(g) \in Nat /\ Len(h) \in Nat
      /\ Len(l) \in Nat /\ Len(l) > 0
  BY LedgersAssumption, LedgerFacts, ChainFacts
<1>4. CASE Len(g) <= Len(h)
  <2>1. SubSeq(h, 1, Len(g)) = g
    BY <1>4 DEF OneBranch
  <2>2. SubSeq(SubSeq(h, 1, Len(g)), 1, Len(l)) = SubSeq(h, 1, Len(l))
    BY <1>1, <1>3, <1>4, PrefixOfPrefix
  <2> QED
    BY <1>1, <1>2, <2>1, <2>2
<1>5. CASE Len(h) <= Len(g)
  <2>1. SubSeq(g, 1, Len(h)) = h
    BY <1>5 DEF OneBranch
  <2>2. SubSeq(SubSeq(g, 1, Len(h)), 1, Len(l)) = SubSeq(g, 1, Len(l))
    BY <1>2, <1>3, <1>5, PrefixOfPrefix
  <2> QED
    BY <1>1, <1>2, <2>1, <2>2
<1> QED
  BY <1>3, <1>4, <1>5

(* A set of naturals below a bound has a greatest element, which is its Max.   *)
LEMMA MaxInSet ==
  ASSUME NEW n \in Nat, NEW S, S \subseteq 1 .. n, S # {}
  PROVE  Max(S) \in S
<1> DEFINE R == OpToRel(<, Nat)
           T == {n - x : x \in S}
<1>1. IsWellFoundedOn(R, Nat)
  BY NatLessThanWellFounded
<1>2. \A x, y \in Nat : x < y => <<x, y>> \in R
  BY DEF OpToRel
<1>3. T \subseteq Nat /\ T # {}
  <2>1. ASSUME NEW x \in S PROVE n - x \in Nat
    OBVIOUS
  <2> QED
    BY <2>1
<1> HIDE DEF R
<1>4. \E t \in T : \A u \in T : ~ (<<u, t>> \in R)
  <2> HIDE DEF T
  <2> QED
    BY <1>1, <1>3, WFMin
<1>5. PICK x \in S : \A y \in S : ~ (<<n - y, n - x>> \in R)
  BY <1>4
<1>6. ASSUME NEW y \in S PROVE x >= y
  <2>1. n - x \in Nat /\ n - y \in Nat /\ x \in Nat /\ y \in Nat
    OBVIOUS
  <2>2. ~ (n - y < n - x)
    BY <1>2, <1>5, <2>1
  <2> QED
    BY <2>1, <2>2
<1> QED
  BY <1>6 DEF Max

--------------------------------------------------------------------------------
(* The database.                                                               *)

(* From d to e nothing saved is lost.                                          *)
Keeps(d, e) ==
  /\ \A s \in Nat : SavedIn(d, s) => SavedIn(e, s)
  /\ \A s \in DOMAIN Rows : OnChain(d.rows, s) => OnChain(e.rows, s)

(* saveValidatedLedger replaces a row by a ledger of the same sequence, or     *)
(* notes the failure.                                                          *)
LEMMA SaveKeeps ==
  ASSUME NEW d \in Databases, NEW l \in Chain, NEW ok \in BOOLEAN,
         NEW e, e = saveValidatedLedger(d, l, ok)
  PROVE  /\ e \in Databases /\ Keeps(d, e) /\ SavedIn(e, Len(l))
         /\ e.flags = d.flags /\ e.complete \subseteq d.complete
<1>1. Len(l) \in Nat /\ Len(l) \in DOMAIN Rows /\ l \in Ledgers
  BY LedgerFacts, ChainFacts
<1>2. CASE ok
  <2>1. e = [d EXCEPT !.pending = @ \ {Len(l)}, !.rows = [d.rows EXCEPT ![Len(l)] = l]]
    BY <1>2 DEF saveValidatedLedger, seq, Databases
  <2>2. /\ e.rows = [d.rows EXCEPT ![Len(l)] = l] /\ e.pending = d.pending \ {Len(l)}
        /\ e.failed = d.failed /\ e.flags = d.flags /\ e.complete = d.complete /\ e.jobs = d.jobs
    BY <2>1 DEF Databases
  <2>3. d.rows \in Tables /\ e.rows \in Tables
    BY <1>1, <2>2 DEF Databases, Tables
  <2>4. e \in Databases
    BY <2>1, <2>2, <2>3 DEF Databases
  <2>5. \A s \in DOMAIN Rows : e.rows[s] = IF s = Len(l) THEN l ELSE d.rows[s]
    BY <1>1, <2>2, <2>3 DEF Tables
  <2>6. OnChain(e.rows, Len(l))
    BY <1>1, <2>5 DEF OnChain
  <2>7. \A s : s # Len(l) => e.rows[s] = d.rows[s]
    BY <1>1, <2>2, <2>3 DEF Tables
  <2> QED
    BY <2>2, <2>4, <2>6, <2>7 DEF Keeps, SavedIn, OnChain
<1>3. CASE ~ok
  <2>1. e = [d EXCEPT !.pending = @ \ {Len(l)}, !.complete = @ \ {Len(l)}, !.failed = @ \cup {l}]
    BY <1>3 DEF saveValidatedLedger, clearLedger, seq, Databases
  <2>2. /\ e.rows = d.rows /\ e.pending = d.pending \ {Len(l)} /\ e.failed = d.failed \cup {l}
        /\ e.flags = d.flags /\ e.complete = d.complete \ {Len(l)} /\ e.jobs = d.jobs
    BY <2>1 DEF Databases
  <2>3. e \in Databases
    BY <2>1, <2>2 DEF Databases
  <2> QED
    BY <2>2, <2>3 DEF Keeps, SavedIn, OnChain
<1> QED
  BY <1>2, <1>3

(* pendSaveValidated keeps what the database promises, and promises the ledger.*)
LEMMA PendSaveKeeps ==
  ASSUME NEW d, Promised(d), NEW l \in Chain, NEW sync \in BOOLEAN, NEW ok \in BOOLEAN,
         NEW e, e = pendSaveValidated(d, l, sync, ok)
  PROVE  Promised(e) /\ Keeps(d, e) /\ SavedIn(e, Len(l))
<1> DEFINE f == [d EXCEPT !.flags = @ \cup {l}]
<1>1. Len(l) \in Nat /\ d \in Databases
  BY LedgerFacts, ChainFacts DEF Promised
<1>2. /\ f.rows = d.rows /\ f.pending = d.pending /\ f.failed = d.failed
      /\ f.flags = d.flags \cup {l} /\ f.complete = d.complete /\ f.jobs = d.jobs
  BY <1>1 DEF Databases
<1>3. f \in Databases
  BY <1>1, <1>2 DEF Databases
<1>4. \A s : SavedIn(d, s) <=> SavedIn(f, s)
  BY <1>2 DEF SavedIn, OnChain
<1>5. CASE l \in d.flags /\ (~sync \/ seq(l) \notin d.pending)
  <2>1. e = d
    BY <1>5 DEF pendSaveValidated
  <2> QED
    BY <1>5, <2>1 DEF Promised, Keeps
<1>6. CASE ~(l \in d.flags /\ (~sync \/ seq(l) \notin d.pending)) /\ sync
  <2>1. e = saveValidatedLedger(f, l, ok)
    BY <1>6 DEF pendSaveValidated
  <2> HIDE DEF f
  <2>2. /\ e \in Databases /\ Keeps(f, e) /\ SavedIn(e, Len(l))
        /\ e.flags = f.flags /\ e.complete \subseteq f.complete
    BY <1>3, <2>1, SaveKeeps
  <2>3. \A s \in Nat : SavedIn(d, s) => SavedIn(e, s)
    BY <1>4, <2>2 DEF Keeps
  <2>4. \A s \in DOMAIN Rows : OnChain(d.rows, s) => OnChain(e.rows, s)
    BY <1>2, <2>2 DEF Keeps
  <2>5. ASSUME NEW m \in e.flags PROVE SavedIn(e, Len(m))
    <3>1. m \in Chain /\ (m = l \/ m \in d.flags)
      BY <1>2, <1>3, <2>2 DEF Databases
    <3>2. Len(m) \in Nat
      BY <3>1, ChainFacts, LedgerFacts
    <3> QED
      BY <2>2, <2>3, <3>1, <3>2 DEF Promised
  <2>6. ASSUME NEW s \in e.complete PROVE SavedIn(e, s)
    <3>1. s \in d.complete /\ s \in Nat
      BY <1>1, <1>2, <2>2 DEF Databases
    <3> QED
      BY <2>3, <3>1 DEF Promised
  <2> QED
    BY <2>2, <2>3, <2>4, <2>5, <2>6 DEF Promised, Keeps
<1>7. CASE ~sync /\ l \notin d.flags /\ seq(l) \in d.pending
  <2>1. e = f
    BY <1>7 DEF pendSaveValidated
  <2>2. SavedIn(f, Len(l))
    BY <1>2, <1>7 DEF SavedIn, seq
  <2> HIDE DEF f
  <2> QED
    BY <1>2, <1>3, <1>4, <2>1, <2>2 DEF Promised, Keeps
<1>8. CASE ~sync /\ l \notin d.flags /\ seq(l) \notin d.pending
  <2>1. e = [f EXCEPT !.pending = @ \cup {Len(l)}, !.jobs = @ \cup {l}]
    BY <1>8 DEF pendSaveValidated, seq
  <2> HIDE DEF f
  <2>2. /\ e.rows = f.rows /\ e.pending = f.pending \cup {Len(l)} /\ e.failed = f.failed
        /\ e.flags = f.flags /\ e.complete = f.complete /\ e.jobs = f.jobs \cup {l}
    BY <1>3, <2>1 DEF Databases
  <2>3. e \in Databases
    BY <1>1, <1>3, <2>1, <2>2 DEF Databases
  <2>4. SavedIn(e, Len(l)) /\ \A s : SavedIn(d, s) => SavedIn(e, s)
    BY <1>2, <2>2 DEF SavedIn, OnChain
  <2> QED
    BY <1>2, <2>2, <2>3, <2>4 DEF Promised, Keeps, OnChain
<1> QED
  BY <1>5, <1>6, <1>7, <1>8

(* What is reported as complete may change as long as it is saved.             *)
LEMMA CompleteKeeps ==
  ASSUME NEW d, Promised(d), NEW C \in SUBSET Nat, \A s \in C : SavedIn(d, s),
         NEW e, e = [d EXCEPT !.complete = C]
  PROVE  Promised(e) /\ Keeps(d, e) /\ \A s : SavedIn(e, s) <=> SavedIn(d, s)
<1>1. d \in Databases
  BY DEF Promised
<1>2. /\ e.rows = d.rows /\ e.pending = d.pending /\ e.failed = d.failed
      /\ e.flags = d.flags /\ e.complete = C /\ e.jobs = d.jobs
  BY <1>1 DEF Databases
<1>3. e \in Databases
  BY <1>1, <1>2 DEF Databases
<1>4. \A s : SavedIn(e, s) <=> SavedIn(d, s)
  BY <1>2 DEF SavedIn, OnChain
<1> QED
  BY <1>2, <1>3, <1>4 DEF Promised, Keeps

(* setFullLedger before it takes m_mutex.                                      *)
LEMMA FullKeeps ==
  ASSUME NEW d, Promised(d), NEW l \in Chain, NEW sync \in BOOLEAN, NEW ok \in BOOLEAN,
         NEW e, e = makeFull(d, l, sync, ok)
  PROVE  Promised(e) /\ Keeps(d, e) /\ SavedIn(e, Len(l))
<1> DEFINE prior == Len(l) - 1
           c == IF prior > 0 /\ d.rows[prior] \notin {None, parent(l)} THEN clearLedger(d, prior) ELSE d
           p == pendSaveValidated(c, l, sync, ok)
<1>1. Len(l) \in Nat
  BY ChainFacts, LedgerFacts
<1>2. Promised(c) /\ Keeps(d, c)
  <2>1. CASE c = d
    BY <2>1 DEF Keeps
  <2>2. CASE c = clearLedger(d, prior)
    <3> DEFINE C == d.complete \ {prior}
    <3>1. c = [d EXCEPT !.complete = C]
      BY <2>2 DEF clearLedger, Promised, Databases
    <3>2. C \in SUBSET Nat /\ \A s \in C : SavedIn(d, s)
      BY DEF Promised, Databases
    <3> HIDE DEF C, c
    <3> QED
      BY <3>1, <3>2, CompleteKeeps
  <2> HIDE DEF prior
  <2> QED
    BY <2>1, <2>2
<1> DEFINE C == p.complete \cup {Len(l)}
<1>3. e = [p EXCEPT !.complete = C]
  BY DEF makeFull, seq
<1> HIDE DEF c
<1>4. Promised(p) /\ Keeps(c, p) /\ SavedIn(p, Len(l))
  <2> HIDE DEF p
  <2>1. p = pendSaveValidated(c, l, sync, ok)
    BY DEF p
  <2> QED
    BY <1>2, <2>1, PendSaveKeeps
<1> HIDE DEF p
<1>5. C \in SUBSET Nat /\ \A s \in C : SavedIn(p, s)
  BY <1>1, <1>4 DEF Promised, Databases
<1> HIDE DEF C
<1>6. Promised(e) /\ Keeps(p, e) /\ SavedIn(e, Len(l))
  BY <1>3, <1>4, <1>5, CompleteKeeps, Zenon
<1> QED
  BY <1>2, <1>4, <1>6 DEF Keeps

(* The part of setFullLedger under m_mutex.                                    *)
LEMMA PriorKeeps ==
  ASSUME NEW d, Promised(d), NEW l, NEW e, e = checkPrior(d, l)
  PROVE  Promised(e) /\ Keeps(d, e)
<1>1. CASE e = d
  BY <1>1 DEF Keeps
<1>2. CASE e = [d EXCEPT !.complete = fixMismatch(d.complete, l)]
  <2>1. fixMismatch(d.complete, l) \subseteq d.complete
    BY DEF fixMismatch
  <2>2. fixMismatch(d.complete, l) \in SUBSET Nat /\ \A s \in fixMismatch(d.complete, l) : SavedIn(d, s)
    BY <2>1 DEF Promised, Databases
  <2> QED
    BY <1>2, <2>2, CompleteKeeps
<1>3. e = d \/ e = [d EXCEPT !.complete = fixMismatch(d.complete, l)]
  BY DEF checkPrior
<1> QED
  BY <1>1, <1>2, <1>3

(* What the tryFill job knows stays true.                                      *)
LEMMA FillSame ==
  ASSUME FillOK, Keeps(db, db'), UNCHANGED fill PROVE FillOK'
  BY DEF FillOK, Keeps

LEMMA DbSame ==
  ASSUME db' = db PROVE Keeps(db, db')
  BY DEF Keeps

--------------------------------------------------------------------------------
(* The advance thread.                                                         *)

(* Fields of the advance record are what its type says.                        *)
LEMMA AdvanceFields ==
  ASSUME NEW a \in Advances
  PROVE  /\ a.pc \in Pcs /\ a.work \in BOOLEAN /\ a.seq \in Nat /\ a.target \in Signed \cup {None}
         /\ a.list \in Seq(Chain) /\ a.hist \in Chain \cup {None}
  BY DEF Advances

(* tryAdvance starts the thread when there is a validated ledger.              *)
LEMMA TryAdvance ==
  ASSUME NEW a \in Advances, NEW v, NEW b, b = tryAdvance(a, v)
  PROVE  /\ b \in Advances
         /\ b.seq = a.seq /\ b.target = a.target /\ b.list = a.list /\ b.hist = a.hist
         /\ b.pc = a.pc \/ (a.pc = "idle" /\ b.pc = "find" /\ v # None)
<1> DEFINE q == IF a.pc = "idle" /\ v # None THEN "find" ELSE a.pc
<1>1. b = [a EXCEPT !.work = TRUE, !.pc = q]
  BY DEF tryAdvance
<1>2. q \in Pcs /\ (q = a.pc \/ (a.pc = "idle" /\ q = "find" /\ v # None))
  BY AdvanceFields DEF Pcs
<1> HIDE DEF q
<1> QED
  BY <1>1, <1>2 DEF Advances

(* The end of an iteration.                                                    *)
LEMMA Again ==
  ASSUME NEW a \in Advances, NEW progress \in BOOLEAN, NEW b, b = again(a, progress)
  PROVE  b \in Advances /\ b.list = <<>> /\ b.pc \in {"idle", "find"} /\ b.hist = a.hist
<1> DEFINE w == a.work \/ progress
           q == IF a.work \/ progress THEN "find" ELSE "idle"
<1>1. b = [a EXCEPT !.work = w, !.seq = 0, !.target = None, !.list = <<>>, !.pc = q]
  BY DEF again
<1>2. q \in {"idle", "find"} /\ q \in Pcs
  BY DEF Pcs
<1>3. w \in BOOLEAN
  BY AdvanceFields
<1>4. <<>> \in Seq(Chain)
  OBVIOUS
<1> HIDE DEF w, q
<1>5. b.list = <<>> /\ b.pc = q /\ b.hist = a.hist
  BY <1>1 DEF Advances
<1>6. [a EXCEPT !.work = w, !.seq = 0, !.target = None, !.pc = q] \in Advances
  BY <1>2, <1>3 DEF Advances
<1>7. b = [[a EXCEPT !.work = w, !.seq = 0, !.target = None, !.pc = q] EXCEPT !.list = <<>>]
  BY <1>1 DEF Advances
<1> QED
  BY <1>2, <1>4, <1>5, <1>6, <1>7 DEF Advances

(* With nothing to publish, the thread may go for the highest hole below the   *)
(* published ledger.                                                           *)
LEMMA LookBack ==
  ASSUME ValidOK, mValidLedger # None, NEW a \in Advances, NEW busy \in BOOLEAN,
         NEW b, b = lookBack(a, busy)
  PROVE  /\ b \in Advances /\ b.pc \in {"idle", "find", "fetch"}
         /\ b.pc = "fetch" => b.seq > 0 /\ b.seq <= Len(mValidLedger)
<1> DEFINE gaps == missingBelow(Len(mPubLedger))
           last == Max(gaps)
<1>1. CASE busy \/ Len(mValidLedger) # Len(mPubLedger)
  <2> DEFINE c == [a EXCEPT !.hist = None]
  <2>1. c \in Advances
    BY DEF Advances
  <2>2. b = again(c, FALSE)
    BY <1>1 DEF lookBack, seq, mValidLedgerSeq, mPubLedgerSeq
  <2> HIDE DEF c
  <2> QED
    BY <2>1, <2>2, Again
<1>2. CASE /\ ~(busy \/ Len(mValidLedger) # Len(mPubLedger))
           /\ gaps # {} /\ (fill.seq = 0 \/ last > fill.seq) /\ shouldAcquire(last)
  <2>1. b = [a EXCEPT !.pc = "fetch", !.seq = last, !.target = None]
    BY <1>2 DEF lookBack, seq, mValidLedgerSeq, mPubLedgerSeq
  <2>2. mPubLedger \in Ledgers /\ Len(mPubLedger) \in Nat /\ Len(mPubLedger) - 1 \in Nat
    BY ChainFacts, LedgerFacts DEF ValidOK
  <2>3. gaps \subseteq 1 .. Len(mPubLedger) - 1
    BY DEF missingBelow
  <2> HIDE DEF gaps
  <2>4. last \in gaps
    BY <1>2, <2>2, <2>3, MaxInSet
  <2> HIDE DEF last
  <2>5. last \in 1 .. Len(mPubLedger) - 1 /\ Len(mValidLedger) = Len(mPubLedger)
    BY <1>2, <2>3, <2>4
  <2>6. last \in Nat /\ last > 0 /\ last <= Len(mValidLedger)
    BY <2>2, <2>5
  <2>7. "fetch" \in Pcs
    BY DEF Pcs
  <2> QED
    BY <2>1, <2>6, <2>7 DEF Advances
<1>3. CASE /\ ~(busy \/ Len(mValidLedger) # Len(mPubLedger))
           /\ ~(gaps # {} /\ (fill.seq = 0 \/ last > fill.seq) /\ shouldAcquire(last))
  <2>1. b = again(a, FALSE)
    BY <1>3 DEF lookBack, seq, mValidLedgerSeq, mPubLedgerSeq
  <2> QED
    BY <2>1, Again
<1> QED
  BY <1>1, <1>2, <1>3

(* A step that leaves the progress of the server alone, or only asks for more. *)
LEMMA QuietAdvance ==
  ASSUME ValidOK, AdvanceOK, mValidLedger' \in Signed \cup {None},
         mValidLedger' = mValidLedger \/ Len(mValidLedger') > Len(mValidLedger),
         advance' = advance \/ advance' = tryAdvance(advance, mValidLedger'),
         mPubLedger' = mPubLedger \/ advance.pc = "idle"
  PROVE  /\ AdvanceOK' /\ advance'.list = advance.list
         /\ advance'.pc = advance.pc \/ (advance.pc = "idle" /\ advance'.pc = "find")
<1>1. /\ advance' \in Advances
      /\ advance'.seq = advance.seq /\ advance'.target = advance.target /\ advance'.list = advance.list
      /\ advance'.pc = advance.pc \/ (advance.pc = "idle" /\ advance'.pc = "find" /\ mValidLedger' # None)
  <2>1. CASE advance' = advance
    BY <2>1 DEF AdvanceOK
  <2>2. CASE advance' = tryAdvance(advance, mValidLedger')
    BY <2>2, TryAdvance DEF AdvanceOK
  <2> QED
    BY <2>1, <2>2
<1>2. Len(mValidLedger) \in Nat /\ Len(mValidLedger') \in Nat /\ Len(None) = 0
  BY ChainFacts, LedgerFacts DEF ValidOK
<1>3. mValidLedger # None => mValidLedger' # None
  BY <1>2
<1>4. CASE advance.pc = "idle"
  <2>1. advance'.pc \in {"idle", "find"} /\ (advance'.pc # "idle" => mValidLedger' # None)
    BY <1>1, <1>4, <1>3
  <2> QED
    BY <1>1, <2>1 DEF AdvanceOK, Publishing, Filling
<1>5. CASE advance.pc # "idle"
  <2>1. /\ advance'.pc = advance.pc /\ mPubLedger' = mPubLedger
        /\ mValidLedger # None /\ mValidLedger' # None /\ Len(mValidLedger) <= Len(mValidLedger')
    BY <1>1, <1>2, <1>3, <1>5 DEF AdvanceOK
  <2>2. InOrder' <=> InOrder
    BY <1>1, <2>1 DEF InOrder
  <2>3. advance.seq \in Nat
    BY AdvanceFields DEF AdvanceOK
  <2>4. advance'.pc = "scan" => advance'.target # None /\ advance'.seq > 0 /\ InOrder'
    BY <1>1, <2>1, <2>2 DEF AdvanceOK
  <2>5. /\ advance'.pc \in Publishing => advance'.list # <<>> /\ (advance'.list = <<mPubLedger'>> \/ InOrder')
        /\ advance'.pc \in Filling => advance'.list # <<>>
    BY <1>1, <2>1, <2>2 DEF AdvanceOK
  <2>6. advance'.pc \in {"fetch", "fetched"} => advance'.seq > 0 /\ advance'.seq <= Len(mValidLedger')
    BY <1>1, <1>2, <2>1, <2>3 DEF AdvanceOK
  <2> QED
    BY <1>1, <2>1, <2>4, <2>5, <2>6 DEF AdvanceOK
<1> QED
  BY <1>1, <1>4, <1>5

(* So the ledger saved by setFullLedger remains the one at the head.           *)
LEMMA QuietDb ==
  ASSUME DbOK, AdvanceOK, Promised(db'), Keeps(db, db'), advance'.list = advance.list,
         advance'.pc = advance.pc \/ (advance.pc = "idle" /\ advance'.pc = "find")
  PROVE  DbOK'
<1>1. SUFFICES ASSUME advance'.pc \in {"check", "publish", "histcheck", "hist"}
               PROVE  SavedIn(db', Len(Head(advance'.list)))
  BY DEF DbOK
<1>2. advance.pc = advance'.pc /\ SavedIn(db, Len(Head(advance.list)))
  BY <1>1 DEF DbOK
<1>3. advance.list \in Seq(Chain) /\ advance.list # <<>>
  BY <1>1, <1>2 DEF AdvanceOK, Advances, Publishing, Filling
<1>4. Head(advance.list) \in Chain
  BY <1>3
<1>5. Len(Head(advance.list)) \in Nat
  BY <1>4, ChainFacts, LedgerFacts
<1> QED
  BY <1>2, <1>5 DEF Keeps

(* A step that only changes what the threads hand to each other.               *)
LEMMA QuietIInv ==
  ASSUME IInv, InputsOK', UNCHANGED <<mValidLedger, mPubLedger, advance, fill, db>>
  PROVE  IInv'
<1>1. ValidOK'
  BY DEF IInv, ValidOK
<1>2. AdvanceOK'
  BY DEF IInv, AdvanceOK, InOrder
<1>3. DbOK'
  BY DEF IInv, DbOK
<1>4. FillOK'
  BY DEF IInv, FillOK
<1> QED
  BY <1>1, <1>2, <1>3, <1>4 DEF IInv

--------------------------------------------------------------------------------
(* The actions.                                                                *)

LEMMA HandleValidationIInv ==
  ASSUME IInv, NEW v \in Validators, NEW l \in Signed, HandleValidation(v, l)
  PROVE  IInv'
<1>1. /\ UNCHANGED <<accepting, held, acquiring, consensus, mValidLedger, mPubLedger, advance, fill, db>>
      /\ byLedger' = [byLedger EXCEPT ![l] = @ \cup {v}] /\ calls' = calls \cup {l}
  BY DEF HandleValidation
<1>2. l \in Ledgers
  BY LedgersAssumption
<1>3. InputsOK
  BY DEF IInv
<1>4. /\ DOMAIN byLedger' = Ledgers
      /\ \A m \in Ledgers : byLedger'[m] # {} => m \in Signed
  BY <1>1, <1>3 DEF InputsOK
<1>5. InputsOK'
  BY <1>1, <1>2, <1>3, <1>4 DEF InputsOK
<1> QED
  BY <1>1, <1>5, QuietIInv

(* checkAccept(hash, seq) hands over ledgers.                                  *)
LEMMA CheckHash ==
  ASSUME InputsOK, NEW l \in Ledgers, NEW then, checkAcceptHash(l, then)
  PROVE  acquiring' \in SUBSET Ledgers /\ \A c \in accepting' : c.ledger \in Ledgers \cup {None}
<1>1. acquiring' = acquiring \/ acquiring' = acquiring \cup {l}
  BY DEF checkAcceptHash
<1>2. accepting' = accepting \/ accepting' = accepting \cup {[ledger |-> l, then |-> then]}
  BY DEF checkAcceptHash
<1> QED
  BY <1>1, <1>2 DEF InputsOK

LEMMA CheckAcceptHashIInv ==
  ASSUME IInv, NEW l \in calls, CheckAcceptHash(l)
  PROVE  IInv'
<1>1. /\ UNCHANGED <<byLedger, held, consensus, mValidLedger, mPubLedger, advance, fill, db>>
      /\ calls' = calls \ {l} /\ checkAcceptHash(l, "return")
  BY DEF CheckAcceptHash, inputs
<1>2. InputsOK /\ l \in Ledgers
  BY DEF IInv, InputsOK
<1>3. acquiring' \in SUBSET Ledgers /\ \A c \in accepting' : c.ledger \in Ledgers \cup {None}
  BY <1>1, <1>2, CheckHash
<1>4. InputsOK'
  BY <1>1, <1>2, <1>3 DEF InputsOK
<1> QED
  BY <1>1, <1>4, QuietIInv

LEMMA CloseLedgerIInv ==
  ASSUME IInv, NEW l \in held, CloseLedger(l)
  PROVE  IInv'
<1>1. /\ UNCHANGED <<byLedger, calls, accepting, held, acquiring, mValidLedger, mPubLedger, advance, fill, db>>
      /\ consensus' = [pc |-> "building", ledger |-> l, rounds |-> consensus.rounds + 1]
  BY DEF CloseLedger, inputs
<1>2. InputsOK
  BY DEF IInv
<1>3. consensus' \in RoundStates /\ \A c \in accepting' : c.ledger \in Ledgers \cup {None}
  BY <1>1, <1>2 DEF InputsOK, RoundStates
<1>4. InputsOK'
  BY <1>1, <1>2, <1>3 DEF InputsOK
<1> QED
  BY <1>1, <1>4, QuietIInv

LEMMA ConsensusBuiltIInv ==
  ASSUME IInv, NEW l \in Built, ConsensusBuilt(l)
  PROVE  IInv'
<1>1. /\ UNCHANGED <<byLedger, calls, acquiring, mValidLedger, mPubLedger, advance, fill, db>>
      /\ held' = held \cup {l}
      /\ \/ consensus' = [consensus EXCEPT !.pc = "switch", !.ledger = l]
         \/ consensus' = [consensus EXCEPT !.pc = "accept", !.ledger = l]
      /\ accepting' = accepting \/ accepting' = accepting \cup {[ledger |-> l, then |-> "recheck"]}
  BY DEF ConsensusBuilt, inputs
<1>2. InputsOK /\ l \in Ledgers
  BY LedgersAssumption DEF IInv
<1>3. consensus' \in RoundStates
  BY <1>1, <1>2 DEF InputsOK, RoundStates
<1>4. \A c \in accepting' : c.ledger \in Ledgers \cup {None}
  BY <1>1, <1>2 DEF InputsOK
<1>5. InputsOK'
  BY <1>1, <1>2, <1>3, <1>4 DEF InputsOK
<1> QED
  BY <1>1, <1>5, QuietIInv

LEMMA RecheckIInv ==
  ASSUME IInv, Recheck
  PROVE  IInv'
<1>1. /\ UNCHANGED <<byLedger, calls, held, mValidLedger, mPubLedger, advance, fill, db>>
      /\ \/ consensus' = [consensus EXCEPT !.pc = "switch"]
         \/ consensus' = [consensus EXCEPT !.pc = "accept"]
      /\ UNCHANGED <<accepting, acquiring>> \/ \E l \in newest : checkAcceptHash(l, "switch")
  BY DEF Recheck, inputs
<1>2. InputsOK /\ newest \subseteq Ledgers
  BY DEF IInv, newest
<1>3. acquiring' \in SUBSET Ledgers /\ \A c \in accepting' : c.ledger \in Ledgers \cup {None}
  <2>1. CASE UNCHANGED <<accepting, acquiring>>
    BY <1>2, <2>1 DEF InputsOK
  <2>2. CASE \E l \in newest : checkAcceptHash(l, "switch")
    BY <1>2, <2>2, CheckHash
  <2> QED
    BY <1>1, <2>1, <2>2
<1>4. consensus' \in RoundStates
  BY <1>1, <1>2 DEF InputsOK, RoundStates
<1>5. InputsOK'
  BY <1>1, <1>2, <1>3, <1>4 DEF InputsOK
<1> QED
  BY <1>1, <1>5, QuietIInv

LEMMA SwitchLCLIInv ==
  ASSUME IInv, SwitchLCL
  PROVE  IInv'
<1>1. /\ UNCHANGED <<byLedger, calls, held, acquiring, mValidLedger, mPubLedger, advance, fill, db>>
      /\ consensus' = [consensus EXCEPT !.pc = "idle", !.ledger = None]
      /\ accepting' = accepting \/ accepting' = accepting \cup {[ledger |-> consensus.ledger, then |-> "return"]}
  BY DEF SwitchLCL, inputs
<1>2. InputsOK
  BY DEF IInv
<1>3. consensus.ledger \in Ledgers \cup {None} /\ consensus' \in RoundStates
  BY <1>1, <1>2 DEF InputsOK, RoundStates
<1>4. \A c \in accepting' : c.ledger \in Ledgers \cup {None}
  BY <1>1, <1>2, <1>3 DEF InputsOK
<1>5. InputsOK'
  BY <1>1, <1>2, <1>3, <1>4 DEF InputsOK
<1> QED
  BY <1>1, <1>5, QuietIInv

(* A failed save asks for a ledger of the chain again.                         *)
LEMMA Reacquired ==
  ASSUME InputsOK, NEW d \in Databases PROVE reacquired(d) \in SUBSET Ledgers
<1>1. d.failed \subseteq Ledgers
  BY ChainFacts DEF Databases
<1> QED
  BY <1>1 DEF reacquired, InputsOK

LEMMA SaveJobIInv ==
  ASSUME IInv, NEW l \in db.jobs, NEW ok \in BOOLEAN, SaveJob(l, ok)
  PROVE  IInv'
<1> DEFINE t == [db EXCEPT !.jobs = @ \ {l}]
<1>1. /\ UNCHANGED <<byLedger, calls, accepting, held, consensus, mValidLedger, mPubLedger, advance, fill>>
      /\ db' = t \/ db' = saveValidatedLedger(t, l, ok)
      /\ acquiring' = reacquired(db')
  BY DEF SaveJob, inputs
<1>2. InputsOK /\ ValidOK /\ AdvanceOK /\ DbOK /\ FillOK
  BY DEF IInv
<1>3. db \in Databases /\ Promised(db)
  BY <1>2 DEF DbOK, Promised
<1>4. /\ t.rows = db.rows /\ t.pending = db.pending /\ t.failed = db.failed
      /\ t.flags = db.flags /\ t.complete = db.complete
  BY <1>3 DEF Databases
<1>5. t \in Databases /\ l \in Chain
  BY <1>3 DEF Databases
<1>6. \A s : SavedIn(t, s) <=> SavedIn(db, s)
  BY <1>4 DEF SavedIn, OnChain
<1>7. Promised(t) /\ Keeps(db, t)
  BY <1>3, <1>4, <1>5, <1>6 DEF Promised, Keeps
<1> HIDE DEF t
<1>8. Promised(db') /\ Keeps(db, db')
  <2>1. CASE db' = t
    BY <1>7, <2>1
  <2>2. CASE db' = saveValidatedLedger(t, l, ok)
    <3>1. /\ db' \in Databases /\ Keeps(t, db') /\ db'.flags = t.flags /\ db'.complete \subseteq t.complete
      BY <1>5, <2>2, SaveKeeps
    <3>2. t.complete \subseteq Nat /\ \A m \in t.flags : Len(m) \in Nat
      BY <1>5, ChainFacts, LedgerFacts DEF Databases
    <3> QED
      BY <1>7, <3>1, <3>2 DEF Promised, Keeps
  <2> QED
    BY <1>1, <2>1, <2>2
<1>9. InputsOK'
  <2>1. acquiring' \in SUBSET Ledgers
    BY <1>1, <1>2, <1>8, Reacquired DEF Promised
  <2> QED
    BY <1>1, <1>2, <2>1 DEF InputsOK
<1>10. ValidOK' /\ AdvanceOK'
  BY <1>1, <1>2 DEF ValidOK, AdvanceOK, InOrder
<1>11. DbOK' /\ FillOK'
  BY <1>1, <1>2, <1>8, QuietDb, FillSame
<1> QED
  BY <1>9, <1>10, <1>11 DEF IInv

(* checkAccept(ledger) goes on only with a later ledger that is signed.        *)
LEMMA Acceptable ==
  ASSUME InputsOK, ValidOK, NEW l \in Ledgers \cup {None}, acceptable(l)
  PROVE  l \in Signed /\ Len(l) > Len(mValidLedger)
<1>1. Len(l) > Len(mValidLedger) /\ Cardinality(byLedger[l]) >= Quorum
  BY DEF acceptable, seq, mValidLedgerSeq, numTrustedForLedger
<1>2. Len(mValidLedger) \in Nat
  BY ChainFacts, LedgerFacts DEF ValidOK
<1>3. l \in Ledgers
  BY <1>1, <1>2, LedgerFacts
<1>4. byLedger[l] # {}
  <2>1. Quorum \in Nat \ {0}
    BY LedgersAssumption
  <2>2. Cardinality({}) = 0
    BY FS_EmptySet
  <2>3. byLedger[l] = {} => Cardinality(byLedger[l]) = 0
    BY <2>2, Zenon
  <2> QED
    BY <1>1, <2>1, <2>3
<1> QED
  BY <1>1, <1>3, <1>4 DEF InputsOK

LEMMA CheckAcceptIInv ==
  ASSUME IInv, NEW c \in accepting, NEW ok \in BOOLEAN, CheckAccept(c, ok)
  PROVE  IInv'
<1> DEFINE l == c.ledger
           q == IF c.then \in {"recheck", "switch"} THEN c.then ELSE consensus.pc
<1>1. /\ UNCHANGED <<byLedger, calls, held, fill>> /\ accepting' = accepting \ {c}
      /\ acquiring' = reacquired(db')
      /\ consensus' = [consensus EXCEPT !.pc = q]
  BY DEF CheckAccept, inputs
<1>2. InputsOK /\ ValidOK /\ AdvanceOK /\ DbOK /\ FillOK
  BY DEF IInv
<1>3. l \in Ledgers \cup {None} /\ Promised(db)
  BY <1>2 DEF InputsOK, DbOK
<1>4. /\ ValidOK' /\ Promised(db') /\ Keeps(db, db')
      /\ mValidLedger' = mValidLedger \/ Len(mValidLedger') > Len(mValidLedger)
      /\ advance' = advance \/ advance' = tryAdvance(advance, mValidLedger')
      /\ mPubLedger' = mPubLedger \/ advance.pc = "idle"
  <2>1. CASE acceptable(l)
    <3>1. l \in Signed /\ Len(l) > Len(mValidLedger) /\ l \in Chain
      BY <1>2, <1>3, <2>1, Acceptable, ChainFacts
    <3>2. /\ mValidLedger' = l /\ advance' = tryAdvance(advance, mValidLedger')
          /\ \/ mPubLedger = None /\ db' = pendSaveValidated(db, l, TRUE, ok) /\ mPubLedger' = l
             \/ mPubLedger # None /\ UNCHANGED <<db, mPubLedger>>
      BY <2>1 DEF CheckAccept
    <3>3. CASE mPubLedger = None /\ db' = pendSaveValidated(db, l, TRUE, ok) /\ mPubLedger' = l
      <4>1. advance.pc = "idle"
        BY <1>2, <3>3 DEF ValidOK, AdvanceOK
      <4>2. Promised(db') /\ Keeps(db, db')
        BY <1>3, <3>1, <3>3, PendSaveKeeps
      <4>3. l # None
        BY <3>1, ChainFacts, LedgerFacts
      <4>4. ValidOK'
        BY <3>1, <3>2, <3>3, <4>3 DEF ValidOK
      <4> QED
        BY <3>1, <3>2, <4>1, <4>2, <4>4
    <3>4. CASE mPubLedger # None /\ UNCHANGED <<db, mPubLedger>>
      <4>1. Promised(db') /\ Keeps(db, db')
        BY <1>3, <3>4, DbSame
      <4>2. ValidOK'
        BY <1>2, <3>1, <3>2, <3>4 DEF ValidOK
      <4> QED
        BY <3>1, <3>2, <3>4, <4>1, <4>2
    <3> QED
      BY <3>2, <3>3, <3>4
  <2>2. CASE ~acceptable(l)
    <3>1. /\ UNCHANGED <<mValidLedger, mPubLedger, db>>
          /\ advance' = advance \/ advance' = tryAdvance(advance, mValidLedger')
      BY <2>2 DEF CheckAccept
    <3>2. Promised(db') /\ Keeps(db, db')
      BY <1>3, <3>1, DbSame
    <3> QED
      BY <1>2, <3>1, <3>2 DEF ValidOK
  <2> QED
    BY <2>1, <2>2
<1>5. /\ AdvanceOK' /\ advance'.list = advance.list
      /\ advance'.pc = advance.pc \/ (advance.pc = "idle" /\ advance'.pc = "find")
  <2>1. mValidLedger' \in Signed \cup {None}
    BY <1>4 DEF ValidOK
  <2> QED
    BY <1>2, <1>4, <2>1, QuietAdvance
<1>6. DbOK' /\ FillOK'
  BY <1>1, <1>2, <1>4, <1>5, QuietDb, FillSame
<1>7. InputsOK'
  <2>1. acquiring' \in SUBSET Ledgers
    BY <1>1, <1>2, <1>4, Reacquired DEF Promised
  <2>2. q \in {"idle", "building", "switch", "accept", "recheck"}
    BY <1>2 DEF InputsOK, RoundStates
  <2>3. consensus' \in RoundStates
    <3> HIDE DEF q
    <3> QED
      BY <1>1, <1>2, <2>2 DEF InputsOK, RoundStates
  <2> QED
    BY <1>1, <1>2, <2>1, <2>3 DEF InputsOK
<1> QED
  BY <1>4, <1>5, <1>6, <1>7 DEF IInv

LEMMA AcquiredIInv ==
  ASSUME IInv, NEW l \in acquiring, Acquired(l)
  PROVE  IInv'
<1>1. /\ UNCHANGED <<byLedger, calls, consensus, mValidLedger, mPubLedger, fill, db>>
      /\ acquiring' = acquiring \ {l} /\ held' = held \cup {l}
      /\ accepting' = accepting \/ accepting' = accepting \cup {[ledger |-> l, then |-> "advance"]}
      /\ advance' = advance \/ advance' = tryAdvance(advance, mValidLedger')
  BY DEF Acquired, inputs
<1>2. InputsOK /\ ValidOK /\ AdvanceOK /\ DbOK /\ FillOK
  BY DEF IInv
<1>3. l \in Ledgers
  BY <1>2 DEF InputsOK
<1>4. \A c \in accepting' : c.ledger \in Ledgers \cup {None}
  BY <1>1, <1>2, <1>3 DEF InputsOK
<1>5. InputsOK'
  BY <1>1, <1>2, <1>3, <1>4 DEF InputsOK
<1>6. ValidOK'
  BY <1>1, <1>2 DEF ValidOK
<1>7. /\ AdvanceOK' /\ advance'.list = advance.list
      /\ advance'.pc = advance.pc \/ (advance.pc = "idle" /\ advance'.pc = "find")
  <2>1. mValidLedger' \in Signed \cup {None}
    BY <1>6 DEF ValidOK
  <2> QED
    BY <1>1, <1>2, <2>1, QuietAdvance
<1>8. Promised(db') /\ Keeps(db, db')
  BY <1>1, <1>2, DbSame DEF DbOK
<1>9. DbOK' /\ FillOK'
  BY <1>1, <1>2, <1>7, <1>8, QuietDb, FillSame
<1> QED
  BY <1>5, <1>6, <1>7, <1>9 DEF IInv

(* Between setFullLedger and the next one the thread has no saved ledger.      *)
LEMMA NoHead ==
  ASSUME DbOK, UNCHANGED db, advance'.pc \notin {"check", "publish", "histcheck", "hist"}
  PROVE  DbOK'
  BY DEF DbOK

(* The thread starts over, or goes for a hole in the history.                  *)
LEMMA StartsOver ==
  ASSUME mValidLedger' # None, advance' \in Advances, advance'.pc \in {"idle", "find", "fetch"},
         advance'.pc = "fetch" => advance'.seq > 0 /\ advance'.seq <= Len(mValidLedger')
  PROVE  AdvanceOK'
  BY DEF AdvanceOK, Publishing, Filling

LEMMA FindNewLedgersToPublishIInv ==
  ASSUME IInv, NEW busy \in BOOLEAN, FindNewLedgersToPublish(busy)
  PROVE  IInv'
<1> DEFINE a == [advance EXCEPT !.work = FALSE]
<1>1. /\ UNCHANGED <<byLedger, calls, accepting, held, acquiring, consensus, mValidLedger, fill, db>>
      /\ advance.pc = "find"
      /\ \/ /\ mPubLedger' = mValidLedger
            /\ advance' = [a EXCEPT !.pc = "full", !.list = <<mValidLedger>>]
         \/ mPubLedger' = mPubLedger /\ advance' = lookBack(a, busy)
         \/ /\ mPubLedger' = mPubLedger
            /\ advance' = [a EXCEPT !.pc = "scan", !.list = <<>>, !.seq = Len(mPubLedger) + 1, !.target = mValidLedger]
  BY DEF FindNewLedgersToPublish, inputs, seq, mPubLedgerSeq
<1>2. InputsOK /\ ValidOK /\ AdvanceOK /\ DbOK /\ FillOK
  BY DEF IInv
<1>3. /\ mValidLedger \in Signed /\ mValidLedger # None /\ mValidLedger \in Chain
      /\ mPubLedger \in Chain /\ Len(mPubLedger) \in Nat
  BY <1>1, <1>2, ChainFacts, LedgerFacts DEF ValidOK, AdvanceOK
<1>4. a \in Advances
  BY <1>2 DEF AdvanceOK, Advances
<1> HIDE DEF a
<1>5. AdvanceOK' /\ advance'.pc \notin {"check", "publish", "histcheck", "hist"}
  <2>1. CASE mPubLedger' = mValidLedger /\ advance' = [a EXCEPT !.pc = "full", !.list = <<mValidLedger>>]
    <3>1. <<mValidLedger>> \in Seq(Chain) /\ <<mValidLedger>> # <<>>
      BY <1>3
    <3>2. advance'.pc = "full" /\ advance'.list = <<mPubLedger'>> /\ advance' \in Advances
      BY <1>4, <2>1, <3>1 DEF Advances, Pcs, Publishing
    <3> QED
      BY <1>1, <1>3, <2>1, <3>1, <3>2 DEF AdvanceOK, Publishing, Filling
  <2>2. CASE mPubLedger' = mPubLedger /\ advance' = lookBack(a, busy)
    <3>1. /\ advance' \in Advances /\ advance'.pc \in {"idle", "find", "fetch"}
          /\ advance'.pc = "fetch" => advance'.seq > 0 /\ advance'.seq <= Len(mValidLedger)
      BY <1>2, <1>3, <1>4, <2>2, LookBack
    <3> QED
      BY <1>1, <1>3, <3>1, StartsOver
  <2>3. CASE /\ mPubLedger' = mPubLedger
             /\ advance' = [a EXCEPT !.pc = "scan", !.list = <<>>, !.seq = Len(mPubLedger) + 1, !.target = mValidLedger]
    <3>1. <<>> \in Seq(Chain) /\ Len(mPubLedger) + 1 \in Nat /\ Len(mPubLedger) + 1 > 0 /\ "scan" \in Pcs
      BY <1>3 DEF Pcs
    <3>2. /\ advance'.pc = "scan" /\ advance'.list = <<>> /\ advance'.seq = Len(mPubLedger) + 1
          /\ advance'.target = mValidLedger
      BY <1>4, <2>3 DEF Advances
    <3>3. [a EXCEPT !.pc = "scan", !.seq = Len(mPubLedger) + 1, !.target = mValidLedger] \in Advances
      BY <1>3, <1>4, <3>1 DEF Advances
    <3>4. advance' = [[a EXCEPT !.pc = "scan", !.seq = Len(mPubLedger) + 1, !.target = mValidLedger] EXCEPT !.list = <<>>]
      BY <1>4, <2>3 DEF Advances
    <3>5. advance' \in Advances
      BY <3>1, <3>3, <3>4 DEF Advances
    <3>6. InOrder'
      BY <3>2 DEF InOrder
    <3> QED
      BY <1>1, <1>3, <3>1, <3>2, <3>5, <3>6 DEF AdvanceOK, Publishing, Filling
  <2> QED
    BY <1>1, <2>1, <2>2, <2>3
<1>6. InputsOK'
  BY <1>1, <1>2 DEF InputsOK
<1>7. ValidOK'
  BY <1>1, <1>2, <1>3 DEF ValidOK
<1>8. DbOK' /\ FillOK'
  BY <1>1, <1>2, <1>5, NoHead, DbSame, FillSame
<1> QED
  BY <1>5, <1>6, <1>7, <1>8 DEF IInv

LEMMA ScanIInv ==
  ASSUME IInv, Scan
  PROVE  IInv'
<1> DEFINE s == advance.seq
           l == SubSeq(advance.target, 1, s)
           list == IF (s = Len(advance.target) \/ l \in held) /\ s = Len(mPubLedger) + Len(advance.list) + 1
                     THEN Append(advance.list, l) ELSE advance.list
<1>1. /\ UNCHANGED <<byLedger, calls, accepting, held, consensus, mValidLedger, mPubLedger, fill, db>>
      /\ advance.pc = "scan" /\ s <= Len(advance.target)
      /\ acquiring' = acquiring \/ acquiring' = acquiring \cup {l}
      /\ advance' = [advance EXCEPT !.seq = s + 1, !.list = list]
  BY DEF Scan, inputs, seq, hashOfSeq, follows, mPubLedgerSeq
<1>2. InputsOK /\ ValidOK /\ AdvanceOK /\ DbOK /\ FillOK
  BY DEF IInv
<1>3. /\ advance \in Advances /\ advance.target \in Signed /\ s \in Nat /\ s > 0 /\ InOrder
      /\ advance.list \in Seq(Chain) /\ mValidLedger # None /\ mPubLedger \in Chain
  BY <1>1, <1>2, AdvanceFields DEF AdvanceOK, ValidOK
<1>4. advance.target \in Chain /\ Len(advance.target) \in Nat /\ s \in 1 .. Len(advance.target)
  BY <1>1, <1>3, ChainFacts, LedgerFacts
<1>5. l \in Chain /\ l \in Ledgers /\ Len(l) = s
  BY <1>4, ChainFacts, LedgerFacts, Prefix
<1> HIDE DEF l
<1>6. list \in Seq(Chain) /\ \A i \in 1 .. Len(list) : Len(list[i]) = Len(mPubLedger) + i
  <2>1. CASE list = advance.list
    <3> HIDE DEF list
    <3> QED
      BY <1>3, <2>1 DEF InOrder
  <2>2. CASE s = Len(mPubLedger) + Len(advance.list) + 1 /\ list = Append(advance.list, l)
    <3>1. /\ list \in Seq(Chain) /\ Len(list) = Len(advance.list) + 1
          /\ \A i \in 1 .. Len(advance.list) : list[i] = advance.list[i]
          /\ list[Len(advance.list) + 1] = l
      BY <1>3, <1>5, <2>2
    <3>2. Len(mPubLedger) \in Nat /\ Len(advance.list) \in Nat
      BY <1>3, ChainFacts, LedgerFacts
    <3>3. ASSUME NEW i \in 1 .. Len(list) PROVE Len(list[i]) = Len(mPubLedger) + i
      <4> HIDE DEF list
      <4>1. CASE i \in 1 .. Len(advance.list)
        BY <1>3, <3>1, <4>1 DEF InOrder
      <4>2. CASE i = Len(advance.list) + 1
        <5>1. list[i] = l /\ s = Len(mPubLedger) + i
          BY <2>2, <3>1, <3>2, <4>2
        <5> QED
          BY <1>5, <5>1
      <4> QED
        BY <3>1, <3>2, <4>1, <4>2
    <3> QED
      BY <3>1, <3>3
  <2> QED
    BY <2>1, <2>2
<1> HIDE DEF list
<1>7. /\ advance' \in Advances /\ advance'.pc = "scan" /\ advance'.target = advance.target
      /\ advance'.seq = s + 1 /\ advance'.list = list
  <2> DEFINE n == s + 1
  <2>1. advance' = [advance EXCEPT !.seq = n, !.list = list] /\ n \in Nat
    BY <1>1, <1>3
  <2> HIDE DEF n
  <2>2. /\ advance'.pc = "scan" /\ advance'.target = advance.target
        /\ advance'.seq = n /\ advance'.list = list
    BY <1>1, <1>3, <2>1 DEF Advances
  <2>3. advance' \in Advances
    BY <1>3, <1>6, <2>1 DEF Advances
  <2> QED
    BY <2>2, <2>3 DEF n
<1>8. InOrder'
  BY <1>1, <1>6, <1>7 DEF InOrder
<1>9. AdvanceOK'
  <2>1. advance'.target # None /\ advance'.seq > 0
    BY <1>2, <1>1, <1>3, <1>7 DEF AdvanceOK
  <2> QED
    BY <1>1, <1>3, <1>7, <1>8, <2>1 DEF AdvanceOK, Publishing, Filling
<1>10. InputsOK'
  BY <1>1, <1>2, <1>5 DEF InputsOK
<1>11. ValidOK'
  BY <1>1, <1>2 DEF ValidOK
<1>12. DbOK' /\ FillOK'
  BY <1>1, <1>2, <1>7, NoHead, DbSame, FillSame
<1> QED
  BY <1>9, <1>10, <1>11, <1>12 DEF IInv

LEMMA ScannedIInv ==
  ASSUME IInv, NEW busy \in BOOLEAN, Scanned(busy)
  PROVE  IInv'
<1>1. /\ UNCHANGED <<byLedger, calls, accepting, held, acquiring, consensus, mValidLedger, mPubLedger, fill, db>>
      /\ advance.pc = "scan"
      /\ \/ advance' = lookBack(advance, busy)
         \/ advance.list # <<>> /\ advance' = [advance EXCEPT !.pc = "full", !.seq = 0, !.target = None]
  BY DEF Scanned, inputs
<1>2. InputsOK /\ ValidOK /\ AdvanceOK /\ DbOK /\ FillOK
  BY DEF IInv
<1>3. advance \in Advances /\ mValidLedger # None /\ InOrder
  BY <1>1, <1>2 DEF AdvanceOK
<1>4. AdvanceOK' /\ advance'.pc \notin {"check", "publish", "histcheck", "hist"}
  <2>1. CASE advance' = lookBack(advance, busy)
    <3>1. /\ advance' \in Advances /\ advance'.pc \in {"idle", "find", "fetch"}
          /\ advance'.pc = "fetch" => advance'.seq > 0 /\ advance'.seq <= Len(mValidLedger)
      BY <1>2, <1>3, <2>1, LookBack
    <3> QED
      BY <1>1, <1>3, <3>1, StartsOver
  <2>2. CASE advance.list # <<>> /\ advance' = [advance EXCEPT !.pc = "full", !.seq = 0, !.target = None]
    <3>1. advance'.pc = "full" /\ advance'.list = advance.list
      BY <1>3, <2>2 DEF Advances
    <3>2. advance' \in Advances
      BY <1>3, <2>2 DEF Advances, Pcs, Publishing
    <3>3. InOrder'
      BY <1>1, <1>3, <3>1 DEF InOrder
    <3> QED
      BY <1>1, <1>3, <2>2, <3>1, <3>2, <3>3 DEF AdvanceOK, Publishing, Filling
  <2> QED
    BY <1>1, <2>1, <2>2
<1>5. InputsOK' /\ ValidOK'
  BY <1>1, <1>2 DEF InputsOK, ValidOK
<1>6. DbOK' /\ FillOK'
  BY <1>1, <1>2, <1>4, NoHead, DbSame, FillSame
<1> QED
  BY <1>4, <1>5, <1>6 DEF IInv

(* The ledger at the head of a list that is not empty.                         *)
LEMMA HeadOfList ==
  ASSUME AdvanceOK, advance.pc \in Publishing \cup Filling
  PROVE  /\ advance.list \in Seq(Chain) /\ advance.list # <<>>
         /\ Head(advance.list) \in Chain /\ Len(Head(advance.list)) \in Nat /\ Len(Head(advance.list)) > 0
<1>1. advance.list \in Seq(Chain) /\ advance.list # <<>>
  BY AdvanceFields DEF AdvanceOK
<1>2. Head(advance.list) \in Chain
  BY <1>1
<1> QED
  BY <1>1, <1>2, ChainFacts, LedgerFacts

(* The thread goes on with the same ledger.                                    *)
LEMMA SameList ==
  ASSUME AdvanceOK, UNCHANGED <<mValidLedger, mPubLedger>>, NEW q, advance' = [advance EXCEPT !.pc = q],
         (advance.pc \in Publishing /\ q \in Publishing) \/ (advance.pc \in Filling /\ q \in Filling)
  PROVE  AdvanceOK' /\ advance'.list = advance.list /\ advance'.pc = q
<1>1. advance \in Advances /\ q \in Pcs
  BY DEF AdvanceOK, Pcs
<1>2. advance' \in Advances /\ advance'.list = advance.list /\ advance'.pc = q
  BY <1>1 DEF Advances
<1>3. InOrder' <=> InOrder
  BY <1>2 DEF InOrder
<1> QED
  BY <1>2, <1>3 DEF AdvanceOK, Publishing, Filling

LEMMA SetFullLedgerIInv ==
  ASSUME IInv, NEW ok \in BOOLEAN, SetFullLedger(ok)
  PROVE  IInv'
<1> DEFINE l == Head(advance.list)
           sync == advance.pc = "full"
           q == IF advance.pc = "full" THEN "check" ELSE "histcheck"
<1>1. /\ UNCHANGED <<byLedger, calls, accepting, held, consensus, mValidLedger, mPubLedger, fill>>
      /\ advance.pc \in {"full", "histfull"} /\ db' = makeFull(db, l, sync, ok)
      /\ acquiring' = reacquired(db') /\ advance' = [advance EXCEPT !.pc = q]
  BY DEF SetFullLedger, inputs
<1>2. InputsOK /\ ValidOK /\ AdvanceOK /\ DbOK /\ FillOK
  BY DEF IInv
<1>3. l \in Chain /\ Promised(db)
  BY <1>1, <1>2, HeadOfList DEF DbOK, Publishing, Filling
<1>4. Promised(db') /\ Keeps(db, db') /\ SavedIn(db', Len(l))
  <2>1. sync \in BOOLEAN
    OBVIOUS
  <2> HIDE DEF l, sync
  <2> QED
    BY <1>1, <1>3, <2>1, FullKeeps
<1>5. AdvanceOK' /\ advance'.list = advance.list
  <2>1. (advance.pc \in Publishing /\ q \in Publishing) \/ (advance.pc \in Filling /\ q \in Filling)
    BY <1>1 DEF Publishing, Filling
  <2> HIDE DEF q
  <2> QED
    BY <1>1, <1>2, <2>1, SameList
<1>6. InputsOK'
  <2>1. acquiring' \in SUBSET Ledgers
    BY <1>1, <1>2, <1>4, Reacquired DEF Promised
  <2> QED
    BY <1>1, <1>2, <2>1 DEF InputsOK
<1>7. ValidOK'
  BY <1>1, <1>2 DEF ValidOK
<1>8. DbOK' /\ FillOK'
  BY <1>1, <1>2, <1>4, <1>5, FillSame DEF DbOK
<1> QED
  BY <1>5, <1>6, <1>7, <1>8 DEF IInv

LEMMA CheckPriorIInv ==
  ASSUME IInv, CheckPrior
  PROVE  IInv'
<1> DEFINE q == IF advance.pc = "check" THEN "publish" ELSE "hist"
<1>1. /\ UNCHANGED <<byLedger, calls, accepting, held, acquiring, consensus, mValidLedger, mPubLedger, fill>>
      /\ advance.pc \in {"check", "histcheck"} /\ db' = checkPrior(db, Head(advance.list))
      /\ advance' = [advance EXCEPT !.pc = q]
  BY DEF CheckPrior, inputs
<1>2. InputsOK /\ ValidOK /\ AdvanceOK /\ DbOK /\ FillOK
  BY DEF IInv
<1>3. Promised(db') /\ Keeps(db, db')
  BY <1>1, <1>2, PriorKeeps DEF DbOK
<1>4. AdvanceOK' /\ advance'.list = advance.list
  <2>1. (advance.pc \in Publishing /\ q \in Publishing) \/ (advance.pc \in Filling /\ q \in Filling)
    BY <1>1 DEF Publishing, Filling
  <2> HIDE DEF q
  <2> QED
    BY <1>1, <1>2, <2>1, SameList
<1>5. SavedIn(db', Len(Head(advance.list)))
  <2>1. Len(Head(advance.list)) \in Nat
    BY <1>1, <1>2, HeadOfList DEF Publishing, Filling
  <2> QED
    BY <1>1, <1>2, <1>3, <2>1 DEF DbOK, Keeps
<1>6. InputsOK' /\ ValidOK'
  BY <1>1, <1>2 DEF InputsOK, ValidOK
<1>7. DbOK' /\ FillOK'
  BY <1>1, <1>2, <1>3, <1>4, <1>5, FillSame DEF DbOK
<1> QED
  BY <1>4, <1>6, <1>7 DEF IInv

LEMMA PublishIInv ==
  ASSUME IInv, Publish
  PROVE  IInv'
<1> DEFINE r == [advance EXCEPT !.list = Tail(@)]
<1>1. /\ UNCHANGED <<byLedger, calls, accepting, held, acquiring, consensus, mValidLedger, fill, db>>
      /\ advance.pc = "publish" /\ mPubLedger' = Head(advance.list)
      /\ \/ r.list = <<>> /\ advance' = again(r, TRUE)
         \/ r.list # <<>> /\ advance' = [r EXCEPT !.pc = "full"]
  BY DEF Publish, inputs
<1>2. InputsOK /\ ValidOK /\ AdvanceOK /\ DbOK /\ FillOK
  BY DEF IInv
<1>3. /\ advance.list \in Seq(Chain) /\ advance.list # <<>>
      /\ Head(advance.list) \in Chain /\ Len(Head(advance.list)) \in Nat /\ Len(Head(advance.list)) > 0
      /\ advance \in Advances /\ mValidLedger # None
  BY <1>1, <1>2, HeadOfList DEF AdvanceOK, Publishing
<1>4. /\ Tail(advance.list) \in Seq(Chain) /\ Len(Tail(advance.list)) = Len(advance.list) - 1
      /\ \A i \in 1 .. Len(Tail(advance.list)) : Tail(advance.list)[i] = advance.list[i + 1]
      /\ Head(advance.list) = advance.list[1] /\ Len(advance.list) \in Nat /\ Len(advance.list) > 0
  BY <1>3
<1>5. r \in Advances /\ r.list = Tail(advance.list)
  BY <1>3, <1>4 DEF Advances
<1> HIDE DEF r
<1>6. AdvanceOK' /\ advance'.pc \notin {"check", "publish", "histcheck", "hist"}
  <2>1. CASE advance' = again(r, TRUE)
    <3>1. advance' \in Advances /\ advance'.pc \in {"idle", "find"}
      BY <1>5, <2>1, Again
    <3> QED
      BY <1>1, <1>3, <3>1, StartsOver
  <2>2. CASE r.list # <<>> /\ advance' = [r EXCEPT !.pc = "full"]
    <3>1. advance'.list = Tail(advance.list) /\ advance'.pc = "full" /\ advance' \in Advances
      BY <1>5, <2>2 DEF Advances, Pcs, Publishing
    <3>2. Len(advance.list) # 1
      BY <1>4, <1>5, <2>2
    <3>3. InOrder
      <4>1. Len(<<mPubLedger>>) = 1
        OBVIOUS
      <4>2. advance.list = <<mPubLedger>> \/ InOrder
        BY <1>1, <1>2 DEF AdvanceOK, Publishing
      <4> QED
        BY <3>2, <4>1, <4>2
    <3>4. ASSUME NEW i \in 1 .. Len(Tail(advance.list))
          PROVE  Len(Tail(advance.list)[i]) = Len(mPubLedger') + i
      <4>1. i + 1 \in 1 .. Len(advance.list) /\ 1 \in 1 .. Len(advance.list) /\ i \in Nat
        BY <1>4
      <4>2. Len(advance.list[i + 1]) = Len(mPubLedger) + (i + 1) /\ Len(advance.list[1]) = Len(mPubLedger) + 1
        BY <3>3, <4>1 DEF InOrder
      <4>3. Len(mPubLedger) \in Nat
        BY <1>2, ChainFacts, LedgerFacts DEF ValidOK
      <4>4. Len(mPubLedger') = Len(mPubLedger) + 1
        BY <1>1, <1>4, <4>2
      <4>5. Len(Tail(advance.list)[i]) = Len(mPubLedger) + (i + 1)
        BY <1>4, <4>2
      <4> QED
        BY <4>1, <4>3, <4>4, <4>5
    <3>5. InOrder'
      BY <3>1, <3>4 DEF InOrder
    <3> QED
      BY <1>1, <1>3, <1>5, <2>2, <3>1, <3>5 DEF AdvanceOK, Publishing, Filling
  <2> QED
    BY <1>1, <2>1, <2>2
<1>7. InputsOK' /\ ValidOK'
  BY <1>1, <1>2, <1>3, LedgerFacts DEF InputsOK, ValidOK
<1>8. DbOK' /\ FillOK'
  BY <1>1, <1>2, <1>6, NoHead, DbSame, FillSame
<1> QED
  BY <1>6, <1>7, <1>8 DEF IInv

LEMMA FetchForHistoryIInv ==
  ASSUME IInv, FetchForHistory
  PROVE  IInv'
<1> DEFINE s == advance.seq
           from == IF Len(advance.hist) >= s THEN advance.hist ELSE mValidLedger
           l == SubSeq(from, 1, s)
           wants == {SubSeq(from, 1, i) : i \in 1 .. s} \ held
<1>1. /\ UNCHANGED <<byLedger, calls, accepting, held, consensus, mValidLedger, mPubLedger, fill, db>>
      /\ advance.pc = "fetch"
      /\ \/ advance' = [advance EXCEPT !.pc = "histfull", !.seq = 0, !.list = <<l>>] /\ acquiring' = acquiring
         \/ advance' = [advance EXCEPT !.pc = "fetched"] /\ acquiring' = acquiring \cup wants
  BY DEF FetchForHistory, inputs, seq, hashOfSeq
<1>2. InputsOK /\ ValidOK /\ AdvanceOK /\ DbOK /\ FillOK
  BY DEF IInv
<1>3. /\ advance \in Advances /\ mValidLedger # None /\ mValidLedger \in Chain
      /\ s \in Nat /\ s > 0 /\ s <= Len(mValidLedger) /\ advance.hist \in Chain \cup {None}
  BY <1>1, <1>2, AdvanceFields, ChainFacts DEF AdvanceOK, ValidOK
<1>4. from \in Chain /\ s <= Len(from) /\ Len(from) \in Nat
  BY <1>3, ChainFacts, LedgerFacts
<1> HIDE DEF from
<1>5. l \in Chain /\ l \in Ledgers
  BY <1>3, <1>4, ChainFacts
<1>6. ASSUME NEW i \in 1 .. s PROVE SubSeq(from, 1, i) \in Ledgers
  <2>1. i \in 1 .. Len(from)
    BY <1>3, <1>4
  <2> QED
    BY <1>4, <2>1, ChainFacts
<1>7. wants \subseteq Ledgers
  BY <1>6
<1> HIDE DEF l, wants
<1>8. AdvanceOK' /\ advance'.pc \notin {"check", "publish", "histcheck", "hist"}
  <2>1. CASE advance' = [advance EXCEPT !.pc = "histfull", !.seq = 0, !.list = <<l>>]
    <3>1. <<l>> \in Seq(Chain) /\ <<l>> # <<>>
      BY <1>5
    <3>2. advance'.pc = "histfull" /\ advance'.list = <<l>> /\ advance' \in Advances
      BY <1>3, <2>1, <3>1 DEF Advances, Pcs, Filling
    <3> QED
      BY <1>1, <1>3, <3>1, <3>2 DEF AdvanceOK, Publishing, Filling
  <2>2. CASE advance' = [advance EXCEPT !.pc = "fetched"]
    <3>1. advance'.pc = "fetched" /\ advance'.seq = s /\ advance' \in Advances
      BY <1>3, <2>2 DEF Advances, Pcs
    <3> QED
      BY <1>1, <1>3, <3>1 DEF AdvanceOK, Publishing, Filling
  <2> QED
    BY <1>1, <2>1, <2>2
<1>9. InputsOK'
  <2>1. acquiring' \in SUBSET Ledgers
    BY <1>1, <1>2, <1>7 DEF InputsOK
  <2> QED
    BY <1>1, <1>2, <2>1 DEF InputsOK
<1>10. ValidOK'
  BY <1>1, <1>2 DEF ValidOK
<1>11. DbOK' /\ FillOK'
  BY <1>1, <1>2, <1>8, NoHead, DbSame, FillSame
<1> QED
  BY <1>8, <1>9, <1>10, <1>11 DEF IInv

LEMMA HistoryFetchedIInv ==
  ASSUME IInv, HistoryFetched
  PROVE  IInv'
<1> DEFINE l == Head(advance.list)
           a == [advance EXCEPT !.hist = l]
<1>1. /\ UNCHANGED <<byLedger, calls, accepting, held, acquiring, consensus, mValidLedger, mPubLedger, db>>
      /\ advance.pc = "hist" /\ advance' = again(a, TRUE)
      /\ fill' = fill \/ fill' = [seq |-> Len(l), ledger |-> l, hashes |-> None]
  BY DEF HistoryFetched, inputs, seq
<1>2. InputsOK /\ ValidOK /\ AdvanceOK /\ DbOK /\ FillOK
  BY DEF IInv
<1>3. /\ l \in Chain /\ Len(l) \in Nat /\ Len(l) > 0 /\ advance \in Advances /\ mValidLedger # None
      /\ SavedIn(db, Len(l))
  BY <1>1, <1>2, HeadOfList DEF AdvanceOK, DbOK, Filling
<1> HIDE DEF l
<1>4. a \in Advances
  BY <1>3 DEF Advances
<1> HIDE DEF a
<1>5. advance' \in Advances /\ advance'.pc \in {"idle", "find"}
  BY <1>1, <1>4, Again
<1>6. AdvanceOK'
  BY <1>1, <1>3, <1>5, StartsOver
<1>7. FillOK'
  <2>1. CASE fill' = fill
    BY <1>1, <1>2, <2>1, DbSame, FillSame
  <2>2. CASE fill' = [seq |-> Len(l), ledger |-> l, hashes |-> None]
    <3>1. l # None
      BY <1>3, ChainFacts, LedgerFacts
    <3> QED
      BY <1>1, <1>3, <2>2, <3>1 DEF FillOK
  <2> QED
    BY <1>1, <2>1, <2>2
<1>8. InputsOK' /\ ValidOK'
  BY <1>1, <1>2 DEF InputsOK, ValidOK
<1>9. DbOK'
  BY <1>1, <1>2, <1>5, NoHead
<1> QED
  BY <1>6, <1>7, <1>8, <1>9 DEF IInv

LEMMA NotFetchedIInv ==
  ASSUME IInv, NotFetched
  PROVE  IInv'
<1> DEFINE p == mValidLedgerSeq # mPubLedgerSeq
<1>1. /\ UNCHANGED <<byLedger, calls, accepting, held, acquiring, consensus, mValidLedger, mPubLedger, fill, db>>
      /\ advance.pc = "fetched" /\ advance' = again(advance, p)
  BY DEF NotFetched, inputs
<1>2. InputsOK /\ ValidOK /\ AdvanceOK /\ DbOK /\ FillOK
  BY DEF IInv
<1>3. advance \in Advances /\ mValidLedger # None
  BY <1>1, <1>2 DEF AdvanceOK
<1>4. p \in BOOLEAN
  OBVIOUS
<1> HIDE DEF p
<1>5. advance' \in Advances /\ advance'.pc \in {"idle", "find"}
  BY <1>1, <1>3, <1>4, Again
<1>6. AdvanceOK'
  BY <1>1, <1>3, <1>5, StartsOver
<1>7. InputsOK' /\ ValidOK'
  BY <1>1, <1>2 DEF InputsOK, ValidOK
<1>8. DbOK' /\ FillOK'
  BY <1>1, <1>2, <1>5, NoHead, DbSame, FillSame
<1> QED
  BY <1>6, <1>7, <1>8 DEF IInv

LEMMA FillReadIInv ==
  ASSUME IInv, FillRead
  PROVE  IInv'
<1> DEFINE C == db.complete \cup {fill.seq}
<1>1. /\ UNCHANGED <<byLedger, calls, accepting, held, acquiring, consensus, mValidLedger, mPubLedger, advance>>
      /\ fill.seq > 0 /\ fill' = [fill EXCEPT !.hashes = db.rows] /\ db' = [db EXCEPT !.complete = C]
  BY DEF FillRead, inputs
<1>2. InputsOK /\ ValidOK /\ AdvanceOK /\ DbOK /\ FillOK
  BY DEF IInv
<1>3. /\ Promised(db) /\ db \in Databases /\ db.rows \in Tables /\ db.complete \in SUBSET Nat
      /\ fill.seq \in Nat /\ SavedIn(db, fill.seq)
  BY <1>1, <1>2 DEF DbOK, Promised, Databases, FillOK
<1>4. C \in SUBSET Nat /\ \A s \in C : SavedIn(db, s)
  BY <1>3 DEF Promised
<1> HIDE DEF C
<1>5. Promised(db') /\ Keeps(db, db') /\ \A s : SavedIn(db', s) <=> SavedIn(db, s)
  BY <1>1, <1>3, <1>4, CompleteKeeps
<1>6. DbOK'
  BY <1>1, <1>2, <1>5, QuietDb
<1>7. FillOK'
  <2>1. /\ fill' \in [seq : Nat, ledger : Chain \cup {None}, hashes : Tables \cup {None}]
        /\ fill'.seq = fill.seq /\ fill'.ledger = fill.ledger /\ fill'.hashes = db.rows
    BY <1>1, <1>2, <1>3 DEF FillOK
  <2>2. \A s \in DOMAIN Rows : OnChain(fill'.hashes, s) => OnChain(db'.rows, s)
    BY <1>5, <2>1 DEF Keeps
  <2> QED
    BY <1>2, <1>5, <2>1, <2>2 DEF FillOK
<1>8. InputsOK' /\ ValidOK'
  BY <1>1, <1>2 DEF InputsOK, ValidOK
<1>9. AdvanceOK'
  BY <1>1, <1>2 DEF AdvanceOK, InOrder
<1> QED
  BY <1>6, <1>7, <1>8, <1>9 DEF IInv

LEMMA TryFillIInv ==
  ASSUME IInv, TryFill
  PROVE  IInv'
<1> DEFINE run == {s \in 1 .. (fill.seq - 1) : \A t \in s .. (fill.seq - 1) : t \notin db.complete /\ linked(t)}
           C == (db.complete \cup run) \cup {fill.seq}
<1>1. /\ UNCHANGED <<byLedger, calls, accepting, held, acquiring, consensus, mValidLedger, mPubLedger>>
      /\ fill.seq > 0 /\ fill.hashes # None /\ fill' = [seq |-> 0, ledger |-> None, hashes |-> None]
      /\ db' = [db EXCEPT !.complete = C] /\ advance' = tryAdvance(advance, mValidLedger')
  BY DEF TryFill, inputs
<1>2. InputsOK /\ ValidOK /\ AdvanceOK /\ DbOK /\ FillOK
  BY DEF IInv
<1>3. /\ Promised(db) /\ db \in Databases /\ db.complete \in SUBSET Nat
      /\ fill.seq \in Nat /\ SavedIn(db, fill.seq) /\ fill.ledger \in Chain /\ fill.seq = Len(fill.ledger)
      /\ \A s \in DOMAIN Rows : OnChain(fill.hashes, s) => OnChain(db.rows, s)
  BY <1>1, <1>2 DEF DbOK, Promised, Databases, FillOK
<1>4. ASSUME NEW s \in run PROVE s \in Nat /\ SavedIn(db, s)
  <2>1. s \in 1 .. (fill.seq - 1) /\ linked(s)
    BY <1>3
  <2>2. s \in 1 .. Len(fill.ledger) /\ s \in Nat
    BY <1>3, <2>1
  <2>3. fill.hashes[s] = SubSeq(fill.ledger, 1, s)
    BY <2>1 DEF linked, hashOfSeq
  <2>4. fill.hashes[s] \in Chain /\ Len(fill.hashes[s]) = s
    BY <1>3, <2>2, <2>3, ChainFacts, LedgerFacts, Prefix
  <2>5. s \in DOMAIN Rows
    BY <2>4, ChainFacts, LedgerFacts
  <2> QED
    BY <1>3, <2>2, <2>4, <2>5 DEF OnChain, SavedIn
<1> HIDE DEF run
<1>5. C \in SUBSET Nat /\ \A s \in C : SavedIn(db, s)
  BY <1>3, <1>4 DEF Promised
<1> HIDE DEF C
<1>6. Promised(db') /\ Keeps(db, db')
  BY <1>1, <1>3, <1>5, CompleteKeeps
<1>7. /\ AdvanceOK' /\ advance'.list = advance.list
      /\ advance'.pc = advance.pc \/ (advance.pc = "idle" /\ advance'.pc = "find")
  <2>1. mValidLedger' \in Signed \cup {None}
    BY <1>1, <1>2 DEF ValidOK
  <2> QED
    BY <1>1, <1>2, <2>1, QuietAdvance
<1>8. DbOK'
  BY <1>2, <1>6, <1>7, QuietDb
<1>9. FillOK'
  BY <1>1 DEF FillOK
<1>10. InputsOK' /\ ValidOK'
  BY <1>1, <1>2 DEF InputsOK, ValidOK
<1> QED
  BY <1>7, <1>8, <1>9, <1>10 DEF IInv

--------------------------------------------------------------------------------
(* The invariant.                                                              *)

LEMMA InitIInv ==
  ASSUME Init PROVE IInv
<1>1. InputsOK
  <2>1. held \in SUBSET Ledgers
    BY LedgersAssumption DEF Init
  <2>2. consensus \in RoundStates
    BY DEF Init, RoundStates
  <2> QED
    BY <2>1, <2>2 DEF Init, InputsOK
<1>2. ValidOK
  BY DEF Init, ValidOK
<1>3. AdvanceOK
  <2>1. <<>> \in Seq(Chain)
    OBVIOUS
  <2>2. advance.pc = "idle" /\ advance \in Advances
    BY <2>1 DEF Init, Advances, Pcs
  <2> QED
    BY <2>2 DEF AdvanceOK, Publishing, Filling
<1>4. DbOK
  <2>1. Rows \in Tables
    BY RowsAssumption DEF Tables, None
  <2>2. /\ db \in Databases /\ db.flags = {} /\ db.complete = {} /\ advance.pc = "idle"
    BY <2>1 DEF Init, Databases
  <2> QED
    BY <2>2 DEF DbOK, Promised
<1>5. FillOK
  BY DEF Init, FillOK
<1> QED
  BY <1>1, <1>2, <1>3, <1>4, <1>5 DEF IInv

LEMMA NextIInv ==
  ASSUME IInv, [Next]_vars PROVE IInv'
<1>1. \A ok \in Outcomes : ok \in BOOLEAN
  BY DEF Outcomes
<1>2. CASE \E v \in Validators, l \in Signed : HandleValidation(v, l)
  BY <1>2, HandleValidationIInv
<1>3. CASE \E l \in held : CloseLedger(l)
  BY <1>3, CloseLedgerIInv
<1>4. CASE Arrive
  BY <1>4, AcquiredIInv DEF Arrive
<1>5. CASE ConsensusThread
  BY <1>5, ConsensusBuiltIInv, RecheckIInv, SwitchLCLIInv DEF ConsensusThread
<1>6. CASE Jobs
  <2>1. CASE \E l \in calls : CheckAcceptHash(l)
    BY <2>1, CheckAcceptHashIInv
  <2>2. CASE \E c \in accepting, ok \in Outcomes : CheckAccept(c, ok)
    BY <1>1, <2>2, CheckAcceptIInv
  <2>3. CASE \E l \in db.jobs, ok \in Outcomes : SaveJob(l, ok)
    BY <1>1, <2>3, SaveJobIInv
  <2> QED
    BY <1>6, <2>1, <2>2, <2>3, FillReadIInv, TryFillIInv DEF Jobs
<1>7. CASE AdvanceThread
  <2>1. CASE \E busy \in BOOLEAN : FindNewLedgersToPublish(busy) \/ Scanned(busy)
    BY <2>1, FindNewLedgersToPublishIInv, ScannedIInv
  <2>2. CASE \E ok \in Outcomes : SetFullLedger(ok)
    BY <1>1, <2>2, SetFullLedgerIInv
  <2> QED
    BY <1>7, <2>1, <2>2, ScanIInv, CheckPriorIInv, PublishIInv, FetchForHistoryIInv, HistoryFetchedIInv,
       NotFetchedIInv DEF AdvanceThread
<1>8. CASE UNCHANGED vars
  <2>1. UNCHANGED <<byLedger, calls, accepting, held, acquiring, consensus, mValidLedger, mPubLedger, advance, fill, db>>
    BY <1>8 DEF vars
  <2>2. InputsOK'
    BY <2>1 DEF IInv, InputsOK
  <2> QED
    BY <2>1, <2>2, QuietIInv
<1> QED
  BY <1>2, <1>3, <1>4, <1>5, <1>6, <1>7, <1>8 DEF Next

LEMMA IInvAlways == Spec => []IInv
  BY InitIInv, NextIInv, PTL DEF Spec

--------------------------------------------------------------------------------
(* The theorems.                                                               *)

(* ValidatedMovesForward: the validated ledger only moves to a higher sequence,*)
(* because checkAccept compares the sequences again under m_mutex.             *)
THEOREM ValidatedAlwaysForward == Spec => ValidatedMovesForward
<1>1. ASSUME IInv, [Next]_vars, mValidLedger' # mValidLedger PROVE seq(mValidLedger') > seq(mValidLedger)
  <2>1. CASE \E c \in accepting, ok \in Outcomes : CheckAccept(c, ok)
    <3>1. PICK c \in accepting, ok \in Outcomes : CheckAccept(c, ok)
      BY <2>1
    <3> QED
      BY <1>1, <3>1 DEF CheckAccept, acceptable, mValidLedgerSeq
  <2>2. CASE ~ \E c \in accepting, ok \in Outcomes : CheckAccept(c, ok)
    <3>1. UNCHANGED mValidLedger
      BY <1>1, <2>2 DEF Next, vars, Arrive, ConsensusThread, Jobs, AdvanceThread, HandleValidation, CloseLedger,
         Acquired, ConsensusBuilt, Recheck, SwitchLCL, CheckAcceptHash, SaveJob, FillRead, TryFill,
         FindNewLedgersToPublish, Scanned, SetFullLedger, Scan, CheckPrior, Publish, FetchForHistory,
         HistoryFetched, NotFetched
    <3> QED
      BY <1>1, <3>1
  <2> QED
    BY <2>1, <2>2
<1>2. IInv /\ [Next]_vars => [seq(mValidLedger') > seq(mValidLedger)]_mValidLedger
  BY <1>1
<1> QED
  BY <1>2, IInvAlways, PTL DEF Spec, ValidatedMovesForward

(* PublishedInOrder: after the first ledger the stream has no hole and no      *)
(* repetition except for a jump over more than MAX_LEDGER_GAP, whatever is     *)
(* validated while findNewLedgersToPublish and setFullLedger run without       *)
(* m_mutex.                                                                    *)
THEOREM PublishedAlwaysInOrder == Spec => PublishedInOrder
<1> DEFINE Next1 == \/ mPubLedger = None
                    \/ seq(mPubLedger') = seq(mPubLedger) + 1
                    \/ seq(mPubLedger') > seq(mPubLedger) + MAX_LEDGER_GAP
<1>1. ASSUME IInv, [Next]_vars, mPubLedger' # mPubLedger PROVE Next1
  <2>1. CASE \E c \in accepting, ok \in Outcomes : CheckAccept(c, ok)
    BY <1>1, <2>1 DEF CheckAccept
  <2>2. CASE \E busy \in BOOLEAN : FindNewLedgersToPublish(busy)
    BY <1>1, <2>2 DEF FindNewLedgersToPublish, mValidLedgerSeq, mPubLedgerSeq
  <2>3. CASE Publish
    <3>1. advance.pc = "publish" /\ mPubLedger' = Head(advance.list) /\ AdvanceOK
      BY <1>1, <2>3 DEF Publish, IInv
    <3>2. advance.list = <<mPubLedger>> \/ InOrder
      BY <3>1 DEF AdvanceOK, Publishing
    <3>3. advance.list # <<mPubLedger>>
      BY <1>1, <3>1
    <3>4. advance.list \in Seq(Chain) /\ advance.list # <<>>
      BY <3>1, HeadOfList DEF Publishing
    <3>5. 1 \in 1 .. Len(advance.list) /\ Head(advance.list) = advance.list[1]
      BY <3>4
    <3>6. Len(advance.list[1]) = Len(mPubLedger) + 1
      BY <3>2, <3>3, <3>5 DEF InOrder
    <3> QED
      BY <3>1, <3>5, <3>6 DEF seq
  <2>4. CASE /\ ~ \E c \in accepting, ok \in Outcomes : CheckAccept(c, ok)
             /\ ~ \E busy \in BOOLEAN : FindNewLedgersToPublish(busy)
             /\ ~Publish
    <3>1. UNCHANGED mPubLedger
      BY <1>1, <2>4 DEF Next, vars, Arrive, ConsensusThread, Jobs, AdvanceThread, HandleValidation, CloseLedger,
         Acquired, ConsensusBuilt, Recheck, SwitchLCL, CheckAcceptHash, SaveJob, FillRead, TryFill,
         Scanned, SetFullLedger, Scan, CheckPrior, FetchForHistory, HistoryFetched, NotFetched
    <3> QED
      BY <1>1, <3>1
  <2> QED
    BY <2>1, <2>2, <2>3, <2>4
<1>2. IInv /\ [Next]_vars => [Next1]_mPubLedger
  BY <1>1
<1> QED
  BY <1>2, IInvAlways, PTL DEF Spec, PublishedInOrder

(* CompleteIsSaved: a sequence the server reports as complete has a row in the *)
(* Ledgers table or is about to, unless the save of a ledger of this sequence  *)
(* failed.                                                                     *)
THEOREM CompleteAlwaysSaved == Spec => []CompleteIsSaved
<1>1. ASSUME IInv PROVE CompleteIsSaved
  <2>1. SUFFICES ASSUME NEW s \in db.complete PROVE db.rows[s] # None \/ s \in db.pending \/ saveFailed(s)
    BY DEF CompleteIsSaved
  <2>2. SavedIn(db, s)
    BY <1>1 DEF IInv, DbOK, Promised
  <2>3. None \notin Chain
    BY ChainFacts, LedgerFacts
  <2> QED
    BY <2>2, <2>3 DEF SavedIn, OnChain, saveFailed, seq
<1> QED
  BY <1>1, IInvAlways, PTL

(* HistoryIsLinked: when the validators sign one branch only, the rows of two  *)
(* successive complete sequences are parent and child, whatever the table held *)
(* when the server started and however saves, tryFill and the advance thread   *)
(* interleave.                                                                 *)
THEOREM HistoryAlwaysLinked == ASSUME OneBranch PROVE Spec => []HistoryIsLinked
<1>1. ASSUME IInv PROVE HistoryIsLinked
  <2>1. SUFFICES ASSUME NEW s \in db.complete, s - 1 \in db.complete,
                        \A t \in {s - 1, s} : t \notin db.pending /\ ~saveFailed(t) /\ db.rows[t] # None
                 PROVE  db.rows[s - 1] = parent(db.rows[s])
    BY DEF HistoryIsLinked
  <2>2. SavedIn(db, s) /\ SavedIn(db, s - 1) /\ s \in Nat /\ s - 1 \in Nat
    BY <1>1, <2>1 DEF IInv, DbOK, Promised, Databases
  <2>3. OnChain(db.rows, s) /\ OnChain(db.rows, s - 1)
    BY <2>1, <2>2 DEF SavedIn, saveFailed, seq
  <2>4. /\ db.rows[s] \in Chain /\ Len(db.rows[s]) = s
        /\ db.rows[s - 1] \in Chain /\ Len(db.rows[s - 1]) = s - 1
    BY <2>3 DEF OnChain
  <2>5. s - 1 > 0 /\ db.rows[s] \in Seq(Nat)
    BY <2>4, ChainFacts, LedgerFacts
  <2>6. s - 1 \in 1 .. Len(db.rows[s])
    BY <2>2, <2>4, <2>5
  <2>7. parent(db.rows[s]) = SubSeq(db.rows[s], 1, s - 1)
    BY <2>4 DEF parent
  <2>8. parent(db.rows[s]) \in Chain /\ Len(parent(db.rows[s])) = s - 1
    BY <2>4, <2>5, <2>6, <2>7, ChainFacts, Prefix
  <2> QED
    BY <2>4, <2>8, OneLedger
<1> QED
  BY <1>1, IInvAlways, PTL
================================================================================
