-------------------------- MODULE LedgerNetwork_proofs --------------------------
(* Proof that the network of LedgerNetwork implements LedgerAgreement, and that *)
(* servers with one list therefore agree, for every number of servers,          *)
(* validators and ledgers, every set of lists and any number of restarts.       *)
(*                                                                              *)
(* NoDoubleSigning is not inductive: it takes Remembered, that the enforcer or  *)
(* the table covers everything a validator signed until it forgets.  Counted    *)
(* keeps the quorum behind each acceptance, which outlives the validations a    *)
(* server holds.                                                                *)
EXTENDS LedgerNetwork, FiniteSetTheorems, TLAPS

Types ==
  /\ signed \subseteq Validators \X Ledgers
  /\ largest \in [Validators -> Nat]
  /\ maxDisallowed \in [Servers -> Nat] /\ saved \in [Servers -> Nat]
  /\ forgot \subseteq Validators
  /\ trusted \in [Servers -> Lists] /\ used \in [Servers -> SUBSET Lists]
  /\ trustChanges \in [Servers -> [added : SUBSET Validators, removed : SUBSET Validators]]
  /\ seen \in [Servers -> SUBSET (Validators \X Ledgers)]
  /\ flagged \in [Servers -> SUBSET (Validators \X Ledgers)]
  /\ accepted \in [Servers -> SUBSET Acceptance]

Remembered ==
  \A v \in Validators \ forgot : \A l \in Ledgers :
     <<v, l>> \in signed => seq(l) <= largest[v] \/ seq(l) <= maxDisallowed[Host[v]]

Received == \A s \in Servers : seen[s] \subseteq signed /\ flagged[s] \subseteq signed

\* Whoever is marked as trusted, or about to be, is on a list that was in use.
FromLists ==
  \A s \in Servers :
     /\ trusted[s] \in used[s] /\ trustChanges[s].added \subseteq UNION used[s]
     /\ \A m \in flagged[s] : m[1] \in UNION used[s]

Voters(list, l) == {v \in list : <<v, l>> \in signed}

Counted ==
  \A s \in Servers : \A a \in accepted[s] :
     Cardinality(Voters(a.list, a.ledger)) >= a.need

IInv == Types /\ Remembered /\ NoDoubleSigning /\ Received /\ FromLists /\ Counted

--------------------------------------------------------------------------------
LEMMA SeqType == ASSUME NEW l \in Ledgers PROVE seq(l) \in Nat \ {0}
BY PathsAssumption DEF seq

LEMMA FiniteLists == ASSUME NEW U \in SUBSET Validators PROVE IsFiniteSet(U) /\ Cardinality(U) \in Nat
BY FiniteAssumption, FS_Subset, FS_CardinalityType

LEMMA CardinalityGrows ==
  ASSUME NEW U \in SUBSET Validators, NEW W \in SUBSET U
  PROVE  Cardinality(W) <= Cardinality(U) /\ Cardinality(W) \in Nat /\ Cardinality(U) \in Nat
BY FiniteLists, FS_Subset

LEMMA QuorumType ==
  ASSUME NEW U \in SUBSET Validators
  PROVE  quorum(U) \in Nat /\ quorum(U) \in 0 .. Cardinality(Validators)
<1>1. Cardinality(U) \in Nat /\ Cardinality(Validators) \in Nat /\ Cardinality(U) <= Cardinality(Validators)
  BY CardinalityGrows
<1>2. ASSUME NEW k \in Nat PROVE (4 * k + 4) \div 5 \in Nat /\ (4 * k + 4) \div 5 <= k
  OBVIOUS
<1> QED
  BY <1>1, <1>2 DEF quorum, calculateQuorum

\* Two sets of at least p and q members within A and B share at least
\* p + q - Cardinality(A \cup B) of them.
LEMMA Pigeonhole ==
  ASSUME NEW A \in SUBSET Validators, NEW B \in SUBSET Validators,
         NEW P \in SUBSET A, NEW Q \in SUBSET B,
         NEW p \in Nat, NEW q \in Nat,
         Cardinality(P) >= p, Cardinality(Q) >= q
  PROVE  Cardinality(P \cap Q) >= p + q - Cardinality(A \cup B)
<1>1. /\ Cardinality(P) \in Nat /\ Cardinality(Q) \in Nat /\ Cardinality(A \cup B) \in Nat
      /\ IsFiniteSet(P) /\ IsFiniteSet(Q)
  BY FiniteLists
<1>2. Cardinality(P \cup Q) = Cardinality(P) + Cardinality(Q) - Cardinality(P \cap Q)
  BY <1>1, FS_Union
<1>3. Cardinality(P \cup Q) <= Cardinality(A \cup B) /\ Cardinality(P \cup Q) \in Nat
  BY CardinalityGrows
<1>4. Cardinality(P \cap Q) \in Nat
  BY FiniteLists
<1> QED
  BY <1>1, <1>2, <1>3, <1>4

--------------------------------------------------------------------------------
LEMMA InitIInv == Init => IInv
BY ListsAssumption DEF Init, AInit, IInv, Types, Remembered, NoDoubleSigning, Received, FromLists, Counted, NoChanges, Acceptance

\* Once counted, a quorum stays: signed only grows.
LEMMA CountedGrows ==
  ASSUME IInv, signed \subseteq signed', UNCHANGED accepted
  PROVE  Counted'
<1> SUFFICES ASSUME NEW s \in Servers, NEW a \in accepted[s]
             PROVE  Cardinality(Voters(a.list, a.ledger)') >= a.need
  BY DEF Counted, Voters
<1>1. a.list \in SUBSET Validators /\ a.need \in 0 .. Cardinality(Validators) /\ Cardinality(Validators) \in Nat
  BY FiniteLists DEF IInv, Types, Acceptance
<1>2. Voters(a.list, a.ledger) \subseteq Voters(a.list, a.ledger)' /\ Voters(a.list, a.ledger)' \subseteq a.list
  BY DEF Voters
<1>3. Cardinality(Voters(a.list, a.ledger)) >= a.need
  BY DEF IInv, Counted
<1>4. /\ Cardinality(Voters(a.list, a.ledger)) <= Cardinality(Voters(a.list, a.ledger)')
      /\ Cardinality(Voters(a.list, a.ledger)) \in Nat /\ Cardinality(Voters(a.list, a.ledger)') \in Nat
  BY <1>1, <1>2, CardinalityGrows
<1> QED
  BY <1>1, <1>3, <1>4

\* What a server adds was signed, and marked by a list it uses.
LEMMA HandleParts ==
  ASSUME IInv, NEW s \in Servers, NEW m \in Validators \X Ledgers, NEW list \in used[s], m \in signed',
         signed \subseteq signed', handleNewValidation(s, m, list), UNCHANGED <<trusted, used, trustChanges>>
  PROVE  /\ Received' /\ FromLists'
         /\ seen' \in [Servers -> SUBSET (Validators \X Ledgers)]
         /\ flagged' \in [Servers -> SUBSET (Validators \X Ledgers)]
<1>1. seen' = [seen EXCEPT ![s] = @ \cup {m}] /\ flagged' = [flagged EXCEPT ![s] = @ \cup stamp(m, list)]
  BY DEF handleNewValidation
<1>2. stamp(m, list) \subseteq {m} /\ (stamp(m, list) # {} => m[1] \in UNION used[s])
  BY DEF stamp
<1>3. /\ seen' \in [Servers -> SUBSET (Validators \X Ledgers)]
      /\ flagged' \in [Servers -> SUBSET (Validators \X Ledgers)]
  BY <1>1, <1>2 DEF IInv, Types
<1>4. Received'
  BY <1>1, <1>2 DEF IInv, Types, Received
<1>5. FromLists'
  BY <1>1, <1>2 DEF IInv, Types, FromLists
<1> QED
  BY <1>3, <1>4, <1>5

\* The sequences a validator signs next lie beyond all it remembers.
LEMMA ValidateIInv ==
  ASSUME IInv, NEW v \in Validators, NEW l \in Ledgers, NEW full \in BOOLEAN, NEW held \in BOOLEAN,
         Validate(v, l, full, held)
  PROVE  IInv'
<1>2. /\ signed \subseteq signed' /\ signed' \subseteq signed \cup {<<v, l>>}
      /\ held => <<v, l>> \in signed'
      /\ UNCHANGED <<accepted, trusted, used, trustChanges>>
  BY DEF Validate
<1>3. Counted'
  BY <1>2, CountedGrows
<1>4. /\ Received' /\ FromLists'
      /\ seen' \in [Servers -> SUBSET (Validators \X Ledgers)]
      /\ flagged' \in [Servers -> SUBSET (Validators \X Ledgers)]
  <2>1. CASE held
    <3>1. Host[v] \in Servers /\ trusted[Host[v]] \in used[Host[v]] /\ <<v, l>> \in Validators \X Ledgers
      BY HostAssumption DEF IInv, FromLists
    <3>2. handleNewValidation(Host[v], <<v, l>>, trusted[Host[v]])
      BY <2>1 DEF Validate
    <3> QED
      BY <1>2, <2>1, <3>1, <3>2, HandleParts
  <2>2. CASE ~held
    <3>1. UNCHANGED <<seen, flagged>>
      BY <2>2 DEF Validate
    <3> QED
      BY <1>2, <3>1 DEF IInv, Types, Received, FromLists
  <2> QED
    BY <2>1, <2>2
<1>1. Types'
  <2>1. UNCHANGED <<accepted, forgot, maxDisallowed, saved, trusted, used, trustChanges>>
    BY DEF Validate
  <2>2. largest' = [largest EXCEPT ![v] = seq(l)] /\ seq(l) \in Nat
    BY SeqType DEF Validate
  <2> QED
    BY <1>2, <1>4, <2>1, <2>2 DEF IInv, Types
<1>5. /\ seq(l) > largest[v] /\ seq(l) - 1 >= maxDisallowed[Host[v]]
      /\ largest[v] \in Nat /\ maxDisallowed[Host[v]] \in Nat /\ seq(l) \in Nat
      /\ largest' = [largest EXCEPT ![v] = seq(l)] /\ UNCHANGED <<forgot, maxDisallowed>>
  BY SeqType, HostAssumption DEF IInv, Types, Validate, canValidateSeq
<1>6. Remembered'
  <2> SUFFICES ASSUME NEW w \in Validators \ forgot, NEW m \in Ledgers, <<w, m>> \in signed'
               PROVE  seq(m) <= largest'[w] \/ seq(m) <= maxDisallowed[Host[w]]
    BY <1>5 DEF Remembered
  <2>1. CASE w # v
    BY <2>1, <1>2, <1>5 DEF IInv, Remembered, Types
  <2>2. CASE w = v /\ m = l
    BY <2>2, <1>5 DEF IInv, Types
  <2>3. CASE w = v /\ m # l
    <3>1. <<w, m>> \in signed
      BY <2>3, <1>2
    <3>2. seq(m) <= largest[v] \/ seq(m) <= maxDisallowed[Host[v]]
      BY <2>3, <3>1 DEF IInv, Remembered
    <3>3. largest'[v] = seq(l) /\ seq(m) \in Nat
      BY <1>5, SeqType DEF IInv, Types
    <3> QED
      BY <2>3, <3>2, <3>3, <1>5
  <2> QED
    BY <2>1, <2>2, <2>3
<1>7. NoDoubleSigning'
  <2> SUFFICES ASSUME NEW w \in Validators \ forgot, NEW m \in Ledgers, NEW n \in Ledgers,
                      <<w, m>> \in signed', <<w, n>> \in signed', seq(m) = seq(n), m # n
               PROVE  FALSE
    BY <1>5 DEF NoDoubleSigning
  <2>1. <<w, m>> \notin signed \/ <<w, n>> \notin signed
    BY DEF IInv, NoDoubleSigning
  <2>2. ASSUME NEW x \in Ledgers, <<v, x>> \in signed, v \notin forgot PROVE seq(x) # seq(l)
    <3>1. seq(x) <= largest[v] \/ seq(x) <= maxDisallowed[Host[v]]
      BY <2>2 DEF IInv, Remembered
    <3>2. seq(x) \in Nat
      BY SeqType
    <3> QED
      BY <3>1, <3>2, <1>5
  <2> QED
    BY <2>1, <2>2, <1>2
<1> QED
  BY <1>1, <1>3, <1>4, <1>6, <1>7 DEF IInv

LEMMA HandleIInv ==
  ASSUME IInv, NEW s \in Servers, NEW m \in signed, NEW list \in used[s], HandleNewValidation(s, m, list)
  PROVE  IInv'
<1>1. /\ UNCHANGED <<accepted, forgot, signed, largest, maxDisallowed, saved, trusted, used, trustChanges>>
      /\ handleNewValidation(s, m, list) /\ m \in Validators \X Ledgers
  BY DEF HandleNewValidation, IInv, Types
<1>2. /\ Received' /\ FromLists'
      /\ seen' \in [Servers -> SUBSET (Validators \X Ledgers)]
      /\ flagged' \in [Servers -> SUBSET (Validators \X Ledgers)]
  BY <1>1, HandleParts
<1>3. Types'
  BY <1>1, <1>2 DEF IInv, Types
<1>4. Remembered' /\ NoDoubleSigning'
  BY <1>1 DEF IInv, Remembered, NoDoubleSigning
<1>5. Counted'
  BY <1>1, CountedGrows
<1> QED
  BY <1>2, <1>3, <1>4, <1>5 DEF IInv

\* The validations that a server counts were signed, by validators of a list it
\* uses.
LEMMA AcceptCounts ==
  ASSUME IInv, NEW s \in Servers, NEW l \in Ledgers, NEW list \in used[s], CheckAccept(s, l, list)
  PROVE  /\ counted(s, l, list) \in SUBSET Validators
         /\ quorum(list) \in 0 .. Cardinality(Validators)
         /\ Cardinality(Voters(counted(s, l, list), l)) >= quorum(list)
<1>1. /\ list \in SUBSET Validators /\ UNION used[s] \in SUBSET Validators
      /\ counted(s, l, list) \in SUBSET Validators
  BY ListsAssumption DEF IInv, Types, counted
<1> DEFINE voters == {v \in Validators : <<v, l>> \in flagged[s]}
<1>2. voters \subseteq counted(s, l, list)
  <2>1. voters \subseteq UNION used[s]
    BY DEF IInv, FromLists
  <2> QED
    BY <2>1 DEF counted
<1>3. voters \subseteq Voters(counted(s, l, list), l) /\ Voters(counted(s, l, list), l) \in SUBSET Validators
  BY <1>1, <1>2 DEF IInv, Received, Voters
<1>4. Cardinality(voters) >= quorum(list)
  BY DEF CheckAccept, numTrustedForLedger
<1>5. /\ Cardinality(voters) <= Cardinality(Voters(counted(s, l, list), l))
      /\ Cardinality(voters) \in Nat /\ Cardinality(Voters(counted(s, l, list), l)) \in Nat
  BY <1>3, CardinalityGrows
<1>6. quorum(list) \in Nat /\ quorum(list) \in 0 .. Cardinality(Validators)
  BY <1>1, QuorumType
<1> HIDE DEF voters
<1> QED
  BY <1>1, <1>4, <1>5, <1>6

LEMMA CheckAcceptIInv ==
  ASSUME IInv, NEW s \in Servers, NEW l \in Ledgers, NEW list \in used[s], CheckAccept(s, l, list)
  PROVE  IInv'
<1> DEFINE new == [ledger |-> l, list |-> counted(s, l, list), need |-> quorum(list)]
<1>1. new \in Acceptance /\ new.ledger = l /\ new.list = counted(s, l, list) /\ new.need = quorum(list)
  BY AcceptCounts DEF Acceptance
<1>2. /\ accepted' = [accepted EXCEPT ![s] = @ \cup {new}]
      /\ UNCHANGED <<forgot, signed, largest, maxDisallowed, saved, trusted, used, trustChanges, seen, flagged>>
  BY DEF CheckAccept
<1> HIDE DEF new
<1>3. Types'
  BY <1>1, <1>2 DEF IInv, Types
<1>4. Remembered' /\ NoDoubleSigning' /\ Received' /\ FromLists'
  BY <1>2 DEF IInv, Remembered, NoDoubleSigning, Received, FromLists
<1>5. Counted'
  <2> SUFFICES ASSUME NEW t \in Servers, NEW a \in accepted'[t]
               PROVE  Cardinality(Voters(a.list, a.ledger)) >= a.need
    BY <1>2 DEF Counted, Voters
  <2>1. a \in accepted[t] \/ a = new
    BY <1>2 DEF IInv, Types
  <2>2. CASE a \in accepted[t]
    BY <2>2 DEF IInv, Counted
  <2>3. CASE a = new
    BY <2>3, <1>1, AcceptCounts
  <2> QED
    BY <2>1, <2>2, <2>3
<1> QED
  BY <1>3, <1>4, <1>5 DEF IInv

LEMMA SaveIInv ==
  ASSUME IInv, NEW s \in Servers, Save(s)
  PROVE  IInv'
<1>1. UNCHANGED <<accepted, forgot, signed, largest, maxDisallowed, trusted, used, trustChanges, seen, flagged>>
  BY DEF Save
<1>2. Types'
  BY DEF IInv, Types, Save
<1>3. Remembered' /\ NoDoubleSigning' /\ Received' /\ FromLists'
  BY <1>1 DEF IInv, Remembered, NoDoubleSigning, Received, FromLists
<1>4. Counted'
  BY <1>1, CountedGrows
<1> QED
  BY <1>2, <1>3, <1>4 DEF IInv

LEMMA UpdateTrustedIInv ==
  ASSUME IInv, NEW s \in Servers, NEW list \in Lists, UpdateTrusted(s, list)
  PROVE  IInv'
<1>1. UNCHANGED <<accepted, forgot, signed, largest, maxDisallowed, saved, seen, flagged>>
  BY DEF UpdateTrusted
<1>2. /\ trusted' = [trusted EXCEPT ![s] = list] /\ used' = [used EXCEPT ![s] = @ \cup {list}]
      /\ trustChanges' = [trustChanges EXCEPT ![s] = [added |-> list \ trusted[s], removed |-> trusted[s] \ list]]
  BY DEF UpdateTrusted
<1>3. Types'
  BY <1>1, <1>2, ListsAssumption DEF IInv, Types
<1>4. Remembered' /\ NoDoubleSigning' /\ Received'
  BY <1>1 DEF IInv, Remembered, NoDoubleSigning, Received
<1>5. FromLists'
  <2> SUFFICES ASSUME NEW t \in Servers
               PROVE  /\ trusted'[t] \in used'[t] /\ trustChanges'[t].added \subseteq UNION used'[t]
                      /\ \A m \in flagged[t] : m[1] \in UNION used'[t]
    BY <1>1 DEF FromLists
  <2>1. used[t] \subseteq used'[t] /\ \A m \in flagged[t] : m[1] \in UNION used[t]
    BY <1>2 DEF IInv, Types, FromLists
  <2>2. CASE t = s
    <3>1. trusted'[s] = list /\ list \in used'[s]
      BY <1>2 DEF IInv, Types
    <3>2. trustChanges'[s].added = list \ trusted[s]
      BY <1>2 DEF IInv, Types
    <3> QED
      BY <2>1, <2>2, <3>1, <3>2
  <2>3. CASE t # s
    BY <1>2, <2>3 DEF IInv, Types, FromLists
  <2> QED
    BY <2>2, <2>3
<1>6. Counted'
  BY <1>1, CountedGrows
<1> QED
  BY <1>3, <1>4, <1>5, <1>6 DEF IInv

LEMMA TrustChangedIInv ==
  ASSUME IInv, NEW s \in Servers, TrustChanged(s)
  PROVE  IInv'
<1> DEFINE kept == {m \in seen[s] : \/ m[1] \in trustChanges[s].added
                                    \/ m \in flagged[s] /\ m[1] \notin trustChanges[s].removed}
<1>1. UNCHANGED <<accepted, forgot, signed, largest, maxDisallowed, saved, trusted, used, seen>>
  BY DEF TrustChanged
<1>2. flagged' = [flagged EXCEPT ![s] = kept] /\ trustChanges' = [trustChanges EXCEPT ![s] = NoChanges]
  BY DEF TrustChanged, IInv, Types
<1>3. kept \subseteq seen[s] /\ \A m \in kept : m[1] \in UNION used[s]
  BY DEF IInv, FromLists
<1>4. NoChanges \in [added : SUBSET Validators, removed : SUBSET Validators] /\ NoChanges.added = {}
  BY DEF NoChanges
<1> HIDE DEF kept
<1>5. Types'
  BY <1>1, <1>2, <1>3, <1>4 DEF IInv, Types
<1>6. Remembered' /\ NoDoubleSigning'
  BY <1>1 DEF IInv, Remembered, NoDoubleSigning
<1>7. Received'
  BY <1>1, <1>2, <1>3 DEF IInv, Types, Received
<1>8. FromLists'
  BY <1>1, <1>2, <1>3, <1>4 DEF IInv, Types, FromLists
<1>9. Counted'
  BY <1>1, CountedGrows
<1> QED
  BY <1>5, <1>6, <1>7, <1>8, <1>9 DEF IInv

\* What the restarted server does not know from its table is forgotten.
LEMMA RestartIInv ==
  ASSUME IInv, NEW s \in Servers, Restart(s)
  PROVE  IInv'
<1>1. Types'
  BY DEF IInv, Types, Restart, setMaxDisallowedLedger, signedBeyond, Hosted, NoChanges
<1>2. Counted'
  BY CountedGrows DEF Restart
<1>5. Received' /\ FromLists'
  <2>1. /\ seen' = [seen EXCEPT ![s] = {}] /\ flagged' = [flagged EXCEPT ![s] = {}]
        /\ used' = [used EXCEPT ![s] = {trusted[s]}] /\ trustChanges' = [trustChanges EXCEPT ![s] = NoChanges]
        /\ UNCHANGED <<signed, trusted>> /\ NoChanges.added = {}
    BY DEF Restart, NoChanges
  <2> QED
    BY <2>1 DEF IInv, Types, Received, FromLists
<1>3. NoDoubleSigning'
  BY DEF IInv, NoDoubleSigning, Restart
<1>4. Remembered'
  <2> SUFFICES ASSUME NEW v \in Validators \ forgot', NEW l \in Ledgers, <<v, l>> \in signed
               PROVE  seq(l) <= largest'[v] \/ seq(l) <= maxDisallowed'[Host[v]]
    BY DEF Remembered, Restart
  <2>1. v \notin forgot /\ v \notin signedBeyond(Hosted(s), saved[s])
    BY DEF Restart
  <2>2. CASE Host[v] = s
    <3>1. maxDisallowed'[Host[v]] = saved[s] /\ saved[s] \in Nat /\ seq(l) \in Nat
      BY <2>2, SeqType DEF IInv, Types, Restart, setMaxDisallowedLedger
    <3>2. ~ (seq(l) > saved[s])
      BY <2>1, <2>2 DEF signedBeyond, Hosted
    <3> QED
      BY <3>1, <3>2
  <2>3. CASE Host[v] # s
    <3>1. maxDisallowed'[Host[v]] = maxDisallowed[Host[v]] /\ largest'[v] = largest[v]
      BY <2>3, HostAssumption DEF IInv, Types, Restart
    <3> QED
      BY <2>1, <3>1 DEF IInv, Remembered
  <2> QED
    BY <2>2, <2>3
<1> QED
  BY <1>1, <1>2, <1>3, <1>4, <1>5 DEF IInv

LEMMA ExpiresIInv ==
  ASSUME IInv, NEW v \in Validators, EnforcerExpires(v)
  PROVE  IInv'
<1>1. Types'
  BY DEF IInv, Types, EnforcerExpires, signedBeyond
<1>2. Received' /\ FromLists' /\ Counted'
  BY CountedGrows DEF IInv, Received, FromLists, EnforcerExpires
<1>3. NoDoubleSigning'
  BY DEF IInv, NoDoubleSigning, EnforcerExpires
<1>4. Remembered'
  <2> SUFFICES ASSUME NEW w \in Validators \ forgot', NEW l \in Ledgers, <<w, l>> \in signed
               PROVE  seq(l) <= largest'[w] \/ seq(l) <= maxDisallowed[Host[w]]
    BY DEF Remembered, EnforcerExpires
  <2>1. w \notin forgot /\ w \notin signedBeyond({v}, maxDisallowed[Host[v]])
    BY DEF EnforcerExpires
  <2>2. CASE w = v
    <3>1. ~ (seq(l) > maxDisallowed[Host[w]])
      BY <2>1, <2>2 DEF signedBeyond
    <3>2. seq(l) \in Nat /\ maxDisallowed[Host[w]] \in Nat
      BY SeqType, HostAssumption DEF IInv, Types
    <3> QED
      BY <3>1, <3>2
  <2>3. CASE w # v
    <3>1. largest'[w] = largest[w]
      BY <2>3 DEF IInv, Types, EnforcerExpires
    <3> QED
      BY <2>1, <3>1 DEF IInv, Remembered
  <2> QED
    BY <2>2, <2>3
<1> QED
  BY <1>1, <1>2, <1>3, <1>4 DEF IInv

LEMMA NextIInv == IInv /\ [Next]_vars => IInv'
<1> SUFFICES ASSUME IInv, [Next]_vars PROVE IInv'
  OBVIOUS
<1>1. CASE \E v \in Validators, l \in Ledgers, full, held \in BOOLEAN : Validate(v, l, full, held)
  BY <1>1, ValidateIInv
<1>2. CASE \E s \in Servers : \E m \in signed, list \in used[s] : HandleNewValidation(s, m, list)
  BY <1>2, HandleIInv
<1>3. CASE \E s \in Servers, l \in Ledgers : \E list \in used[s] : CheckAccept(s, l, list)
  BY <1>3, CheckAcceptIInv
<1>4. CASE \E s \in Servers, list \in Lists : UpdateTrusted(s, list)
  BY <1>4, UpdateTrustedIInv
<1>5. CASE \E s \in Servers : TrustChanged(s) \/ Save(s) \/ Restart(s)
  BY <1>5, TrustChangedIInv, SaveIInv, RestartIInv
<1>6. CASE \E v \in Validators : EnforcerExpires(v)
  BY <1>6, ExpiresIInv
<1>7. CASE UNCHANGED vars
  <2>1. UNCHANGED <<accepted, forgot, signed, largest, maxDisallowed, saved, trusted, used, trustChanges,
                    seen, flagged>>
    BY <1>7 DEF vars
  <2>2. Types' /\ Remembered' /\ NoDoubleSigning' /\ Received' /\ FromLists'
    BY <2>1 DEF IInv, Types, Remembered, NoDoubleSigning, Received, FromLists
  <2>3. Counted'
    BY <2>1, CountedGrows
  <2> QED
    BY <2>2, <2>3 DEF IInv
<1> QED
  BY <1>1, <1>2, <1>3, <1>4, <1>5, <1>6, <1>7 DEF Next

LEMMA IInvAlways == Spec => []IInv
BY InitIInv, NextIInv, PTL DEF Spec

\* However many restarts, expiries, losses and changes of list there are, a
\* validator that has not forgotten (the enforcer of canValidateSeq, and the
\* table behind getMaxDisallowedLedger) signs one ledger of a sequence.
THEOREM NoDoubleSigningAlways == Spec => []NoDoubleSigning
<1>1. IInv => NoDoubleSigning
  BY DEF IInv
<1> QED
  BY <1>1, IInvAlways, PTL

--------------------------------------------------------------------------------
\* Two acceptances of different ledgers of a sequence share only validators that
\* have forgotten.
LEMMA ConflictExcused ==
  ASSUME IInv, NEW a \in Acceptance, NEW b \in Acceptance, Conflict(a, b),
         Cardinality(Voters(a.list, a.ledger)) >= a.need, Cardinality(Voters(b.list, b.ledger)) >= b.need
  PROVE  Excused(a, b)
<1> DEFINE both == Voters(a.list, a.ledger) \cap Voters(b.list, b.ledger)
           lost == forgot \cap a.list \cap b.list
<1>1. /\ a.list \in SUBSET Validators /\ b.list \in SUBSET Validators
      /\ a.need \in Nat /\ b.need \in Nat /\ a.ledger \in Ledgers /\ b.ledger \in Ledgers
  BY FiniteLists DEF Acceptance
<1>2. Voters(a.list, a.ledger) \in SUBSET a.list /\ Voters(b.list, b.ledger) \in SUBSET b.list
  BY DEF Voters
<1>3. Cardinality(both) >= a.need + b.need - Cardinality(a.list \cup b.list)
  BY <1>1, <1>2, Pigeonhole
<1>4. both \subseteq lost
  BY <1>1 DEF IInv, NoDoubleSigning, Voters, Conflict
<1>5. lost \in SUBSET Validators
  BY <1>1
<1>6. Cardinality(both) <= Cardinality(lost) /\ Cardinality(both) \in Nat /\ Cardinality(lost) \in Nat
  BY <1>4, <1>5, CardinalityGrows
<1>7. Cardinality(a.list \cup b.list) \in Nat
  BY <1>1, FiniteLists
<1> HIDE DEF both
<1> QED
  BY <1>1, <1>3, <1>6, <1>7, SMTT(30) DEF Excused, overlap

LEMMA AcceptImplements ==
  ASSUME IInv, NEW s \in Servers, NEW l \in Ledgers, NEW list \in used[s], CheckAccept(s, l, list)
  PROVE  \E a \in Acceptance : AAccept(s, a)
<1> DEFINE new == [ledger |-> l, list |-> counted(s, l, list), need |-> quorum(list)]
<1>1. new \in Acceptance /\ new.ledger = l /\ new.list = counted(s, l, list) /\ new.need = quorum(list)
  BY AcceptCounts DEF Acceptance
<1>2. accepted' = [accepted EXCEPT ![s] = @ \cup {new}] /\ UNCHANGED forgot
  BY DEF CheckAccept
<1> HIDE DEF new
<1>3. ASSUME NEW t \in Servers, NEW b \in accepted[t], Conflict(new, b)
      PROVE  Excused(new, b)
  <2>1. b \in Acceptance /\ Cardinality(Voters(b.list, b.ledger)) >= b.need
    BY DEF IInv, Types, Counted
  <2>2. Cardinality(Voters(new.list, new.ledger)) >= new.need
    BY <1>1, AcceptCounts
  <2> QED
    BY <1>1, <1>3, <2>1, <2>2, ConflictExcused
<1> QED
  BY <1>1, <1>2, <1>3 DEF AAccept

LEMMA StepImplements == IInv /\ [Next]_vars => [ANext]_<<accepted, forgot>>
<1> SUFFICES ASSUME IInv, [Next]_vars PROVE ANext \/ UNCHANGED <<accepted, forgot>>
  OBVIOUS
<1>1. CASE \E v \in Validators, l \in Ledgers, full, held \in BOOLEAN : Validate(v, l, full, held)
  BY <1>1 DEF Validate
<1>2. CASE \E s \in Servers : \E m \in signed, list \in used[s] : HandleNewValidation(s, m, list)
  BY <1>2 DEF HandleNewValidation
<1>3. CASE \E s \in Servers, l \in Ledgers : \E list \in used[s] : CheckAccept(s, l, list)
  BY <1>3, AcceptImplements DEF ANext
<1>4. CASE \E s \in Servers, list \in Lists : UpdateTrusted(s, list)
  BY <1>4 DEF UpdateTrusted
<1>5. ASSUME NEW s \in Servers, TrustChanged(s) \/ Save(s) \/ Restart(s)
      PROVE  ANext \/ UNCHANGED <<accepted, forgot>>
  <2>1. CASE TrustChanged(s) \/ Save(s)
    BY <2>1 DEF TrustChanged, Save
  <2>2. CASE Restart(s)
    <3>1. signedBeyond(Hosted(s), saved[s]) \in SUBSET Validators
      BY DEF signedBeyond, Hosted
    <3>2. AForget(signedBeyond(Hosted(s), saved[s]))
      BY <2>2 DEF AForget, Restart
    <3> QED
      BY <3>1, <3>2 DEF ANext
  <2> QED
    BY <1>5, <2>1, <2>2
<1>6. ASSUME NEW v \in Validators, EnforcerExpires(v) PROVE ANext
  <2>1. signedBeyond({v}, maxDisallowed[Host[v]]) \in SUBSET Validators
    BY DEF signedBeyond
  <2>2. AForget(signedBeyond({v}, maxDisallowed[Host[v]]))
    BY <1>6 DEF AForget, EnforcerExpires
  <2> QED
    BY <2>1, <2>2 DEF ANext
<1>7. CASE UNCHANGED vars
  BY <1>7 DEF vars
<1> QED
  BY <1>1, <1>2, <1>3, <1>4, <1>5, <1>6, <1>7 DEF Next

\* The network keeps the promise of LedgerAgreement: two servers validate
\* different ledgers of a sequence (checkAccept) only where their quorums share
\* none but validators that have forgotten what they signed.
THEOREM NetworkImplementsAgreement == Spec => ImplementsAgreement
<1>1. Init => AInit
  BY DEF Init
<1> QED
  BY <1>1, IInvAlways, StepImplements, PTL DEF Spec, ImplementsAgreement, ASpec

--------------------------------------------------------------------------------
\* The invariant of the promise itself: what conflicts is excused.
AInv ==
  /\ accepted \in [Servers -> SUBSET Acceptance] /\ forgot \subseteq Validators
  /\ \A s, t \in Servers : \A a \in accepted[s], b \in accepted[t] : Conflict(a, b) => Excused(a, b)

LEMMA AcceptanceType ==
  ASSUME NEW a \in Acceptance
  PROVE  a.list \in SUBSET Validators /\ a.need \in Nat
BY FiniteLists DEF Acceptance

LEMMA ExcusedStays ==
  ASSUME NEW a \in Acceptance, NEW b \in Acceptance,
         forgot' \subseteq Validators, forgot \subseteq forgot', Excused(a, b)
  PROVE  Excused(a, b)'
<1> DEFINE lost == forgot \cap a.list \cap b.list
           more == forgot' \cap a.list \cap b.list
<1>1. lost \subseteq more /\ more \in SUBSET Validators
  OBVIOUS
<1>2. Cardinality(lost) <= Cardinality(more) /\ Cardinality(lost) \in Nat /\ Cardinality(more) \in Nat
  BY <1>1, CardinalityGrows
<1>3. Cardinality(a.list \cup b.list) \in Nat /\ a.need \in Nat /\ b.need \in Nat
  BY FiniteLists, AcceptanceType
<1> QED
  BY <1>2, <1>3 DEF Excused, overlap

LEMMA ExcusedSymmetric ==
  ASSUME NEW a \in Acceptance, NEW b \in Acceptance, Excused(a, b)
  PROVE  Excused(b, a)
<1>1. forgot \cap a.list \cap b.list = forgot \cap b.list \cap a.list /\ a.list \cup b.list = b.list \cup a.list
  OBVIOUS
<1>2. a.need \in Nat /\ b.need \in Nat /\ Cardinality(a.list \cup b.list) \in Nat
  BY AcceptanceType, FiniteLists
<1>3. /\ Cardinality(forgot \cap a.list \cap b.list) = Cardinality(forgot \cap b.list \cap a.list)
      /\ Cardinality(a.list \cup b.list) = Cardinality(b.list \cup a.list)
  BY <1>1
<1>4. Cardinality(forgot \cap a.list \cap b.list) >= a.need + b.need - Cardinality(a.list \cup b.list)
  BY DEF Excused, overlap
<1>5. Cardinality(forgot \cap b.list \cap a.list) >= b.need + a.need - Cardinality(b.list \cup a.list)
  BY <1>2, <1>3, <1>4
<1> QED
  BY <1>5 DEF Excused, overlap

LEMMA AcceptAInv ==
  ASSUME AInv, NEW s \in Servers, NEW a \in Acceptance, AAccept(s, a)
  PROVE  AInv'
<1>1. accepted' \in [Servers -> SUBSET Acceptance] /\ forgot' \subseteq Validators
  BY DEF AInv, AAccept
<1> SUFFICES ASSUME NEW t \in Servers, NEW u \in Servers, NEW b \in accepted'[t], NEW c \in accepted'[u],
                    Conflict(b, c)
             PROVE  Excused(b, c)
  BY <1>1 DEF AInv, AAccept, Excused
<1>2. (b \in accepted[t] \/ b = a) /\ (c \in accepted[u] \/ c = a)
  BY DEF AInv, AAccept
<1>3. ASSUME NEW w \in Servers, NEW d \in accepted[w], Conflict(a, d)
      PROVE  Excused(a, d) /\ Excused(d, a)
  <2>1. d \in Acceptance
    BY DEF AInv
  <2>2. Excused(a, d)
    BY <1>3 DEF AAccept
  <2> QED
    BY <2>1, <2>2, ExcusedSymmetric
<1>4. CASE b \in accepted[t] /\ c \in accepted[u]
  BY <1>4 DEF AInv
<1>5. CASE b = a /\ c \in accepted[u]
  BY <1>5, <1>3
<1>6. CASE b \in accepted[t] /\ c = a
  BY <1>6, <1>3 DEF Conflict
<1>7. ~ (b = a /\ c = a)
  BY DEF Conflict
<1> QED
  BY <1>2, <1>4, <1>5, <1>6, <1>7

LEMMA ForgetAInv ==
  ASSUME AInv, NEW F \in SUBSET Validators, AForget(F)
  PROVE  AInv'
<1>1. forgot \subseteq forgot' /\ forgot' \subseteq Validators /\ accepted' = accepted
  BY DEF AInv, AForget
<1> SUFFICES ASSUME NEW s \in Servers, NEW t \in Servers, NEW a \in accepted[s], NEW b \in accepted[t],
                    Conflict(a, b)
             PROVE  Excused(a, b)'
  BY <1>1 DEF AInv, Excused
<1>2. a \in Acceptance /\ b \in Acceptance
  BY DEF AInv
<1>3. Excused(a, b)
  BY DEF AInv
<1> QED
  BY <1>1, <1>2, <1>3, ExcusedStays

LEMMA AInvAgrees == AInv => Agreement
<1> SUFFICES ASSUME AInv, NEW s \in Servers, NEW t \in Servers, NEW a \in accepted[s], NEW b \in accepted[t],
                    a.list = b.list, a.need = quorum(a.list), b.need = quorum(a.list), Conflict(a, b)
             PROVE  ~ (Cardinality(forgot \cap a.list) < 2 * quorum(a.list) - Cardinality(a.list))
  BY DEF Agreement
<1>1. a.list \in SUBSET Validators
  BY AcceptanceType DEF AInv
<1>2. Excused(a, b)
  BY DEF AInv
<1>3. forgot \cap a.list \cap b.list = forgot \cap a.list /\ a.list \cup b.list = a.list
  OBVIOUS
<1>4. Cardinality(forgot \cap a.list) \in Nat /\ Cardinality(a.list) \in Nat /\ quorum(a.list) \in Nat
  BY <1>1, FiniteLists, QuorumType
<1>5. /\ Cardinality(forgot \cap a.list \cap b.list) = Cardinality(forgot \cap a.list)
      /\ Cardinality(a.list \cup b.list) = Cardinality(a.list)
  BY <1>3
<1>6. Cardinality(forgot \cap a.list \cap b.list) >= quorum(a.list) + quorum(a.list) - Cardinality(a.list \cup b.list)
  BY <1>2 DEF Excused, overlap
<1> QED
  BY <1>4, <1>5, <1>6

\* What the promise means for servers with the same list: they validate the same
\* ledger of every sequence, unless 2q - n of the n validators have forgotten.
THEOREM AgreementAlways == ASpec => []Agreement
<1>1. AInit => AInv
  BY DEF AInit, AInv
<1>2. AInv /\ [ANext]_<<accepted, forgot>> => AInv'
  <2> SUFFICES ASSUME AInv, [ANext]_<<accepted, forgot>> PROVE AInv'
    OBVIOUS
  <2>1. CASE UNCHANGED <<accepted, forgot>>
    BY <2>1 DEF AInv, Excused
  <2> QED
    BY <2>1, AcceptAInv, ForgetAInv DEF ANext
<1> QED
  BY <1>1, <1>2, AInvAgrees, PTL DEF ASpec

\* Hence the servers of the network that share a list agree (checkAccept and
\* ValidatorList::calculateQuorum).
THEOREM NetworkAgrees == Spec => []Agreement
BY NetworkImplementsAgreement, AgreementAlways, PTL DEF ImplementsAgreement

\* The rounding of calculateQuorum: two quorums of one list share at least three
\* fifths of it, and never nothing, so Agreement is no empty promise.
THEOREM QuorumsOverlap ==
  ASSUME NEW list \in SUBSET Validators, list # {}
  PROVE  /\ 5 * (2 * quorum(list) - Cardinality(list)) >= 3 * Cardinality(list)
         /\ 2 * quorum(list) - Cardinality(list) >= 1
<1>1. Cardinality(list) \in Nat \ {0}
  BY FiniteLists, FS_EmptySet
<1>2. ASSUME NEW k \in Nat \ {0}, NEW q \in Int, q = (4 * k + 4) \div 5
      PROVE  5 * (2 * q - k) >= 3 * k /\ 2 * q - k >= 1
  BY <1>2
<1>3. quorum(list) = (4 * Cardinality(list) + 4) \div 5 /\ quorum(list) \in Int
  BY QuorumType DEF quorum, calculateQuorum
<1> QED
  BY <1>1, <1>2, <1>3
================================================================================
