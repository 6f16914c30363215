----------------------- MODULE ConsensusDisputes_proofs -----------------------
(***************************************************************************)
(* Lemmas about the operators of Consensus: the types of close times, and  *)
(* what creating and updating disputes does to the votes and comparisons   *)
(* of a result.                                                            *)
(***************************************************************************)
EXTENDS Consensus, FiniteSetTheorems, TLAPS

-----------------------------------------------------------------------------
(* Types of the operators *)

\* A dispute map is a function on some of the transactions.
LEMMA DisputeMap ==
  ASSUME NEW D \in SUBSET Txs, NEW f \in [D -> Disputes]
  PROVE  f \in UNION {[E -> Disputes] : E \in SUBSET Txs}
OBVIOUS

\* Conversely, the disputes of a result are such a function.
LEMMA ResultDisputes ==
  ASSUME NEW r \in Results
  PROVE  /\ DOMAIN r.disputes \subseteq Txs
         /\ r.disputes \in [DOMAIN r.disputes -> Disputes]
<1>1. r.disputes \in UNION {[E -> Disputes] : E \in SUBSET Txs}
  BY DEF Results
<1>2. PICK E \in SUBSET Txs : r.disputes \in [E -> Disputes]
  BY <1>1
<1> QED BY <1>2

\* Rounding a close time never takes it below zero.
LEMMA RoundCloseTimeType ==
  ASSUME NEW c \in Nat, NEW n \in Nat \ {0}
  PROVE  roundCloseTime(c, n) \in Nat
<1> DEFINE t == c + (n \div 2)
<1>1. n \div 2 \in Nat
  OBVIOUS
<1>2. t \in Nat
  BY <1>1
<1> HIDE DEF t
<1>3. /\ t % n \in Nat /\ t \div n \in Nat
      /\ t = n * (t \div n) + (t % n)
  BY <1>2
<1>4. n * (t \div n) \in Nat
  BY <1>3
<1>5. t - (t % n) \in Nat
  BY <1>2, <1>3, <1>4
<1> QED BY <1>5 DEF roundCloseTime, t

\* The resolution of a round is positive.
LEMMA CloseResolutionType ==
  ASSUME previousLedger \in Ledgers
  PROVE  closeResolution \in Nat \ {0}
<1> DEFINE info == LedgerInfo[previousLedger]
<1>1. info \in Headers
  BY ConstantsAssumption
<1>2. info.resolution \in Nat \ {0}
  BY <1>1 DEF Headers
<1>3. ASSUME NEW i \in DOMAIN Resolutions PROVE Resolutions[i] \in Nat \ {0}
  BY RulesAssumption
<1>4. ASSUME NEW a, NEW s
      PROVE getNextLedgerTimeResolution(info.resolution, a, s) \in Nat \ {0}
  <2> DEFINE at == {i \in DOMAIN Resolutions : Resolutions[i] = info.resolution}
             i == CHOOSE i \in at : TRUE
  <2>1. CASE at = {}
    BY <2>1, <1>2 DEF getNextLedgerTimeResolution
  <2>2. CASE at # {}
    <3>1. i \in DOMAIN Resolutions
      BY <2>2
    <3>2. DOMAIN Resolutions = 1..Len(Resolutions) /\ Len(Resolutions) \in Nat
      BY RulesAssumption
    <3>3. i < Len(Resolutions) => i + 1 \in DOMAIN Resolutions
      BY <3>1, <3>2
    <3>4. i > 1 => i - 1 \in DOMAIN Resolutions
      BY <3>1, <3>2
    <3> QED BY <3>3, <3>4, <1>2, <1>3 DEF getNextLedgerTimeResolution
  <2> QED BY <2>1, <2>2
<1> QED BY <1>4 DEF closeResolution

LEMMA AsCloseTimeType ==
  ASSUME previousLedger \in Ledgers, NEW c \in Nat
  PROVE  asCloseTime(c) \in Nat
<1> DEFINE info == LedgerInfo[previousLedger]
<1>1. info \in Headers
  BY ConstantsAssumption
<1>2. info.closeTime \in Nat
  BY <1>1 DEF Headers
<1>3. roundCloseTime(c, closeResolution) \in Nat
  BY CloseResolutionType, RoundCloseTimeType
<1> QED BY <1>2, <1>3 DEF asCloseTime, effCloseTime, MaxOf

\* The close time of a vote outcome is a time.
LEMMA CloseTimeOutcomesType ==
  ASSUME TypeOK, result \in Results, NEW c \in closeTimeOutcomes
  PROVE  c.time \in Nat
<1>1. previousLedger \in Ledgers
  BY DEF TypeOK
<1>2. asCloseTime(result.closeTime) \in Nat
  BY <1>1, AsCloseTimeType DEF Results
<1>3. \A p \in DOMAIN freshPositions : freshPositions[p].closeTime \in Nat
  BY DEF freshPositions, Keep, TypeOK, Proposals
<1>4. \A p \in DOMAIN freshPositions : asCloseTime(freshPositions[p].closeTime) \in Nat
  BY <1>1, <1>3, AsCloseTimeType
<1>5. \A t \in closeTimesVoted : t \in Nat
  BY <1>2, <1>4 DEF closeTimesVoted, closeTimeSelf
<1>6. \/ c.time = asCloseTime(result.closeTime)
      \/ c.time = 0
      \/ c.time \in closeTimesVoted
  BY DEF closeTimeOutcomes
<1> QED BY <1>2, <1>5, <1>6

-----------------------------------------------------------------------------
(* What createDisputes and updateDisputes return *)

DisputesCreated(c, r, O, curr, acq) ==
    /\ c \in Results
    /\ c.txns = r.txns /\ c.start = r.start /\ c.seq = r.seq
    /\ c.compares = r.compares \cup O
    /\ DOMAIN c.disputes = DOMAIN r.disputes \cup differences(r, O)
    /\ \A t \in DOMAIN r.disputes : c.disputes[t] = r.disputes[t]
    /\ \A t \in DOMAIN c.disputes \ DOMAIN r.disputes :
          c.disputes[t] = newDispute(t, r.txns, curr, acq)

LEMMA CreateDisputes ==
  ASSUME NEW r \in Results, NEW O, O \subseteq TxSets,
         NEW curr, DOMAIN curr \subseteq Peers, NEW acq,
         NEW c, c = createDisputes(r, O, curr, acq)
  PROVE  DisputesCreated(c, r, O, curr, acq)
<1> DEFINE D == DOMAIN r.disputes \cup differences(r, O)
           f == [t \in D |-> IF t \in DOMAIN r.disputes THEN r.disputes[t]
                             ELSE newDispute(t, r.txns, curr, acq)]
<1>1. DOMAIN r.disputes \subseteq Txs /\ r.disputes \in [DOMAIN r.disputes -> Disputes]
  BY ResultDisputes
<1>2. differences(r, O) \subseteq Txs
  <2>1. r.txns \subseteq Txs
    BY DEF Results, TxSets
  <2>2. ASSUME NEW o \in O PROVE SymDiff(r.txns, o) \subseteq Txs
    BY <2>1 DEF SymDiff, TxSets
  <2> QED BY <2>2 DEF differences
<1>3. ASSUME NEW t PROVE newDispute(t, r.txns, curr, acq) \in Disputes
  BY DEF newDispute, Disputes
<1>4. f \in [D -> Disputes] /\ D \in SUBSET Txs
  BY <1>1, <1>2, <1>3
<1>5. f \in UNION {[E -> Disputes] : E \in SUBSET Txs}
  BY <1>4, DisputeMap, Zenon
<1>6. c = [r EXCEPT !.compares = r.compares \cup O, !.disputes = f]
  BY DEF createDisputes, Results
<1>7. DOMAIN f = D
  BY <1>4
<1> HIDE DEF f
<1>8. /\ c \in Results
      /\ c.txns = r.txns /\ c.start = r.start /\ c.seq = r.seq
      /\ c.compares = r.compares \cup O
      /\ c.disputes = f
  BY <1>5, <1>6, Zenon DEF Results
<1> QED BY <1>7, <1>8 DEF f, DisputesCreated

DisputesUpdated(u, r, P, o, curr, acq) ==
    /\ u \in Results
    /\ u.txns = r.txns /\ u.start = r.start /\ u.seq = r.seq
    /\ u.compares = r.compares \cup {o}
    /\ DOMAIN u.disputes = DOMAIN r.disputes \cup
          (IF o \in r.compares THEN {} ELSE SymDiff(r.txns, o))
    /\ \A t \in DOMAIN r.disputes :
          u.disputes[t] = setVotes(r.disputes[t], P, t \in o)
    /\ \A t \in DOMAIN u.disputes \ DOMAIN r.disputes :
          u.disputes[t] = setVotes(newDispute(t, r.txns, curr, acq), P, t \in o)

LEMMA UpdateDisputes ==
  ASSUME NEW r \in Results, NEW P, P \subseteq Peers, P # {}, NEW o \in TxSets,
         NEW curr, DOMAIN curr \subseteq Peers, NEW acq,
         NEW u, u = updateDisputes(r, P, o, curr, acq)
  PROVE  DisputesUpdated(u, r, P, o, curr, acq)
<1> DEFINE c == createDisputes(r, {o}, curr, acq)
           f == [t \in DOMAIN c.disputes |-> setVotes(c.disputes[t], P, t \in o)]
<1>1. DisputesCreated(c, r, {o}, curr, acq)
  <2>1. {o} \subseteq TxSets
    OBVIOUS
  <2> QED BY <2>1, CreateDisputes
<1>2a. u = [c EXCEPT !.disputes = [t \in DOMAIN @ |-> setVotes(@[t], P, t \in o)]]
  BY Zenon DEF updateDisputes
<1> HIDE DEF c
<1>2. u = [c EXCEPT !.disputes = f]
  BY <1>1, <1>2a DEF Results, DisputesCreated
<1>3. DOMAIN c.disputes \subseteq Txs /\ c.disputes \in [DOMAIN c.disputes -> Disputes]
  BY <1>1, ResultDisputes, Zenon DEF DisputesCreated
<1>4. ASSUME NEW d \in Disputes, NEW t PROVE setVotes(d, P, t \in o) \in Disputes
  BY Zenon DEF setVotes, Disputes
<1>5. f \in [DOMAIN c.disputes -> Disputes]
  BY <1>3, <1>4
<1>6. f \in UNION {[E -> Disputes] : E \in SUBSET Txs}
  BY <1>3, <1>5, DisputeMap
<1> HIDE DEF f
<1>7. /\ u \in Results
      /\ u.txns = c.txns /\ u.start = c.start /\ u.seq = c.seq
      /\ u.compares = c.compares
      /\ u.disputes = f
  BY <1>1, <1>2, <1>6 DEF Results, DisputesCreated
<1>8. DOMAIN c.disputes = DOMAIN r.disputes \cup
               (IF o \in r.compares THEN {} ELSE SymDiff(r.txns, o))
  <2>1. differences(r, {o}) = IF o \in r.compares THEN {} ELSE SymDiff(r.txns, o)
    BY DEF differences
  <2> QED BY <1>1, <2>1 DEF DisputesCreated
<1>9. DOMAIN u.disputes = DOMAIN c.disputes
      /\ \A t \in DOMAIN u.disputes : u.disputes[t] = setVotes(c.disputes[t], P, t \in o)
  BY <1>7 DEF f
<1> QED BY <1>1, <1>7, <1>8, <1>9, Zenon DEF DisputesCreated, DisputesUpdated

-----------------------------------------------------------------------------
(* When the votes and disputes of a result fit the peers' positions *)

\* The votes of all peers but P on the dispute d about t are those of their
\* positions.
Counts(d, t, curr, acq, P) ==
    /\ d.yes \cup d.no \subseteq DOMAIN curr
    /\ d.yes \cap d.no = {}
    /\ \A p \in DOMAIN curr \ P : curr[p].position \in acq =>
          p \in (IF t \in curr[p].position THEN d.yes ELSE d.no)

VotesExcept(r, curr, acq, P) ==
    \A t \in DOMAIN r.disputes : Counts(r.disputes[t], t, curr, acq, P)

OurVotes(r) ==
    \A t \in DOMAIN r.disputes : r.disputes[t].our <=> t \in r.txns

\* The acquired sets of all peers but P have been compared with ours, and what
\* was compared differs from ours on disputed transactions only.  The engine
\* compares a set once: this is why a later change of our own set, which only
\* moves disputed transactions, needs no second comparison.
HeldCompared(r, curr, acq, P) ==
    \A p \in DOMAIN curr \ P : curr[p].position \in acq => curr[p].position \in r.compares
ComparedDisputed(r) ==
    \A o \in r.compares : \A t \in Txs \ DOMAIN r.disputes : t \in r.txns <=> t \in o

Consistent(r, curr, acq, P) ==
    /\ VotesExcept(r, curr, acq, P)
    /\ OurVotes(r)
    /\ HeldCompared(r, curr, acq, P)
    /\ ComparedDisputed(r)

\* Setting the votes of the peers of P, who all hold the set o, makes a dispute
\* count them too.
LEMMA CountsAfterVotes ==
  ASSUME NEW d, NEW e, NEW t, NEW curr, NEW acq, NEW o,
         NEW P, P \subseteq DOMAIN curr, \A p \in P : curr[p].position = o,
         Counts(d, t, curr, acq, P),
         \/ t \in o /\ e.yes = d.yes \cup P /\ e.no = d.no \ P
         \/ t \notin o /\ e.yes = d.yes \ P /\ e.no = d.no \cup P
  PROVE  Counts(e, t, curr, acq, {})
<1>1. e.yes \cup e.no \subseteq DOMAIN curr /\ e.yes \cap e.no = {}
  BY DEF Counts
<1>2. ASSUME NEW p \in DOMAIN curr, curr[p].position \in acq
      PROVE  p \in (IF t \in curr[p].position THEN e.yes ELSE e.no)
  <2>1. CASE p \in P
    BY <2>1
  <2>2. CASE p \notin P
    BY <1>2, <2>2 DEF Counts
  <2> QED BY <2>1, <2>2
<1> QED BY <1>1, <1>2 DEF Counts

\* A new dispute records every position that is at hand.
LEMMA NewDispute ==
  ASSUME NEW curr, DOMAIN curr \subseteq Peers, NEW acq, NEW txns, NEW t,
         NEW d, d = newDispute(t, txns, curr, acq)
  PROVE  /\ d \in Disputes
         /\ d.our <=> t \in txns
         /\ Counts(d, t, curr, acq, {})
<1>1. /\ d.our = (t \in txns)
      /\ d.yes = {p \in DOMAIN curr : curr[p].position \in acq
                                      /\ t \in curr[p].position}
      /\ d.no = {p \in DOMAIN curr : curr[p].position \in acq
                                     /\ t \notin curr[p].position}
      /\ d = [our |-> d.our, yes |-> d.yes, no |-> d.no]
  BY DEF newDispute
<1>2. d.our \in BOOLEAN
  BY <1>1
<1>3. d.yes \subseteq Peers /\ d.no \subseteq Peers
  BY <1>1
<1>4. d \in Disputes
  BY <1>1, <1>2, <1>3, Zenon DEF Disputes
<1>5. Counts(d, t, curr, acq, {})
  BY <1>1 DEF Counts
<1> QED BY <1>1, <1>4, <1>5, Zenon

\* updateDisputes for the peers P that hold o restores full consistency.
LEMMA UpdateConsistent ==
  ASSUME NEW r \in Results, NEW curr, DOMAIN curr \subseteq Peers,
         NEW acq, NEW o \in TxSets, o \in acq,
         NEW P, P \subseteq Holders(curr, o),
         Consistent(r, curr, acq, P),
         NEW u, u = updateDisputes(r, P, o, curr, acq)
  PROVE  /\ u \in Results
         /\ u.txns = r.txns /\ u.start = r.start /\ u.seq = r.seq
         /\ Consistent(u, curr, acq, {})
<1>1. CASE P = {}
  <2>1. u = r
    BY <1>1 DEF updateDisputes
  <2> QED BY <2>1, <1>1
<1>2. CASE P # {}
  <2>0. P \subseteq Peers /\ P \subseteq DOMAIN curr /\ \A p \in P : curr[p].position = o
    BY DEF Holders
  <2>1. DisputesUpdated(u, r, P, o, curr, acq)
    BY <1>2, <2>0, UpdateDisputes
  <2>2. r.disputes \in [DOMAIN r.disputes -> Disputes] /\ r.txns \subseteq Txs
    BY ResultDisputes DEF Results, TxSets
  <2>3. ASSUME NEW t, NEW d \in Disputes
        PROVE  /\ setVotes(d, P, t \in o).our = d.our
               /\ t \in o => /\ setVotes(d, P, t \in o).yes = d.yes \cup P
                             /\ setVotes(d, P, t \in o).no = d.no \ P
               /\ t \notin o => /\ setVotes(d, P, t \in o).yes = d.yes \ P
                                /\ setVotes(d, P, t \in o).no = d.no \cup P
    BY Zenon DEF setVotes, Disputes
  \* Before the votes of P are set, every dispute of u, old or new, is right
  \* about everyone but P.
  <2>4. ASSUME NEW t \in DOMAIN u.disputes
        PROVE  \E d \in Disputes :
                   /\ u.disputes[t] = setVotes(d, P, t \in o)
                   /\ d.our <=> t \in r.txns
                   /\ Counts(d, t, curr, acq, P)
    <3>1. CASE t \in DOMAIN r.disputes
      <4>1. r.disputes[t] \in Disputes /\ u.disputes[t] = setVotes(r.disputes[t], P, t \in o)
        BY <3>1, <2>1, <2>2 DEF DisputesUpdated
      <4>2. (r.disputes[t].our <=> t \in r.txns) /\ Counts(r.disputes[t], t, curr, acq, P)
        BY <3>1 DEF Consistent, VotesExcept, OurVotes
      <4> QED BY <4>1, <4>2
    <3>2. CASE t \notin DOMAIN r.disputes
      <4> DEFINE d == newDispute(t, r.txns, curr, acq)
      <4>1. u.disputes[t] = setVotes(d, P, t \in o)
        BY <3>2, <2>1 DEF DisputesUpdated
      <4> HIDE DEF d
      <4>2. d \in Disputes /\ (d.our <=> t \in r.txns) /\ Counts(d, t, curr, acq, {})
        BY NewDispute DEF d
      <4>3. Counts(d, t, curr, acq, P)
        BY <4>2 DEF Counts
      <4> QED BY <4>1, <4>2, <4>3
    <3> QED BY <3>1, <3>2
  <2>5. ASSUME NEW t \in DOMAIN u.disputes
        PROVE  /\ Counts(u.disputes[t], t, curr, acq, {})
               /\ u.disputes[t].our <=> t \in u.txns
    <3>1. PICK d \in Disputes :
             /\ u.disputes[t] = setVotes(d, P, t \in o)
             /\ d.our <=> t \in r.txns
             /\ Counts(d, t, curr, acq, P)
      BY <2>4
    <3>2. u.txns = r.txns /\ u.disputes[t].our = d.our
      <4>1. u.txns = r.txns
        BY <2>1 DEF DisputesUpdated
      <4>2. u.disputes[t].our = d.our
        BY <2>3, <3>1
      <4> QED BY <4>1, <4>2
    <3>3. CASE t \in o
      <4>1. u.disputes[t].yes = d.yes \cup P /\ u.disputes[t].no = d.no \ P
        BY <2>3, <3>1, <3>3
      <4>2. Counts(u.disputes[t], t, curr, acq, {})
        BY <2>0, <3>1, <3>3, <4>1, CountsAfterVotes
      <4> QED BY <3>1, <3>2, <4>2
    <3>4. CASE t \notin o
      <4>1. u.disputes[t].yes = d.yes \ P /\ u.disputes[t].no = d.no \cup P
        BY <2>3, <3>1, <3>4
      <4>2. Counts(u.disputes[t], t, curr, acq, {})
        BY <2>0, <3>1, <3>4, <4>1, CountsAfterVotes
      <4> QED BY <3>1, <3>2, <4>2
    <3> QED BY <3>3, <3>4
  <2>6. VotesExcept(u, curr, acq, {}) /\ OurVotes(u)
    BY <2>5 DEF VotesExcept, OurVotes
  <2>7. HeldCompared(u, curr, acq, {})
    BY <2>0, <2>1 DEF Consistent, HeldCompared, DisputesUpdated
  <2>8. ComparedDisputed(u)
    BY <2>1, <2>2 DEF Consistent, ComparedDisputed, SymDiff, DisputesUpdated
  <2> QED BY <2>1, <2>6, <2>7, <2>8 DEF Consistent, DisputesUpdated
<1> QED BY <1>1, <1>2

\* A new position of p spoils the votes of p only.
LEMMA ConsistentPut ==
  ASSUME NEW r, NEW curr, NEW acq, NEW p, NEW prop,
         Consistent(r, curr, acq, {})
  PROVE  Consistent(r, Put(curr, p, prop), acq, {p})
<1> DEFINE c == Put(curr, p, prop)
<1>1. /\ DOMAIN c = DOMAIN curr \cup {p}
      /\ \A q \in DOMAIN c \ {p} : q \in DOMAIN curr /\ c[q] = curr[q]
  BY DEF Put
<1> HIDE DEF c
<1>2. VotesExcept(r, c, acq, {p})
  BY <1>1 DEF Consistent, VotesExcept, Counts
<1>3. HeldCompared(r, c, acq, {p})
  BY <1>1 DEF Consistent, HeldCompared
<1> QED BY <1>2, <1>3 DEF Consistent, c

\* A set that arrives spoils the votes of the peers that hold it only.
LEMMA ConsistentAcquire ==
  ASSUME NEW r, NEW curr, NEW acq, NEW o, NEW P,
         P \subseteq Holders(curr, o), Consistent(r, curr, acq, P)
  PROVE  Consistent(r, curr, acq \cup {o}, Holders(curr, o))
<1>1. \A q \in DOMAIN curr \ Holders(curr, o) :
         /\ q \notin P
         /\ curr[q].position \in acq \cup {o} => curr[q].position \in acq
  BY DEF Holders
<1>2. VotesExcept(r, curr, acq \cup {o}, Holders(curr, o))
  BY <1>1 DEF Consistent, VotesExcept, Counts
<1>3. HeldCompared(r, curr, acq \cup {o}, Holders(curr, o))
  BY <1>1 DEF Consistent, HeldCompared
<1> QED BY <1>2, <1>3 DEF Consistent

\* Taking out the peers S and their votes keeps the rest consistent.
LEMMA ConsistentDrop ==
  ASSUME NEW r \in Results, NEW curr, NEW acq, NEW S, NEW T,
         DOMAIN curr \subseteq S \cup T, S \cap T = {},
         Consistent(r, curr, acq, {})
  PROVE  /\ withoutVotes(r, S) \in Results
         /\ withoutVotes(r, S).txns = r.txns
         /\ withoutVotes(r, S).start = r.start
         /\ withoutVotes(r, S).seq = r.seq
         /\ Consistent(withoutVotes(r, S), Keep(curr, T), acq, {})
<1> DEFINE f == [t \in DOMAIN r.disputes |-> unVotes(r.disputes[t], S)]
           w == withoutVotes(r, S)
           c == Keep(curr, T)
<1>1. DOMAIN r.disputes \subseteq Txs /\ r.disputes \in [DOMAIN r.disputes -> Disputes]
  BY ResultDisputes
<1>2. ASSUME NEW d \in Disputes
      PROVE  /\ unVotes(d, S) \in Disputes
             /\ unVotes(d, S).our = d.our
             /\ unVotes(d, S).yes = d.yes \ S
             /\ unVotes(d, S).no = d.no \ S
  BY Zenon DEF unVotes, Disputes
<1>3. f \in [DOMAIN r.disputes -> Disputes]
  BY <1>1, <1>2
<1>4. f \in UNION {[E -> Disputes] : E \in SUBSET Txs}
  BY <1>1, <1>3, DisputeMap
<1>5. w = [r EXCEPT !.disputes = f]
  BY DEF withoutVotes, Results
<1> HIDE DEF f
<1>6. /\ w \in Results /\ w.txns = r.txns /\ w.start = r.start /\ w.seq = r.seq
      /\ w.disputes = f /\ w.compares = r.compares
  BY <1>4, <1>5 DEF Results
<1> HIDE DEF w
<1>7. DOMAIN w.disputes = DOMAIN r.disputes
      /\ \A t \in DOMAIN r.disputes :
            /\ r.disputes[t] \in Disputes
            /\ w.disputes[t] = unVotes(r.disputes[t], S)
  BY <1>1, <1>6 DEF f
<1>8. DOMAIN c \subseteq DOMAIN curr /\ DOMAIN c = DOMAIN curr \ S
      /\ \A p \in DOMAIN c : c[p] = curr[p]
  BY DEF Keep
<1> HIDE DEF c
<1>9. VotesExcept(w, c, acq, {})
  <2>1. ASSUME NEW t \in DOMAIN w.disputes PROVE Counts(w.disputes[t], t, c, acq, {})
    <3>1. Counts(r.disputes[t], t, curr, acq, {})
      BY <1>7 DEF Consistent, VotesExcept
    <3>2. /\ w.disputes[t].yes = r.disputes[t].yes \ S
          /\ w.disputes[t].no = r.disputes[t].no \ S
      BY <1>2, <1>7
    <3> DEFINE d == r.disputes[t]
               e == w.disputes[t]
    <3>3. Counts(d, t, curr, acq, {}) /\ e.yes = d.yes \ S /\ e.no = d.no \ S
      BY <3>1, <3>2
    <3> HIDE DEF d, e
    <3>4. e.yes \cup e.no \subseteq DOMAIN c /\ e.yes \cap e.no = {}
      BY <1>8, <3>3 DEF Counts
    <3>5. ASSUME NEW p \in DOMAIN c, c[p].position \in acq
          PROVE  p \in (IF t \in c[p].position THEN e.yes ELSE e.no)
      <4>1. p \in DOMAIN curr /\ p \notin S /\ c[p] = curr[p]
        BY <1>8
      <4>2. p \in (IF t \in curr[p].position THEN d.yes ELSE d.no)
        BY <3>3, <3>5, <4>1 DEF Counts
      <4> QED BY <3>3, <4>1, <4>2
    <3>6. Counts(e, t, c, acq, {})
      BY <3>4, <3>5 DEF Counts
    <3> QED BY <3>6 DEF e
  <2> QED BY <2>1 DEF VotesExcept
<1>10. OurVotes(w)
  <2>1. ASSUME NEW t \in DOMAIN w.disputes
        PROVE  w.disputes[t].our <=> t \in w.txns
    <3>1. w.disputes[t].our = r.disputes[t].our
      BY <1>2, <1>7
    <3>2. r.disputes[t].our <=> t \in r.txns
      BY <1>7 DEF Consistent, OurVotes
    <3> QED BY <1>6, <3>1, <3>2
  <2> QED BY <2>1 DEF OurVotes
<1>11. HeldCompared(w, c, acq, {}) /\ ComparedDisputed(w)
  BY <1>6, <1>7, <1>8 DEF Consistent, HeldCompared, ComparedDisputed
<1> QED BY <1>6, <1>9, <1>10, <1>11 DEF Consistent, c, w
=============================================================================
