--------------------------- MODULE Consensus_proofs ---------------------------
(***************************************************************************)
(* Proofs that the engine keeps its positions, votes and disputes          *)
(* consistent, for any number of peers, transactions and ledgers and       *)
(* without the bounds on the clock and on nested timerEntry calls.         *)
(***************************************************************************)
EXTENDS ConsensusDisputes_proofs

-----------------------------------------------------------------------------
(* The inductive invariant *)

\* Beyond the properties of Consensus: the round has not started in the
\* future, the votes and comparisons are consistent in the stronger sense
\* above, and a timerEntry that has not returned is on the stack.
Sound(r, curr, acq) ==
    r # NoResult => /\ r.start <= now
                    /\ r.txns \in acq
                    /\ Consistent(r, curr, acq, {})

IInv ==
    /\ TypeOK
    /\ ResultMatchesPhase
    /\ Sound(result, currPeerPositions, acquired)
    /\ PositionsOfThisRound
    /\ WrongLedgerKnown
    /\ pc \in {"check", "wrong", "phase"} => depth > 0

\* The part of IInv that a proposal or a transaction set can disturb.
PositionsTyped ==
    /\ acquired \subseteq TxSets
    /\ result \in Results \cup {NoResult}
    /\ DOMAIN currPeerPositions \subseteq Peers
    /\ currPeerPositions \in [DOMAIN currPeerPositions -> Proposals]
    /\ deadNodes \subseteq Peers

\* gotTxSet for a set that is new keeps a result sound.
LEMMA DisputesWithSetSound ==
  ASSUME result \in Results, acquired \subseteq TxSets,
         NEW curr, DOMAIN curr \subseteq Peers, NEW o \in TxSets, o \notin acquired,
         NEW P, P \subseteq Holders(curr, o),
         Consistent(result, curr, acquired, P),
         NEW u, u = disputesWithSet(o, curr)
  PROVE  /\ u \in Results
         /\ u.txns = result.txns /\ u.start = result.start /\ u.seq = result.seq
         /\ Consistent(u, curr, acquired \cup {o}, {})
<1> DEFINE H == Holders(curr, o)
           acq == acquired \cup {o}
<1>1. Consistent(result, curr, acq, H)
  BY ConsistentAcquire
<1>2. u = updateDisputes(result, H, o, curr, acq)
  BY ConstantsAssumption DEF disputesWithSet
<1>3. H \subseteq Holders(curr, o) /\ o \in acq
  OBVIOUS
<1> HIDE DEF H, acq
<1>4. /\ u \in Results
      /\ u.txns = result.txns /\ u.start = result.start /\ u.seq = result.seq
      /\ Consistent(u, curr, acq, {})
  BY <1>1, <1>2, <1>3, UpdateConsistent
<1> QED BY <1>4 DEF acq

LEMMA PeerProposalInternalSound ==
  ASSUME PositionsTyped, Sound(result, currPeerPositions, acquired),
         PositionsOfThisRound,
         NEW p \in Peers, NEW prop \in Proposals, NEW have,
         peerProposalInternal(p, prop, have),
         now' = now, prevLedgerID' = prevLedgerID
  PROVE  /\ PositionsTyped'
         /\ Sound(result, currPeerPositions, acquired)'
         /\ PositionsOfThisRound'
         /\ (result' = NoResult) = (result = NoResult)
         /\ phase = "accepted" => result' = result
<1> USE ConstantsAssumption
<1>1. CASE ~admissible(p, prop)
  <2>1. UNCHANGED positionVars
    BY <1>1 DEF peerProposalInternal
  <2> QED BY <2>1 DEF positionVars, PositionsTyped, Sound, PositionsOfThisRound
<1>2. CASE admissible(p, prop) /\ prop.seq = SeqLeave
  <2>1. /\ result' = IF result = NoResult THEN result ELSE withoutVotes(result, {p})
        /\ currPeerPositions' = Keep(currPeerPositions, Peers \ {p})
        /\ deadNodes' = deadNodes \cup {p}
        /\ acquired' = acquired
    BY <1>2 DEF peerProposalInternal
  <2>2. /\ DOMAIN currPeerPositions' = DOMAIN currPeerPositions \ {p}
        /\ \A q \in DOMAIN currPeerPositions' : currPeerPositions'[q] = currPeerPositions[q]
        /\ currPeerPositions' \in [DOMAIN currPeerPositions' -> Proposals]
    BY <2>1 DEF Keep, PositionsTyped
  <2>3. CASE result = NoResult
    BY <1>2, <2>1, <2>2, <2>3, Zenon DEF PositionsTyped, Sound, PositionsOfThisRound, admissible
  <2>4. CASE result # NoResult
    <3>1. result \in Results /\ Consistent(result, currPeerPositions, acquired, {})
      BY <2>4 DEF PositionsTyped, Sound
    <3>2. /\ DOMAIN currPeerPositions \subseteq {p} \cup (Peers \ {p})
          /\ {p} \cap (Peers \ {p}) = {}
      BY DEF PositionsTyped
    <3>3. /\ result' \in Results /\ result'.txns = result.txns
          /\ result'.start = result.start
          /\ Consistent(result', currPeerPositions', acquired, {})
      BY <2>1, <2>4, <3>1, <3>2, ConsistentDrop
    <3> QED BY <1>2, <2>1, <2>2, <2>4, <3>3, Zenon
            DEF PositionsTyped, Sound, PositionsOfThisRound, admissible
  <2> QED BY <2>3, <2>4
<1>3. CASE admissible(p, prop) /\ prop.seq # SeqLeave
  <2> DEFINE curr == Put(currPeerPositions, p, prop)
  <2>1. currPeerPositions' = curr /\ deadNodes' = deadNodes
    BY <1>3 DEF peerProposalInternal
  <2>2. /\ DOMAIN curr = DOMAIN currPeerPositions \cup {p}
        /\ curr[p] = prop
        /\ \A q \in DOMAIN curr \ {p} :
              q \in DOMAIN currPeerPositions /\ curr[q] = currPeerPositions[q]
    BY DEF Put
  <2>3. DOMAIN curr \subseteq Peers /\ curr \in [DOMAIN curr -> Proposals]
    BY DEF Put, PositionsTyped
  <2>4. prop.position \in TxSets
    BY DEF Proposals
  <2>5. result \in Results => (result # NoResult)
    OBVIOUS
  <2> HIDE DEF curr
  <2>6. PositionsOfThisRound'
    BY <1>3, <2>1, <2>2 DEF PositionsOfThisRound, admissible
  <2>7. CASE prop.position \notin acquired /\ ~have
    <3>1. acquired' = acquired /\ result' = result
      BY <1>3, <2>7 DEF peerProposalInternal
    <3>2. ASSUME result # NoResult
          PROVE  Consistent(result, curr, acquired, {})
      <4>1. Consistent(result, curr, acquired, {p})
        BY <3>2, ConsistentPut DEF Sound, curr
      <4>2. curr[p].position \notin acquired
        BY <2>2, <2>7
      <4> QED BY <4>1, <4>2 DEF Consistent, VotesExcept, Counts, HeldCompared
    <3> QED BY <2>1, <2>3, <2>6, <3>1, <3>2 DEF PositionsTyped, Sound
  <2>8. CASE result = NoResult
    <3>1. result' = result /\ (acquired' = acquired \/ acquired' = acquired \cup {prop.position})
      BY <1>3, <2>8 DEF peerProposalInternal, disputesWithSet
    <3> QED BY <2>1, <2>3, <2>4, <2>6, <2>8, <3>1 DEF PositionsTyped, Sound
  <2>9. CASE result # NoResult /\ prop.position \in acquired
    <3>1. acquired' = acquired
          /\ result' = updateDisputes(result, {p}, prop.position, curr, acquired)
      BY <1>3, <2>1, <2>9 DEF peerProposalInternal
    <3>2. result \in Results /\ Consistent(result, curr, acquired, {p})
      BY <2>9, ConsistentPut DEF PositionsTyped, Sound, curr
    <3>3. {p} \subseteq Holders(curr, prop.position)
      BY <2>2 DEF Holders
    <3>4. /\ result' \in Results /\ result'.txns = result.txns
          /\ result'.start = result.start
          /\ Consistent(result', curr, acquired, {})
      BY <2>3, <2>4, <2>9, <3>1, <3>2, <3>3, UpdateConsistent
    <3> QED BY <1>3, <2>1, <2>3, <2>5, <2>6, <2>9, <3>1, <3>4
            DEF PositionsTyped, Sound, admissible
  <2>10. CASE result # NoResult /\ prop.position \notin acquired /\ have
    <3>1. acquired' = acquired \cup {prop.position}
          /\ result' = disputesWithSet(prop.position, curr)
      BY <1>3, <2>1, <2>10 DEF peerProposalInternal
    <3>2. result \in Results /\ Consistent(result, curr, acquired, {p})
      BY <2>10, ConsistentPut DEF PositionsTyped, Sound, curr
    <3>3. {p} \subseteq Holders(curr, prop.position) /\ acquired \subseteq TxSets
      BY <2>2 DEF Holders, PositionsTyped
    <3>4. /\ result' \in Results /\ result'.txns = result.txns
          /\ result'.start = result.start
          /\ Consistent(result', curr, acquired', {})
      BY <2>3, <2>4, <2>10, <3>1, <3>2, <3>3, DisputesWithSetSound
    <3> QED BY <1>3, <2>1, <2>3, <2>4, <2>5, <2>6, <2>10, <3>1, <3>4
            DEF PositionsTyped, Sound, admissible
  <2> QED BY <2>7, <2>8, <2>9, <2>10
<1> QED BY <1>1, <1>2, <1>3

-----------------------------------------------------------------------------
(* Every step preserves the invariant *)

LEMMA RememberType ==
  ASSUME NEW props \in Seq(Proposals), NEW prop \in Proposals
  PROVE  remember(props, prop) \in Seq(Proposals)
<1>1. CASE Len(props) >= RecentLimit
  <2>1. props # <<>>
    BY <1>1, ConstantsAssumption
  <2>2. Tail(props) \in Seq(Proposals)
    BY <2>1
  <2> QED BY <1>1, <2>2 DEF remember
<1>2. CASE ~(Len(props) >= RecentLimit)
  BY <1>2 DEF remember
<1> QED BY <1>1, <1>2

LEMMA TypedPositions ==
  ASSUME TypeOK PROVE PositionsTyped
BY DEF TypeOK, PositionsTyped

LEMMA PeerProposalStep ==
  ASSUME IInv, PeerProposal PROVE IInv'
<1>1. PICK m \in PeerMessages, have \in BOOLEAN : peerProposal(m.node, received(m), have)
  BY Zenon DEF PeerProposal, MayHave
<1> DEFINE p == m.node
           prop == received(m)
<1>2. TypeOK /\ PositionsTyped
  BY TypedPositions DEF IInv
<1>3. m \in Messages
  BY ConstantsAssumption
<1>4. p \in Peers /\ prop \in Proposals
  BY <1>2, <1>3, ConstantsAssumption DEF Messages, Proposals, received, TypeOK
<1> HIDE DEF p, prop
<1>5. /\ recentPeerPositions' = [recentPeerPositions EXCEPT ![p] = remember(@, prop)]
      /\ peerProposalInternal(p, prop, have)
      /\ UNCHANGED <<now, standalone, phase, mode, roundVars, ledgerVars,
                     proposed, pc, depth, played>>
  BY <1>1 DEF peerProposal, p, prop, envVars, controlVars
<1>6. recentPeerPositions' \in [Peers -> Seq(Proposals)]
  BY <1>2, <1>4, <1>5, RememberType DEF TypeOK
<1>7. /\ PositionsTyped' /\ Sound(result, currPeerPositions, acquired)'
      /\ PositionsOfThisRound' /\ (result' = NoResult) = (result = NoResult)
  BY <1>2, <1>4, <1>5, PeerProposalInternalSound DEF IInv, ledgerVars
<1>8. TypeOK'
  BY <1>2, <1>5, <1>6, <1>7 DEF TypeOK, PositionsTyped, roundVars, ledgerVars
<1>9. ResultMatchesPhase' /\ WrongLedgerKnown' /\ (pc \in {"check", "wrong", "phase"} => depth > 0)'
  BY <1>5, <1>7 DEF IInv, ResultMatchesPhase, WrongLedgerKnown, ledgerVars
<1> QED BY <1>7, <1>8, <1>9 DEF IInv

LEMMA PlaybackStep ==
  ASSUME IInv, Playback PROVE IInv'
<1>1. PICK p \in Peers, have \in BOOLEAN : playback(p, have)
  BY Zenon DEF Playback, MayHave
<1> DEFINE prop == recentPeerPositions[p][played[p] + 1]
<1>2. TypeOK /\ PositionsTyped
  BY TypedPositions DEF IInv
<1>3. /\ played[p] < Len(recentPeerPositions[p])
      /\ played' = [played EXCEPT ![p] = @ + 1]
      /\ peerProposalInternal(p, prop, have)
      /\ UNCHANGED <<now, standalone, phase, mode, roundVars, ledgerVars,
                     recentPeerPositions, proposed, pc, depth>>
  BY <1>1 DEF playback, envVars
<1>4. prop \in Proposals
  <2>1. recentPeerPositions[p] \in Seq(Proposals) /\ played[p] \in Nat
    BY <1>2 DEF TypeOK
  <2>2. played[p] + 1 \in 1..Len(recentPeerPositions[p])
    BY <1>3, <2>1
  <2> QED BY <2>1, <2>2
<1> HIDE DEF prop
<1>5. /\ PositionsTyped' /\ Sound(result, currPeerPositions, acquired)'
      /\ PositionsOfThisRound' /\ (result' = NoResult) = (result = NoResult)
  BY <1>2, <1>3, <1>4, PeerProposalInternalSound DEF IInv, ledgerVars
<1>6. played' \in [Peers -> Nat]
  BY <1>2, <1>3 DEF TypeOK
<1>7. TypeOK'
  BY <1>2, <1>3, <1>5, <1>6 DEF TypeOK, PositionsTyped, roundVars, ledgerVars
<1>8. ResultMatchesPhase' /\ WrongLedgerKnown' /\ (pc \in {"check", "wrong", "phase"} => depth > 0)'
  BY <1>3, <1>5 DEF IInv, ResultMatchesPhase, WrongLedgerKnown, ledgerVars
<1> QED BY <1>5, <1>7, <1>8 DEF IInv

LEMMA GotTxSetStep ==
  ASSUME IInv, GotTxSet PROVE IInv'
<1>1. PICK o \in TxSets : gotTxSet(o)
  BY DEF GotTxSet
<1>2. TypeOK /\ PositionsTyped
  BY TypedPositions DEF IInv
<1>3. /\ acquired' = acquired \cup {o}
      /\ result' = disputesWithSet(o, currPeerPositions)
      /\ UNCHANGED <<now, standalone, phase, mode, roundVars, ledgerVars,
                     currPeerPositions, recentPeerPositions, deadNodes, proposed,
                     pc, depth, played>>
  BY <1>1 DEF gotTxSet, envVars, controlVars
<1>4. /\ result' \in Results \cup {NoResult} /\ (result' = NoResult) = (result = NoResult)
      /\ Sound(result, currPeerPositions, acquired)'
  <2>1. CASE o \in acquired \/ result = NoResult
    <3>1. result' = result /\ (o \in acquired => acquired' = acquired)
      BY <1>3, <2>1 DEF disputesWithSet
    <3> QED BY <1>2, <1>3, <2>1, <3>1 DEF PositionsTyped, IInv, Sound
  <2>2. CASE o \notin acquired /\ result # NoResult
    <3>1. result \in Results /\ acquired \subseteq TxSets
          /\ DOMAIN currPeerPositions \subseteq Peers
          /\ {} \subseteq Holders(currPeerPositions, o)
          /\ Consistent(result, currPeerPositions, acquired, {})
      BY <1>2, <2>2 DEF PositionsTyped, IInv, Sound
    <3>2. /\ result' \in Results
          /\ result'.txns = result.txns /\ result'.start = result.start
          /\ Consistent(result', currPeerPositions, acquired \cup {o}, {})
      BY <1>3, <2>2, <3>1, DisputesWithSetSound
    <3> QED BY <1>3, <2>2, <3>2, ConstantsAssumption DEF IInv, Sound
  <2> QED BY <2>1, <2>2
<1>5. TypeOK'
  BY <1>2, <1>3, <1>4 DEF TypeOK, roundVars, ledgerVars
<1>6. ResultMatchesPhase' /\ WrongLedgerKnown' /\ PositionsOfThisRound'
      /\ (pc \in {"check", "wrong", "phase"} => depth > 0)'
  BY <1>3, <1>4 DEF IInv, ResultMatchesPhase, WrongLedgerKnown, PositionsOfThisRound, ledgerVars
<1> QED BY <1>4, <1>5, <1>6 DEF IInv

LEMMA NothingIs == /\ DOMAIN Nothing = {}
                   /\ Nothing \in [DOMAIN Nothing -> Proposals]
                   /\ Nothing \in UNION {[E -> Disputes] : E \in SUBSET Txs}
<1>1. {} \in SUBSET Txs /\ Nothing \in [{} -> Disputes]
  BY DEF Nothing
<1>2. Nothing \in UNION {[E -> Disputes] : E \in SUBSET Txs}
  BY <1>1, DisputeMap
<1> QED BY <1>2 DEF Nothing

\* Starting a round establishes the invariant for the positions and the ledger.
LEMMA StartRoundInternalSound ==
  ASSUME TypeOK, NEW id \in Ledgers, NEW ledger \in Ledgers, NEW newMode \in Modes,
         id # ledger => newMode = "wrongLedger",
         startRoundInternal(id, ledger, newMode)
  PROVE  /\ phase' \in Phases /\ mode' \in Modes
         /\ prevLedgerID' \in Ledgers /\ previousLedger' \in Ledgers
         /\ openStart' \in Nat /\ closedAt' \in Nat
         /\ PositionsTyped' /\ pc' = "round" /\ played' \in [Peers -> Nat]
         /\ ResultMatchesPhase' /\ Sound(result, currPeerPositions, acquired)'
         /\ PositionsOfThisRound' /\ WrongLedgerKnown'
<1> USE DEF startRoundInternal
<1>1. PositionsTyped' /\ PositionsOfThisRound'
  BY NothingIs DEF PositionsTyped, PositionsOfThisRound
<1>2. ResultMatchesPhase' /\ Sound(result, currPeerPositions, acquired)'
  BY DEF ResultMatchesPhase, Sound
<1>3. WrongLedgerKnown'
  BY DEF WrongLedgerKnown
<1> QED BY <1>1, <1>2, <1>3 DEF TypeOK, Phases

LEMMA StartRoundStep ==
  ASSUME IInv, StartRound PROVE IInv'
<1>1. PICK net \in Ledgers, ledger \in Ledgers, have \in BOOLEAN, proposing \in BOOLEAN,
           nowUntrusted \in TrustChanges :
        startRound(net, ledger, have, nowUntrusted, proposing)
  BY DEF StartRound
<1>2. TypeOK
  BY DEF IInv
<1>3. /\ phase' \in Phases /\ mode' \in Modes
      /\ prevLedgerID' \in Ledgers /\ previousLedger' \in Ledgers
      /\ openStart' \in Nat /\ closedAt' \in Nat
      /\ PositionsTyped' /\ pc' = "round" /\ played' \in [Peers -> Nat]
      /\ ResultMatchesPhase' /\ Sound(result, currPeerPositions, acquired)'
      /\ PositionsOfThisRound' /\ WrongLedgerKnown'
  <2>1. CASE net = ledger \/ have
    <3> DEFINE md == IF proposing THEN "proposing" ELSE "observing"
    <3>1. startRoundInternal(net, net, md) /\ md \in Modes
      BY <1>1, <2>1 DEF startRound, Modes
    <3> HIDE DEF md
    <3> QED BY <1>2, <3>1, StartRoundInternalSound
  <2>2. CASE ~(net = ledger \/ have)
    <3>1. startRoundInternal(net, ledger, "wrongLedger") /\ "wrongLedger" \in Modes
      BY <1>1, <2>2 DEF startRound, Modes
    <3> QED BY <1>2, <3>1, StartRoundInternalSound
  <2> QED BY <2>1, <2>2
<1>4. /\ firstRound' = FALSE
      /\ prevRoundTime' = IF firstRound THEN ledgerIDLE_INTERVAL ELSE prevRoundTime
      /\ prevCloseTime' = IF firstRound THEN LedgerInfo[ledger].closeTime ELSE closedAt
      /\ recentPeerPositions' = [p \in Peers |->
            IF p \in nowUntrusted THEN <<>> ELSE recentPeerPositions[p]]
      /\ proposed' = <<>>
      /\ UNCHANGED <<now, standalone, prevProposers, depth>>
  BY <1>1 DEF startRound, envVars
<1>5. LedgerInfo[ledger].closeTime \in Nat /\ ledgerIDLE_INTERVAL \in Nat
  BY ConstantsAssumption DEF Headers
<1>6. recentPeerPositions' \in [Peers -> Seq(Proposals)]
  BY <1>2, <1>4 DEF TypeOK
<1>6a. /\ firstRound' \in BOOLEAN
       /\ prevRoundTime' \in Nat /\ prevCloseTime' \in Nat
       /\ proposed' \in Seq([seq : Nat, position : TxSets])
  <2>1. firstRound' \in BOOLEAN
    BY <1>4, Zenon
  <2>2. prevRoundTime' \in Nat
    BY <1>2, <1>4, <1>5 DEF TypeOK
  <2>3. prevCloseTime' \in Nat
    BY <1>2, <1>4, <1>5 DEF TypeOK
  <2>4. proposed' \in Seq([seq : Nat, position : TxSets])
    BY <1>4
  <2> QED BY <2>1, <2>2, <2>3, <2>4
<1>6b. /\ now' \in Nat /\ standalone' \in BOOLEAN
       /\ prevProposers' \in Nat /\ depth' \in Nat
       /\ pc' \in {"idle", "check", "wrong", "round", "phase"}
  BY <1>2, <1>3, <1>4 DEF TypeOK
<1>7. TypeOK'
  BY <1>3, <1>6, <1>6a, <1>6b DEF TypeOK, PositionsTyped
<1> QED BY <1>3, <1>7 DEF IInv

LEMMA RoundReplayedStep ==
  ASSUME IInv, roundReplayed PROVE IInv'
<1>1. /\ UNCHANGED <<now, standalone, phase, mode, roundVars, ledgerVars, positionVars,
                     recentPeerPositions, proposed>>
      /\ played' = [p \in Peers |-> 0]
      /\ \/ pc' = "check" /\ depth' = depth + 1
         \/ pc' = (IF depth > 0 THEN "phase" ELSE "idle") /\ depth' = depth
      /\ pc = "round"
  BY DEF roundReplayed, envVars
<1>2. TypeOK'
  BY <1>1 DEF IInv, TypeOK, roundVars, ledgerVars, positionVars
<1>3. ResultMatchesPhase' /\ Sound(result, currPeerPositions, acquired)' /\ PositionsOfThisRound'
  BY <1>1 DEF IInv, ResultMatchesPhase, Sound, PositionsOfThisRound, ledgerVars, positionVars
<1>4. WrongLedgerKnown' /\ (pc \in {"check", "wrong", "phase"} => depth > 0)'
  BY <1>1 DEF IInv, TypeOK, WrongLedgerKnown, ledgerVars
<1> QED BY <1>2, <1>3, <1>4 DEF IInv

LEMMA TickStep ==
  ASSUME IInv, tick PROVE IInv'
<1>1. /\ UNCHANGED <<standalone, phase, mode, roundVars, ledgerVars, positionVars,
                     recentPeerPositions, proposed, pc, depth, played>>
      /\ now' = now + 1
  BY DEF tick, controlVars
<1>2. TypeOK'
  BY <1>1 DEF IInv, TypeOK, roundVars, ledgerVars, positionVars
<1>3. Sound(result, currPeerPositions, acquired)'
  <2>1. ASSUME result # NoResult PROVE result.start <= now + 1
    BY <2>1 DEF IInv, TypeOK, Sound, Results
  <2> QED BY <1>1, <2>1 DEF IInv, Sound, positionVars
<1>4. ResultMatchesPhase' /\ PositionsOfThisRound' /\ WrongLedgerKnown'
      /\ (pc \in {"check", "wrong", "phase"} => depth > 0)'
  BY <1>1 DEF IInv, ResultMatchesPhase, PositionsOfThisRound, WrongLedgerKnown, ledgerVars, positionVars
<1> QED BY <1>2, <1>3, <1>4 DEF IInv

\* Consistency looks at the set, the disputes and the comparisons only.
LEMMA ConsistentSame ==
  ASSUME NEW r, NEW s, NEW curr, NEW acq, NEW P,
         s.txns = r.txns, s.disputes = r.disputes, s.compares = r.compares,
         Consistent(r, curr, acq, P)
  PROVE  Consistent(s, curr, acq, P)
BY DEF Consistent, VotesExcept, OurVotes, HeldCompared, ComparedDisputed

\* A result without disputes and comparisons fits the absence of positions.
LEMMA ConsistentNothing ==
  ASSUME NEW r, NEW acq, r.disputes = Nothing, r.compares = {}
  PROVE  Consistent(r, Nothing, acq, {})
BY NothingIs DEF Consistent, VotesExcept, OurVotes, HeldCompared, ComparedDisputed

LEMMA ProposeType ==
  ASSUME proposed \in Seq([seq : Nat, position : TxSets]), NEW r \in Results
  PROVE  propose(r) \in Seq([seq : Nat, position : TxSets])
<1>1. [seq |-> r.seq, position |-> r.txns] \in [seq : Nat, position : TxSets]
  BY DEF Results
<1> QED BY <1>1 DEF propose

LEMMA BowOutType ==
  ASSUME TypeOK, NEW r \in Results
  PROVE  /\ bowOut(r) \in Results
         /\ bowOut(r).txns = r.txns /\ bowOut(r).start = r.start
         /\ bowOut(r).disputes = r.disputes /\ bowOut(r).compares = r.compares
BY ConstantsAssumption, Zenon DEF bowOut, Results, TypeOK

LEMMA LeaveConsensusType ==
  ASSUME TypeOK, leaveConsensus
  PROVE  /\ mode' \in Modes /\ mode' # "proposing"
         /\ proposed' \in Seq([seq : Nat, position : TxSets])
<1>1. mode' \in Modes /\ mode' # "proposing"
  BY DEF TypeOK, leaveConsensus, Modes
<1>2. CASE bowingOut
  <2>1. result \in Results
    BY <1>2 DEF TypeOK, bowingOut
  <2>2. propose(bowOut(result)) \in Seq([seq : Nat, position : TxSets])
    BY <2>1, BowOutType, ProposeType, Zenon DEF TypeOK
  <2> QED BY <1>1, <1>2, <2>2 DEF leaveConsensus
<1>3. CASE ~bowingOut
  BY <1>1, <1>3 DEF leaveConsensus, TypeOK
<1> QED BY <1>2, <1>3

LEMMA CheckLedgerSound ==
  ASSUME IInv, NEW net \in Ledgers, checkLedger(net),
         UNCHANGED <<now, phase, previousLedger>>
  PROVE  /\ mode' \in Modes /\ prevLedgerID' \in Ledgers
         /\ PositionsTyped' /\ pc' \in {"phase", "wrong"} /\ played' \in [Peers -> Nat]
         /\ proposed' \in Seq([seq : Nat, position : TxSets])
         /\ ResultMatchesPhase' /\ Sound(result, currPeerPositions, acquired)'
         /\ PositionsOfThisRound' /\ WrongLedgerKnown'
<1>0. TypeOK /\ PositionsTyped
  BY TypedPositions DEF IInv
<1>1. CASE net = prevLedgerID /\ previousLedger = prevLedgerID
  <2>1. pc' = "phase" /\ UNCHANGED <<mode, prevLedgerID, positionVars, proposed, played>>
    BY <1>1 DEF checkLedger
  <2> QED BY <1>0, <1>1, <2>1 DEF IInv, TypeOK, PositionsTyped, positionVars,
             ResultMatchesPhase, Sound, PositionsOfThisRound, WrongLedgerKnown
<1>2. CASE net = prevLedgerID /\ previousLedger # prevLedgerID
  <2>1. /\ leaveConsensus
        /\ result' = IF result = NoResult THEN result ELSE bowOut(result)
        /\ pc' = "wrong"
        /\ played' = [p \in Peers |-> Len(recentPeerPositions[p])]
        /\ UNCHANGED <<prevLedgerID, acquired, currPeerPositions, deadNodes>>
    BY <1>2 DEF checkLedger
  <2>2. played' \in [Peers -> Nat]
    BY <1>0, <2>1 DEF TypeOK
  <2>3. /\ result' \in Results \cup {NoResult} /\ (result' = NoResult) = (result = NoResult)
        /\ Sound(result, currPeerPositions, acquired)'
    <3>1. CASE result = NoResult
      BY <2>1, <3>1 DEF Sound
    <3>2. CASE result # NoResult
      <4>1. result \in Results /\ result.start <= now /\ result.txns \in acquired
            /\ Consistent(result, currPeerPositions, acquired, {})
        BY <1>0, <3>2 DEF TypeOK, IInv, Sound
      <4>2. result' \in Results /\ result'.txns = result.txns /\ result'.start = result.start
            /\ result'.disputes = result.disputes /\ result'.compares = result.compares
        BY <1>0, <2>1, <3>2, <4>1, BowOutType
      <4>3. Consistent(result', currPeerPositions, acquired, {})
        BY <4>1, <4>2, ConsistentSame
      <4> QED BY <2>1, <3>2, <4>1, <4>2, <4>3, ConstantsAssumption DEF Sound
    <3> QED BY <3>1, <3>2
  <2> QED BY <1>0, <2>1, <2>2, <2>3, LeaveConsensusType
          DEF IInv, TypeOK, PositionsTyped, ResultMatchesPhase, PositionsOfThisRound, WrongLedgerKnown
<1>3. CASE net # prevLedgerID
  <2>1. /\ leaveConsensus
        /\ prevLedgerID' = net
        /\ result' = IF result = NoResult THEN result
                     ELSE [bowOut(result) EXCEPT !.disputes = Nothing, !.compares = {}]
        /\ currPeerPositions' = Nothing
        /\ deadNodes' = {}
        /\ pc' = "wrong"
        /\ played' = [p \in Peers |-> 0]
        /\ acquired' = acquired
    BY <1>3 DEF checkLedger
  <2>2. played' \in [Peers -> Nat]
    BY <2>1
  <2>3. /\ result' \in Results \cup {NoResult} /\ (result' = NoResult) = (result = NoResult)
        /\ Sound(result, currPeerPositions, acquired)'
    <3>1. CASE result = NoResult
      BY <2>1, <3>1 DEF Sound
    <3>2. CASE result # NoResult
      <4>1. result \in Results /\ result.start <= now /\ result.txns \in acquired
        BY <1>0, <3>2 DEF TypeOK, IInv, Sound
      <4>2. bowOut(result) \in Results /\ bowOut(result).txns = result.txns
            /\ bowOut(result).start = result.start
        BY <1>0, <4>1, BowOutType
      <4>3. result' \in Results /\ result'.txns = result.txns /\ result'.start = result.start
            /\ result'.disputes = Nothing /\ result'.compares = {}
        BY <2>1, <3>2, <4>2, NothingIs, Zenon DEF Results
      <4>4. Consistent(result', Nothing, acquired, {})
        BY <4>3, ConsistentNothing
      <4> QED BY <2>1, <3>2, <4>1, <4>3, <4>4, ConstantsAssumption DEF Sound
    <3> QED BY <3>1, <3>2
  <2>4. PositionsTyped' /\ PositionsOfThisRound'
    BY <1>0, <2>1, <2>3, NothingIs DEF PositionsTyped, PositionsOfThisRound
  <2>5. ResultMatchesPhase'
    BY <2>3 DEF IInv, ResultMatchesPhase
  <2>6. mode' \in Modes /\ WrongLedgerKnown' /\ proposed' \in Seq([seq : Nat, position : TxSets])
    BY <1>0, <2>1, LeaveConsensusType DEF WrongLedgerKnown
  <2> QED BY <2>1, <2>2, <2>3, <2>4, <2>5, <2>6
<1> QED BY <1>1, <1>2, <1>3

LEMMA TimerEntryStep ==
  ASSUME IInv, TimerEntry \/ NestedTimerEntry PROVE IInv'
<1>1. PICK net \in Ledgers : timerEntry(net) \/ nestedTimerEntry(net)
  BY DEF TimerEntry, NestedTimerEntry
<1>2. /\ checkLedger(net)
      /\ UNCHANGED <<now, standalone, phase, roundVars, previousLedger, recentPeerPositions>>
      /\ depth' = 1 \/ (pc = "check" /\ depth' = depth)
  BY <1>1 DEF timerEntry, nestedTimerEntry, envVars
<1>3. /\ mode' \in Modes /\ prevLedgerID' \in Ledgers
      /\ PositionsTyped' /\ pc' \in {"phase", "wrong"} /\ played' \in [Peers -> Nat]
      /\ proposed' \in Seq([seq : Nat, position : TxSets])
      /\ ResultMatchesPhase' /\ Sound(result, currPeerPositions, acquired)'
      /\ PositionsOfThisRound' /\ WrongLedgerKnown'
  BY <1>2, CheckLedgerSound, Zenon
<1>4. depth' \in Nat /\ depth' > 0
  BY <1>2 DEF IInv, TypeOK
<1>5. TypeOK'
  BY <1>2, <1>3, <1>4 DEF IInv, TypeOK, PositionsTyped, roundVars
<1> QED BY <1>3, <1>4, <1>5 DEF IInv

LEMMA WrongLedgerReplayedStep ==
  ASSUME IInv, WrongLedgerReplayed PROVE IInv'
<1>1. PICK have \in BOOLEAN : wrongLedgerReplayed(have)
  BY DEF WrongLedgerReplayed
<1>2. /\ pc = "wrong"
      /\ UNCHANGED <<now, standalone, recentPeerPositions, proposed, depth, firstRound,
                     prevRoundTime, prevCloseTime, prevProposers>>
  BY <1>1 DEF wrongLedgerReplayed, envVars
<1>3. TypeOK /\ depth > 0
  BY <1>2 DEF IInv
<1>4. CASE previousLedger # prevLedgerID /\ have
  <2>1. startRoundInternal(prevLedgerID, prevLedgerID, "switchedLedger")
    BY <1>1, <1>4 DEF wrongLedgerReplayed
  <2>2. prevLedgerID \in Ledgers /\ "switchedLedger" \in Modes
    BY <1>3 DEF TypeOK, Modes
  <2>3. /\ phase' \in Phases /\ mode' \in Modes
        /\ prevLedgerID' \in Ledgers /\ previousLedger' \in Ledgers
        /\ openStart' \in Nat /\ closedAt' \in Nat
        /\ PositionsTyped' /\ pc' = "round" /\ played' \in [Peers -> Nat]
        /\ ResultMatchesPhase' /\ Sound(result, currPeerPositions, acquired)'
        /\ PositionsOfThisRound' /\ WrongLedgerKnown'
    BY <1>3, <2>1, <2>2, StartRoundInternalSound
  <2>4. TypeOK'
    BY <1>2, <1>3, <2>3 DEF TypeOK, PositionsTyped
  <2> QED BY <2>3, <2>4 DEF IInv
<1>5. CASE ~(previousLedger # prevLedgerID /\ have)
  <2>1. /\ mode' = IF previousLedger = prevLedgerID THEN mode ELSE "wrongLedger"
        /\ pc' = "phase"
        /\ played' = [p \in Peers |-> 0]
        /\ UNCHANGED <<phase, ledgerVars, positionVars, openStart, closedAt>>
    BY <1>1, <1>5 DEF wrongLedgerReplayed
  <2>2. TypeOK'
    BY <1>2, <1>3, <2>1 DEF TypeOK, Modes, ledgerVars, positionVars
  <2>3. ResultMatchesPhase' /\ Sound(result, currPeerPositions, acquired)' /\ PositionsOfThisRound'
    BY <1>2, <2>1 DEF IInv, ResultMatchesPhase, Sound, PositionsOfThisRound, ledgerVars, positionVars
  <2>4. WrongLedgerKnown' /\ (pc \in {"check", "wrong", "phase"} => depth > 0)'
    BY <1>2, <1>3, <2>1 DEF WrongLedgerKnown, ledgerVars
  <2> QED BY <2>2, <2>3, <2>4 DEF IInv
<1> QED BY <1>4, <1>5

\* closeLedger makes a sound result out of the positions at hand.
LEMMA CloseLedgerSound ==
  ASSUME TypeOK, NEW txs \in TxSets, closeLedger(txs)
  PROVE  /\ closedAt' = now /\ acquired' \subseteq TxSets
         /\ result' \in Results
         /\ result'.start = now /\ result'.txns \in acquired'
         /\ Consistent(result', currPeerPositions, acquired', {})
         /\ proposed' \in Seq([seq : Nat, position : TxSets])
<1> DEFINE acq == acquired \cup {txs}
           fresh == [txns |-> txs, seq |-> 0, closeTime |-> now, time |-> now,
                     disputes |-> Nothing, compares |-> {}, start |-> now,
                     state |-> "No"]
           held == {currPeerPositions[p].position : p \in DOMAIN currPeerPositions}
           O == held \cap acq
<1>1. /\ closedAt' = now
      /\ acquired' = acq
      /\ result' = createDisputes(fresh, O, currPeerPositions, acq)
      /\ proposed' = IF mode = "proposing" THEN propose(fresh) ELSE proposed
  BY Zenon DEF closeLedger
<1>2. fresh \in Results
  BY NothingIs, Zenon DEF Results, TypeOK
<1>3. /\ fresh.txns = txs /\ fresh.disputes = Nothing /\ fresh.compares = {}
      /\ fresh.start = now
  OBVIOUS
<1>4. /\ acq \subseteq TxSets /\ O \subseteq TxSets
      /\ \A p \in DOMAIN currPeerPositions :
            currPeerPositions[p].position \in acq => currPeerPositions[p].position \in O
      /\ txs \in acq
  BY DEF TypeOK
<1> HIDE DEF fresh, acq, O
<1>5. DisputesCreated(result', fresh, O, currPeerPositions, acq)
  BY <1>1, <1>2, <1>4, CreateDisputes DEF TypeOK
<1>6. /\ result' \in Results /\ result'.txns = txs /\ result'.start = now
      /\ result'.compares = O /\ DOMAIN result'.disputes = differences(fresh, O)
      /\ \A t \in DOMAIN result'.disputes :
            result'.disputes[t] = newDispute(t, txs, currPeerPositions, acq)
  BY <1>3, <1>5, NothingIs DEF DisputesCreated
<1>7. ASSUME NEW t \in DOMAIN result'.disputes
      PROVE  /\ result'.disputes[t].our <=> t \in result'.txns
             /\ Counts(result'.disputes[t], t, currPeerPositions, acq, {})
  <2> DEFINE d == result'.disputes[t]
  <2>1. d = newDispute(t, txs, currPeerPositions, acq) /\ result'.txns = txs
    BY <1>6
  <2>2. DOMAIN currPeerPositions \subseteq Peers
    BY DEF TypeOK
  <2> HIDE DEF d
  <2>3. (d.our <=> t \in txs) /\ Counts(d, t, currPeerPositions, acq, {})
    BY <2>1, <2>2, NewDispute
  <2> QED BY <2>1, <2>3 DEF d
<1>8. VotesExcept(result', currPeerPositions, acq, {}) /\ OurVotes(result')
  BY <1>7 DEF VotesExcept, OurVotes
<1>9. HeldCompared(result', currPeerPositions, acq, {})
  BY <1>4, <1>6 DEF HeldCompared
<1>10. ComparedDisputed(result')
  <2>1. ASSUME NEW o \in O, NEW t \in Txs \ differences(fresh, O)
        PROVE  t \in txs <=> t \in o
    BY <1>3 DEF differences, SymDiff
  <2> QED BY <1>6, <2>1 DEF ComparedDisputed
<1>11. proposed' \in Seq([seq : Nat, position : TxSets])
  BY <1>1, <1>2, ProposeType, Zenon DEF TypeOK
<1> QED BY <1>1, <1>4, <1>6, <1>8, <1>9, <1>10, <1>11 DEF Consistent

LEMMA PhaseOpenStep ==
  ASSUME IInv, PhaseOpen PROVE IInv'
<1>1. PICK any \in BOOLEAN, validated \in 0..Cardinality(Peers), txs \in TxSets :
        phaseOpen(any, validated, txs)
  BY DEF PhaseOpen
<1>2. /\ pc = "phase" /\ phase = "open"
      /\ \/ closeLedger(txs) /\ phase' = "establish"
         \/ UNCHANGED <<phase, closedAt, acquired, result, proposed>>
      /\ depth' = depth - 1 /\ pc' = (IF depth = 1 THEN "idle" ELSE "phase")
      /\ UNCHANGED <<now, standalone, mode, firstRound, openStart, prevRoundTime,
                     prevCloseTime, prevProposers, ledgerVars,
                     currPeerPositions, recentPeerPositions, deadNodes, played>>
  BY <1>1 DEF phaseOpen, endTimer, envVars
<1>3. /\ TypeOK /\ depth \in Nat /\ depth > 0
  BY <1>2 DEF IInv, TypeOK
<1>4. depth' \in Nat /\ (pc' = "phase" => depth' > 0) /\ pc' \in {"idle", "phase"}
  BY <1>2, <1>3
<1>5. PositionsOfThisRound' /\ WrongLedgerKnown'
  BY <1>2, <1>4 DEF IInv, PositionsOfThisRound, WrongLedgerKnown, ledgerVars
<1>6. CASE closeLedger(txs) /\ phase' = "establish"
  <2>1. /\ closedAt' = now /\ acquired' \subseteq TxSets
        /\ result' \in Results
        /\ result'.start = now /\ result'.txns \in acquired'
        /\ Consistent(result', currPeerPositions, acquired', {})
        /\ proposed' \in Seq([seq : Nat, position : TxSets])
    BY <1>3, <1>6, CloseLedgerSound, Zenon
  <2>2. TypeOK'
    BY <1>2, <1>3, <1>4, <1>6, <2>1 DEF TypeOK, Phases, ledgerVars
  <2>3. Sound(result, currPeerPositions, acquired)'
    BY <1>2, <1>3, <2>1 DEF Sound, TypeOK
  <2>4. ResultMatchesPhase'
    BY <1>6, <2>1, ConstantsAssumption DEF ResultMatchesPhase
  <2> QED BY <1>4, <1>5, <2>2, <2>3, <2>4 DEF IInv
<1>7. CASE UNCHANGED <<phase, closedAt, acquired, result, proposed>>
  <2>1. TypeOK'
    BY <1>2, <1>3, <1>4, <1>7 DEF TypeOK, ledgerVars
  <2>2. ResultMatchesPhase' /\ Sound(result, currPeerPositions, acquired)'
    BY <1>2, <1>7 DEF IInv, ResultMatchesPhase, Sound
  <2> QED BY <1>4, <1>5, <2>1, <2>2 DEF IInv
<1> QED BY <1>2, <1>6, <1>7

LEMMA SimulateStep ==
  ASSUME IInv, Simulate PROVE IInv'
<1>1. PICK txs \in TxSets, delay \in RoundDelays : simulate(txs, delay)
  BY DEF Simulate
<1>2. /\ pc = "idle" /\ closeLedger(txs) /\ phase' = "accepted"
      /\ prevProposers' = Cardinality(DOMAIN currPeerPositions)
      /\ prevRoundTime' = delay
      /\ UNCHANGED <<now, standalone, mode, firstRound, openStart, prevCloseTime,
                     ledgerVars, currPeerPositions, recentPeerPositions,
                     deadNodes, pc, depth, played>>
  BY <1>1 DEF simulate, envVars, controlVars
<1>3. TypeOK
  BY DEF IInv
<1>4. /\ closedAt' = now /\ acquired' \subseteq TxSets
      /\ result' \in Results
      /\ result'.start = now /\ result'.txns \in acquired'
      /\ Consistent(result', currPeerPositions, acquired', {})
      /\ proposed' \in Seq([seq : Nat, position : TxSets])
  BY <1>2, <1>3, CloseLedgerSound, Zenon
<1>5. prevProposers' \in Nat /\ prevRoundTime' \in Nat
  BY <1>2, <1>3, FS_Subset, FS_CardinalityType, ConstantsAssumption DEF TypeOK
<1>6. TypeOK'
  BY <1>2, <1>3, <1>4, <1>5 DEF TypeOK, Phases, ledgerVars
<1>7. Sound(result, currPeerPositions, acquired)' /\ ResultMatchesPhase'
  BY <1>2, <1>3, <1>4 DEF Sound, TypeOK, ResultMatchesPhase
<1>8. PositionsOfThisRound' /\ WrongLedgerKnown' /\ (pc \in {"check", "wrong", "phase"} => depth > 0)'
  BY <1>2 DEF IInv, PositionsOfThisRound, WrongLedgerKnown, ledgerVars
<1> QED BY <1>6, <1>7, <1>8 DEF IInv

LEMMA FreshPositions ==
  ASSUME TypeOK
  PROVE  /\ DOMAIN freshPositions \subseteq DOMAIN currPeerPositions
         /\ \A p \in DOMAIN freshPositions : freshPositions[p] = currPeerPositions[p]
         /\ freshPositions \in [DOMAIN freshPositions -> Proposals]
         /\ freshPositions = Keep(currPeerPositions, DOMAIN freshPositions)
         /\ Cardinality(DOMAIN freshPositions) \in Nat
<1>1. /\ DOMAIN freshPositions \subseteq DOMAIN currPeerPositions
      /\ \A p \in DOMAIN freshPositions : freshPositions[p] = currPeerPositions[p]
      /\ freshPositions \in [DOMAIN freshPositions -> Proposals]
      /\ freshPositions = Keep(currPeerPositions, DOMAIN freshPositions)
  BY DEF freshPositions, Keep, TypeOK
<1>2. DOMAIN freshPositions \subseteq Peers
  BY <1>1 DEF TypeOK
<1> QED BY <1>1, <1>2, FS_Subset, FS_CardinalityType, ConstantsAssumption

LEMMA UpdateVoteType ==
  ASSUME NEW d \in Disputes, NEW n, NEW b PROVE updateVote(d, n, b) \in BOOLEAN
<1> DEFINE yays == Cardinality(d.yes)
           nays == Cardinality(d.no)
           weight == (yays * 100 + (IF d.our THEN 100 ELSE 0)) \div (nays + yays + 1)
<1>1. d.our \in BOOLEAN
  BY DEF Disputes
<1>2. (weight > neededWeight(n)) \in BOOLEAN /\ (yays > nays) \in BOOLEAN
  OBVIOUS
<1>3. \/ updateVote(d, n, b) = d.our
      \/ updateVote(d, n, b) = (weight > neededWeight(n))
      \/ updateVote(d, n, b) = (yays > nays)
  BY Zenon DEF updateVote
<1> QED BY <1>1, <1>2, <1>3, Zenon

\* updateOurPositions keeps the result sound: our set moves only on disputed
\* transactions, in the direction of our votes.
LEMMA UpdatedResultSound ==
  ASSUME TypeOK, Sound(result, currPeerPositions, acquired), result # NoResult,
         NEW closeTime \in Nat,
         NEW u, u = updatedResult(closeTime), NEW acq, acq = updatedAcquired(closeTime)
  PROVE  /\ u \in Results /\ u.start = result.start /\ u.txns \in acq
         /\ acq \subseteq TxSets
         /\ Consistent(u, freshPositions, acq, {})
<1> DEFINE S == DOMAIN currPeerPositions \ DOMAIN freshPositions
<1>1. result \in Results /\ result.txns \in acquired /\ acquired \subseteq TxSets
      /\ Consistent(result, currPeerPositions, acquired, {})
  BY DEF TypeOK, Sound
<1>2. /\ unvoted \in Results /\ unvoted.txns = result.txns /\ unvoted.start = result.start
      /\ Consistent(unvoted, freshPositions, acquired, {})
  <2>1. /\ DOMAIN currPeerPositions \subseteq S \cup DOMAIN freshPositions
        /\ S \cap DOMAIN freshPositions = {}
    OBVIOUS
  <2>2. unvoted = withoutVotes(result, S)
    BY DEF unvoted
  <2>3. freshPositions = Keep(currPeerPositions, DOMAIN freshPositions)
    BY FreshPositions
  <2> HIDE DEF S
  <2>4. Consistent(withoutVotes(result, S), Keep(currPeerPositions, DOMAIN freshPositions), acquired, {})
        /\ withoutVotes(result, S) \in Results
        /\ withoutVotes(result, S).txns = result.txns
        /\ withoutVotes(result, S).start = result.start
    BY <1>1, <2>1, ConsistentDrop, Zenon
  <2> QED BY <2>2, <2>3, <2>4, Zenon
<1>3. DOMAIN unvoted.disputes \subseteq Txs
      /\ unvoted.disputes \in [DOMAIN unvoted.disputes -> Disputes]
  BY <1>2, ResultDisputes
<1>4. /\ DOMAIN revotedDisputes = DOMAIN unvoted.disputes
      /\ \A t \in DOMAIN revotedDisputes :
            /\ revotedDisputes[t] \in Disputes
            /\ revotedDisputes[t].yes = unvoted.disputes[t].yes
            /\ revotedDisputes[t].no = unvoted.disputes[t].no
  <2>1. ASSUME NEW d \in Disputes, NEW v \in BOOLEAN
        PROVE  /\ [d EXCEPT !.our = v] \in Disputes
               /\ [d EXCEPT !.our = v].yes = d.yes
               /\ [d EXCEPT !.our = v].no = d.no
    BY DEF Disputes
  <2>2. DOMAIN revotedDisputes = DOMAIN unvoted.disputes
    BY DEF revotedDisputes
  <2>3. ASSUME NEW t \in DOMAIN unvoted.disputes
        PROVE  /\ revotedDisputes[t] \in Disputes
               /\ revotedDisputes[t].yes = unvoted.disputes[t].yes
               /\ revotedDisputes[t].no = unvoted.disputes[t].no
    <3> DEFINE d == unvoted.disputes[t]
               v == updateVote(d, convergePercent, mode = "proposing")
    <3>1. revotedDisputes[t] = [d EXCEPT !.our = v]
      BY DEF revotedDisputes
    <3>2. d \in Disputes /\ v \in BOOLEAN
      BY <1>3, UpdateVoteType
    <3> HIDE DEF d, v
    <3>3. /\ [d EXCEPT !.our = v] \in Disputes
          /\ [d EXCEPT !.our = v].yes = d.yes
          /\ [d EXCEPT !.our = v].no = d.no
      BY <2>1, <3>2
    <3> QED BY <3>1, <3>3 DEF d
  <2> QED BY <2>2, <2>3
<1>5. revotedDisputes \in UNION {[E -> Disputes] : E \in SUBSET Txs}
  <2>1. revotedDisputes \in [DOMAIN unvoted.disputes -> Disputes]
    BY <1>4, Zenon DEF revotedDisputes
  <2> QED BY <1>3, <2>1, DisputeMap
<1>6. /\ revotedTxns \in TxSets
      /\ \A t \in DOMAIN revotedDisputes : revotedDisputes[t].our <=> t \in revotedTxns
      /\ \A t \in Txs \ DOMAIN revotedDisputes : t \in revotedTxns <=> t \in result.txns
      /\ changedVotes = {} => revotedTxns = result.txns
  <2>1. changedVotes \subseteq DOMAIN revotedDisputes
    BY DEF changedVotes
  <2>2. \A t \in DOMAIN unvoted.disputes : unvoted.disputes[t].our <=> t \in result.txns
    BY <1>2, Zenon DEF Consistent, OurVotes
  <2>3. result.txns \subseteq Txs
    BY <1>1 DEF Results, TxSets
  <2>4. \A t \in DOMAIN revotedDisputes :
            /\ revotedDisputes[t].our \in BOOLEAN
            /\ unvoted.disputes[t].our \in BOOLEAN
    BY <1>3, <1>4 DEF Disputes
  <2>5. ASSUME NEW t \in DOMAIN revotedDisputes
        PROVE  revotedDisputes[t].our <=> t \in revotedTxns
    <3>1. CASE t \in changedVotes
      BY <3>1 DEF revotedTxns
    <3>2. CASE t \notin changedVotes
      <4>1. revotedDisputes[t].our = unvoted.disputes[t].our
        BY <3>2 DEF changedVotes
      <4> QED BY <1>4, <2>2, <3>2, <4>1 DEF revotedTxns
    <3> QED BY <3>1, <3>2
  <2>6. /\ revotedTxns \in TxSets
        /\ \A t \in Txs \ DOMAIN revotedDisputes : t \in revotedTxns <=> t \in result.txns
        /\ changedVotes = {} => revotedTxns = result.txns
    BY <1>3, <1>4, <2>1, <2>3 DEF revotedTxns, TxSets
  <2> QED BY <2>5, <2>6
<1> DEFINE kept == [unvoted EXCEPT !.disputes = revotedDisputes]
           moved == [kept EXCEPT !.txns = revotedTxns, !.closeTime = closeTime,
                                 !.time = now, !.seq = nextSeq(@)]
<1>7. /\ kept \in Results /\ kept.txns = result.txns /\ kept.start = result.start
      /\ kept.disputes = revotedDisputes /\ kept.compares = unvoted.compares
      /\ kept.seq \in Nat
  BY <1>2, <1>5 DEF Results
<1>8. /\ moved \in Results /\ moved.txns = revotedTxns /\ moved.start = result.start
      /\ moved.disputes = revotedDisputes /\ moved.compares = unvoted.compares
  <2> HIDE DEF kept
  <2>1. nextSeq(kept.seq) \in Nat /\ now \in Nat
    BY <1>7 DEF nextSeq, TypeOK
  <2>2. moved = [kept EXCEPT !.txns = revotedTxns, !.closeTime = closeTime,
                             !.time = now, !.seq = nextSeq(kept.seq)]
    BY <1>7 DEF Results
  <2> QED BY <1>6, <1>7, <2>1, <2>2, Zenon DEF Results
<1>9. u = IF ~positionChanges(closeTime) THEN kept
          ELSE IF revotedTxns \in acquired THEN moved
          ELSE updateDisputes(moved, Holders(freshPositions, revotedTxns),
                 revotedTxns, freshPositions, acquired \cup {revotedTxns})
  BY DEF updatedResult
<1> HIDE DEF kept, moved
<1>10. ASSUME NEW r, r.disputes = revotedDisputes, r.compares = unvoted.compares,
              r.txns = revotedTxns
       PROVE  Consistent(r, freshPositions, acquired, {})
  <2>1. VotesExcept(r, freshPositions, acquired, {})
    BY <1>2, <1>4, <1>10, Zenon DEF Consistent, VotesExcept, Counts
  <2>2. OurVotes(r)
    BY <1>6, <1>10 DEF OurVotes
  <2>3. HeldCompared(r, freshPositions, acquired, {})
    BY <1>2, <1>10, Zenon DEF Consistent, HeldCompared
  <2>4. ComparedDisputed(r)
    BY <1>2, <1>4, <1>6, <1>10, Zenon DEF Consistent, ComparedDisputed
  <2> QED BY <2>1, <2>2, <2>3, <2>4 DEF Consistent
<1>11. CASE ~positionChanges(closeTime)
  <2>1. acq = acquired /\ u = kept /\ revotedTxns = result.txns
    BY <1>6, <1>9, <1>11, Zenon DEF updatedAcquired, positionChanges
  <2> QED BY <1>1, <1>7, <1>10, <2>1, Zenon
<1>12. CASE positionChanges(closeTime) /\ revotedTxns \in acquired
  <2>1. acq = acquired /\ u = moved
    BY <1>9, <1>12 DEF updatedAcquired
  <2> QED BY <1>1, <1>8, <1>10, <1>12, <2>1
<1>13. CASE positionChanges(closeTime) /\ revotedTxns \notin acquired
  <2> DEFINE H == Holders(freshPositions, revotedTxns)
  <2>1. /\ acq = acquired \cup {revotedTxns}
        /\ u = updateDisputes(moved, H, revotedTxns, freshPositions, acq)
    BY <1>9, <1>13 DEF updatedAcquired
  <2>2. Consistent(moved, freshPositions, acquired, {}) /\ {} \subseteq H
    BY <1>8, <1>10, Zenon
  <2>3. Consistent(moved, freshPositions, acq, H)
    BY <2>1, <2>2, ConsistentAcquire
  <2>4. /\ H \subseteq Holders(freshPositions, revotedTxns)
        /\ revotedTxns \in acq /\ DOMAIN freshPositions \subseteq Peers
    BY <2>1, FreshPositions DEF TypeOK
  <2> HIDE DEF H
  <2>5. /\ u \in Results /\ u.txns = moved.txns /\ u.start = moved.start
        /\ Consistent(u, freshPositions, acq, {})
    <3>1. moved \in Results /\ revotedTxns \in TxSets
      BY <1>6, <1>8
    <3> QED BY <2>1, <2>3, <2>4, <3>1, UpdateConsistent
  <2>6. acq \subseteq TxSets /\ moved.txns = revotedTxns /\ moved.start = result.start
    BY <1>1, <1>6, <1>8, <2>1
  <2> QED BY <2>4, <2>5, <2>6
<1> QED BY <1>11, <1>12, <1>13

LEMMA PhaseEstablishStep ==
  ASSUME IInv, PhaseEstablish PROVE IInv'
<1>1. PICK finished \in 0..Cardinality(Peers), in \in PauseInputs : phaseEstablish(finished, in)
  BY DEF PhaseEstablish
<1>2. /\ pc = "phase" /\ phase = "establish"
      /\ depth' = depth - 1 /\ pc' = (IF depth = 1 THEN "idle" ELSE "phase")
      /\ UNCHANGED <<now, standalone, mode, firstRound, openStart, prevCloseTime,
                     closedAt, ledgerVars, recentPeerPositions, deadNodes, played>>
  BY <1>1 DEF phaseEstablish, endTimer, envVars
<1>3. TypeOK /\ depth \in Nat /\ depth > 0
  BY <1>2 DEF IInv, TypeOK
<1>4. depth' \in Nat /\ (pc' = "phase" => depth' > 0) /\ pc' \in {"idle", "phase"}
  BY <1>2, <1>3
<1>5. WrongLedgerKnown'
  BY <1>2, <1>4 DEF IInv, WrongLedgerKnown, ledgerVars
<1>6. CASE UNCHANGED <<phase, prevProposers, prevRoundTime, acquired, result,
                       currPeerPositions, proposed>>
  <2>1. TypeOK'
    BY <1>2, <1>3, <1>4, <1>6 DEF TypeOK, ledgerVars
  <2>2. ResultMatchesPhase' /\ Sound(result, currPeerPositions, acquired)' /\ PositionsOfThisRound'
    BY <1>2, <1>6 DEF IInv, ResultMatchesPhase, Sound, PositionsOfThisRound, ledgerVars
  <2> QED BY <1>4, <1>5, <2>1, <2>2 DEF IInv
<1>7. ASSUME NEW closeTime \in closeTimeOutcomes,
             updateOurPositions(closeTime.time), haveConsensus(closeTime, finished, in)
      PROVE  IInv'
  <2> DEFINE u == updatedResult(closeTime.time)
             acq == updatedAcquired(closeTime.time)
             state == checkConsensus(prevProposers, Cardinality(DOMAIN freshPositions),
                        Cardinality(Holders(freshPositions, u.txns)), finished,
                        prevRoundTime, roundTime, mode = "proposing")
  <2>1. result # NoResult /\ result \in Results /\ result.start <= now
    BY <1>2, <1>3 DEF IInv, ResultMatchesPhase, TypeOK, Sound
  <2>2. closeTime.time \in Nat
    BY <1>3, <2>1, CloseTimeOutcomesType
  <2>3. /\ u \in Results /\ u.start = result.start /\ u.txns \in acq
        /\ acq \subseteq TxSets
        /\ Consistent(u, freshPositions, acq, {})
    BY <1>3, <2>1, <2>2, UpdatedResultSound, Zenon DEF IInv
  <2>4. /\ currPeerPositions' = freshPositions
        /\ acquired' = acq
        /\ proposed' \in {proposed, propose(u)}
    BY <1>7 DEF updateOurPositions
  <2>5. /\ result' \in {u, [u EXCEPT !.state = state]}
        /\ prevProposers' \in {prevProposers, Cardinality(DOMAIN freshPositions)}
        /\ prevRoundTime' \in {prevRoundTime, roundTime}
        /\ phase' \in {phase, "accepted"}
    BY <1>7 DEF haveConsensus
  <2>6. state \in {"No", "MovedOn", "Yes"}
    BY Zenon DEF checkConsensus
  <2> HIDE DEF u, acq, state
  <2>7. /\ result' \in Results /\ result'.start = result.start /\ result'.txns = u.txns
        /\ result'.disputes = u.disputes /\ result'.compares = u.compares
    BY <2>3, <2>5, <2>6 DEF Results
  <2>8. Sound(result, currPeerPositions, acquired)'
    <3>1. Consistent(result', freshPositions, acq, {})
      BY <2>3, <2>7, ConsistentSame
    <3> QED BY <1>2, <2>1, <2>3, <2>4, <2>7, <3>1 DEF Sound
  <2>9. ResultMatchesPhase'
    BY <1>2, <2>5, <2>7, ConstantsAssumption DEF ResultMatchesPhase
  <2>10. /\ DOMAIN freshPositions \subseteq DOMAIN currPeerPositions
         /\ \A p \in DOMAIN freshPositions : freshPositions[p] = currPeerPositions[p]
         /\ freshPositions \in [DOMAIN freshPositions -> Proposals]
         /\ Cardinality(DOMAIN freshPositions) \in Nat
    BY <1>3, FreshPositions
  <2>11. PositionsOfThisRound'
    BY <1>2, <2>4, <2>10 DEF IInv, PositionsOfThisRound, ledgerVars
  <2>12. prevProposers' \in Nat /\ prevRoundTime' \in Nat
    <3>1. roundTime \in Nat
      BY <1>3, <2>1 DEF roundTime, TypeOK, Results
    <3> QED BY <1>3, <2>5, <2>10, <3>1 DEF TypeOK
  <2>13. proposed' \in Seq([seq : Nat, position : TxSets])
    BY <1>3, <2>3, <2>4, ProposeType, Zenon DEF TypeOK
  <2>14. phase' \in Phases /\ DOMAIN currPeerPositions' \subseteq Peers
    BY <1>2, <1>3, <2>4, <2>5, <2>10 DEF Phases, TypeOK
  <2>15. TypeOK'
    BY <1>2, <1>3, <1>4, <2>3, <2>4, <2>7, <2>10, <2>12, <2>13, <2>14 DEF TypeOK, ledgerVars
  <2> QED BY <1>4, <1>5, <2>8, <2>9, <2>11, <2>15 DEF IInv
<1> QED BY <1>1, <1>6, <1>7 DEF phaseEstablish

-----------------------------------------------------------------------------
(* The theorems *)

LEMMA InitIInv ==
  ASSUME Init PROVE IInv
<1> USE DEF Init
<1>1. TypeOK
  BY NothingIs, ConstantsAssumption DEF TypeOK, Phases, Modes
<1>2. ResultMatchesPhase /\ Sound(result, currPeerPositions, acquired) /\ WrongLedgerKnown
  BY DEF ResultMatchesPhase, Sound, WrongLedgerKnown
<1>3. PositionsOfThisRound
  BY NothingIs DEF PositionsOfThisRound
<1> QED BY <1>1, <1>2, <1>3 DEF IInv

LEMMA NextIInv ==
  ASSUME IInv, [Next]_vars PROVE IInv'
<1>1. CASE UNCHANGED vars
  BY <1>1 DEF vars, IInv, TypeOK, ResultMatchesPhase, Sound, PositionsOfThisRound, WrongLedgerKnown
<1>2. CASE Next
  BY <1>2, StartRoundStep, PeerProposalStep, GotTxSetStep, TimerEntryStep, SimulateStep,
     TickStep, PlaybackStep, RoundReplayedStep, WrongLedgerReplayedStep, PhaseOpenStep,
     PhaseEstablishStep
  DEF Next, Continue
<1> QED BY <1>1, <1>2

\* What the inductive invariant says in the terms of Consensus.
LEMMA IInvImplies ==
  ASSUME IInv
  PROVE  /\ TypeOK /\ ResultMatchesPhase /\ OwnSetAcquired /\ VotesFollowPositions
         /\ DifferencesDisputed /\ OurVoteIsOurSet /\ PositionsOfThisRound /\ WrongLedgerKnown
<1>1. CASE result = NoResult
  BY <1>1 DEF IInv, OwnSetAcquired, VotesFollowPositions, DifferencesDisputed, OurVoteIsOurSet
<1>2. CASE result # NoResult
  <2>1. /\ result.txns \in acquired
        /\ VotesExcept(result, currPeerPositions, acquired, {})
        /\ OurVotes(result)
        /\ HeldCompared(result, currPeerPositions, acquired, {})
        /\ ComparedDisputed(result)
    BY <1>2 DEF IInv, Sound, Consistent
  <2>2. VotesFollowPositions
    BY <2>1, Zenon DEF VotesFollowPositions, VotesExact, VotesExcept, Counts
  <2>3. DifferencesDisputed
    BY <2>1 DEF DifferencesDisputed, HeldCompared, ComparedDisputed
  <2> QED BY <2>1, <2>2, <2>3 DEF IInv, OwnSetAcquired, OurVoteIsOurSet, OurVotes
<1> QED BY <1>1, <1>2

\* The inductive invariant holds in every reachable state of the engine.
THEOREM Invariance == Spec => []IInv
<1>1. Init => IInv
  BY InitIInv
<1>2. IInv /\ [Next]_vars => IInv'
  BY NextIInv
<1> QED BY <1>1, <1>2, PTL DEF Spec

\* Every variable keeps its type; in particular the stack of timerEntry calls
\* never underflows and rounding never makes a close time negative.
THEOREM TypeCorrect == Spec => []TypeOK
<1>1. IInv => TypeOK
  BY IInvImplies
<1> QED BY <1>1, Invariance, PTL

\* The asserts on result_ in closeLedger, phaseEstablish, updateOurPositions
\* and haveConsensus never fail.
THEOREM AssertsHold == Spec => []ResultMatchesPhase
<1>1. IInv => ResultMatchesPhase
  BY IInvImplies
<1> QED BY <1>1, Invariance, PTL

\* Our own transaction set is always in acquired_, which the assert of
\* gotTxSet rests on.
THEOREM OwnSetAcquiredAlways == Spec => []OwnSetAcquired
<1>1. IInv => OwnSetAcquired
  BY IInvImplies
<1> QED BY <1>1, Invariance, PTL

\* The votes on a dispute are those of the peers' current positions.
THEOREM VotesAlwaysFollow == Spec => []VotesFollowPositions
<1>1. IInv => VotesFollowPositions
  BY IInvImplies
<1> QED BY <1>1, Invariance, PTL

\* Every difference with an acquired set of a peer is under dispute, although
\* createDisputes compares a set with ours only once.
THEOREM DifferencesAlwaysDisputed == Spec => []DifferencesDisputed
<1>1. IInv => DifferencesDisputed
  BY IInvImplies
<1> QED BY <1>1, Invariance, PTL

\* Our vote on a dispute is what our set says.
THEOREM OurVoteAlwaysOurSet == Spec => []OurVoteIsOurSet
<1>1. IInv => OurVoteIsOurSet
  BY IInvImplies
<1> QED BY <1>1, Invariance, PTL

\* No position of another ledger, and none of a peer that bowed out, is
\* counted, however proposals are stored and replayed.
THEOREM PositionsAlwaysOfThisRound == Spec => []PositionsOfThisRound
<1>1. IInv => PositionsOfThisRound
  BY IInvImplies
<1> QED BY <1>1, Invariance, PTL

\* A node that works on another ledger than the network never proposes.
THEOREM WrongLedgerAlwaysKnown == Spec => []WrongLedgerKnown
<1>1. IInv => WrongLedgerKnown
  BY IInvImplies
<1> QED BY <1>1, Invariance, PTL

\* A proposal that peerProposalInternal takes is newer than the one it replaces.
LEMMA PeerProposalForward ==
  ASSUME NEW p, NEW prop, NEW have, peerProposalInternal(p, prop, have)
  PROVE  /\ deadNodes \subseteq deadNodes'
         /\ \A q \in DOMAIN currPeerPositions \cap DOMAIN currPeerPositions' :
              \/ currPeerPositions'[q] = currPeerPositions[q]
              \/ currPeerPositions'[q].seq > currPeerPositions[q].seq
<1>1. CASE ~admissible(p, prop)
  BY <1>1 DEF peerProposalInternal, positionVars
<1>2. CASE admissible(p, prop) /\ prop.seq = SeqLeave
  BY <1>2, Zenon DEF peerProposalInternal, Keep
<1>3. CASE admissible(p, prop) /\ prop.seq # SeqLeave
  BY <1>3 DEF peerProposalInternal, Put, admissible
<1> QED BY <1>1, <1>2, <1>3

\* A peer's position is replaced by a newer one only, and a peer that bowed
\* out stays out, until the round or the preferred ledger changes.
THEOREM PositionsAlwaysForward == Spec => PositionsMoveForward
<1> DEFINE Fwd == \/ pc' = "round" \/ prevLedgerID' # prevLedgerID
                  \/ /\ deadNodes \subseteq deadNodes'
                     /\ \A p \in DOMAIN currPeerPositions \cap DOMAIN currPeerPositions' :
                          \/ currPeerPositions'[p] = currPeerPositions[p]
                          \/ currPeerPositions'[p].seq > currPeerPositions[p].seq
<1>1. ASSUME IInv, Next PROVE Fwd
  <2>1. CASE StartRound
    BY <2>1, Zenon DEF StartRound, startRound, startRoundInternal
  <2>2. CASE PeerProposal
    BY <2>2, PeerProposalForward, Zenon DEF PeerProposal, peerProposal
  <2>3. CASE Playback
    BY <2>3, PeerProposalForward, Zenon DEF Playback, playback
  <2>4. CASE GotTxSet \/ Simulate \/ tick \/ roundReplayed \/ PhaseOpen
    BY <2>4 DEF GotTxSet, gotTxSet, Simulate, simulate, tick, roundReplayed, PhaseOpen,
                phaseOpen, positionVars
  <2>5. CASE TimerEntry \/ NestedTimerEntry
    BY <2>5 DEF TimerEntry, timerEntry, NestedTimerEntry, nestedTimerEntry, checkLedger,
                positionVars
  <2>6. CASE WrongLedgerReplayed
    BY <2>6, Zenon DEF WrongLedgerReplayed, wrongLedgerReplayed, startRoundInternal, positionVars
  <2>7. CASE PhaseEstablish
    <3>1. deadNodes' = deadNodes /\ currPeerPositions' \in {currPeerPositions, freshPositions}
      BY <2>7 DEF PhaseEstablish, phaseEstablish, updateOurPositions
    <3>2. \A p \in DOMAIN freshPositions : freshPositions[p] = currPeerPositions[p]
      BY <1>1, FreshPositions DEF IInv
    <3> QED BY <3>1, <3>2, Zenon
  <2> QED BY <1>1, <2>1, <2>2, <2>3, <2>4, <2>5, <2>6, <2>7 DEF Next, Continue
<1>2. IInv /\ [Next]_vars => [Fwd]_vars
  BY <1>1
<1> QED BY <1>2, Invariance, PTL DEF Spec, PositionsMoveForward

-----------------------------------------------------------------------------
(* The proposals of this node *)

\* The proposals are numbered from 0 without a gap, except for a final bow-out.
Numbered(s) ==
    \A i \in DOMAIN s : s[i].seq = i - 1 \/ (i = Len(s) /\ s[i].seq = SeqLeave)

\* A node that proposes has sent the position r, unless it has used up the
\* sequence numbers.
Sent(r) ==
    IF r.seq = SeqLeave THEN Len(proposed) >= SeqLeave
    ELSE /\ proposed # <<>>
         /\ proposed[Len(proposed)] = [seq |-> r.seq, position |-> r.txns]

\* A node that proposes has sent nothing before it closes its ledger.
Proposing ==
    /\ Numbered(proposed)
    /\ mode = "proposing" =>
          IF result = NoResult THEN proposed = <<>> ELSE Sent(result)

\* The position of a result is its sequence number and its set.
SamePosition(u, r) == u.seq = r.seq /\ u.txns = r.txns

\* Votes and disputes are bookkeeping: they leave the position alone.
LEMMA DisputesKeepPosition ==
  ASSUME NEW r, {"seq", "txns"} \subseteq DOMAIN r
  PROVE  /\ \A S : SamePosition(withoutVotes(r, S), r)
         /\ \A O, curr, acq : SamePosition(createDisputes(r, O, curr, acq), r)
         /\ \A P, o, curr, acq : SamePosition(updateDisputes(r, P, o, curr, acq), r)
<1>1. ASSUME NEW c, {"seq", "txns"} \subseteq DOMAIN c, NEW f, NEW g
      PROVE  LET d == [c EXCEPT !.disputes = f]
                 e == [c EXCEPT !.compares = g, !.disputes = f]
             IN  /\ SamePosition(d, c) /\ SamePosition(e, c)
                 /\ {"seq", "txns"} \subseteq DOMAIN e
  BY <1>1 DEF SamePosition
<1>2. ASSUME NEW S PROVE SamePosition(withoutVotes(r, S), r)
  BY <1>1, Zenon DEF withoutVotes
<1>3. ASSUME NEW O, NEW curr, NEW acq
      PROVE  /\ SamePosition(createDisputes(r, O, curr, acq), r)
             /\ {"seq", "txns"} \subseteq DOMAIN createDisputes(r, O, curr, acq)
  BY <1>1, Zenon DEF createDisputes
<1>4. ASSUME NEW P, NEW o, NEW curr, NEW acq
      PROVE  SamePosition(updateDisputes(r, P, o, curr, acq), r)
  <2> DEFINE c == createDisputes(r, {o}, curr, acq)
  <2>1. CASE P = {}
    BY <2>1 DEF updateDisputes, SamePosition
  <2>2. CASE P # {}
    <3>1. SamePosition(c, r) /\ {"seq", "txns"} \subseteq DOMAIN c
      BY <1>3
    <3>2. updateDisputes(r, P, o, curr, acq)
            = [c EXCEPT !.disputes = [t \in DOMAIN @ |-> setVotes(@[t], P, t \in o)]]
      BY <2>2, Zenon DEF updateDisputes
    <3> HIDE DEF c
    <3>3. SamePosition(updateDisputes(r, P, o, curr, acq), c)
      BY <1>1, <3>1, <3>2, Zenon
    <3> QED BY <3>1, <3>3 DEF SamePosition
  <2> QED BY <2>1, <2>2
<1> QED BY <1>2, <1>3, <1>4, Zenon

\* Every result has a position.
LEMMA ResultHasPosition ==
  ASSUME NEW r \in Results PROVE {"seq", "txns"} \subseteq DOMAIN r
BY DEF Results

\* A proposal that is appended carries the next number or bows out.
LEMMA NumberedAppend ==
  ASSUME NEW T, NEW s \in Seq(T), Numbered(s), s # <<>> => s[Len(s)].seq = Len(s) - 1,
         NEW e, e.seq = Len(s) \/ e.seq = SeqLeave
  PROVE  Numbered(Append(s, e))
<1>1. /\ Len(s) \in Nat /\ Len(Append(s, e)) = Len(s) + 1
      /\ DOMAIN Append(s, e) = 1..(Len(s) + 1) /\ DOMAIN s = 1..Len(s)
      /\ \A i \in 1..Len(s) : Append(s, e)[i] = s[i]
      /\ Append(s, e)[Len(s) + 1] = e
  OBVIOUS
<1>2. ASSUME NEW i \in 1..Len(s) PROVE s[i].seq = i - 1
  <2>1. CASE i = Len(s)
    BY <1>1, <2>1
  <2>2. CASE i # Len(s)
    BY <1>1, <2>2 DEF Numbered
  <2> QED BY <2>1, <2>2
<1> QED BY <1>1, <1>2 DEF Numbered

\* While the node proposes under a number other than SeqLeave, its last
\* proposal has the number of the position.
LEMMA ProposingLast ==
  ASSUME TypeOK, Proposing, mode = "proposing", result # NoResult, result.seq # SeqLeave
  PROVE  proposed # <<>> /\ proposed[Len(proposed)].seq = Len(proposed) - 1
         /\ result.seq = Len(proposed) - 1 /\ Len(proposed) \in Nat \ {0}
<1>1. /\ proposed # <<>>
      /\ proposed[Len(proposed)] = [seq |-> result.seq, position |-> result.txns]
  BY DEF Proposing, Sent
<1>2. Len(proposed) \in DOMAIN proposed /\ Len(proposed) \in Nat \ {0}
  BY <1>1 DEF TypeOK
<1>3. proposed[Len(proposed)].seq = result.seq
  BY <1>1
<1> QED BY <1>1, <1>2, <1>3 DEF Proposing, Numbered

\* A step that neither proposes nor moves our position.
LEMMA ProposingSame ==
  ASSUME Proposing, proposed' = proposed, mode' \in {mode, "wrongLedger", "switchedLedger"},
         (result' = NoResult) = (result = NoResult),
         result # NoResult => SamePosition(result', result)
  PROVE  Proposing'
BY DEF Proposing, Numbered, Sent, SamePosition

\* Votes and disputes may change in any way while the phase stays.
Bookkeeping(r) ==
    \/ r = result
    \/ \E S : r = withoutVotes(result, S)
    \/ \E P, o, curr, acq : r = updateDisputes(result, P, o, curr, acq)

LEMMA ProposingBookkeeping ==
  ASSUME IInv, IInv', Proposing, proposed' = proposed, mode' = mode, phase' = phase,
         result = NoResult => result' = NoResult,
         result # NoResult => Bookkeeping(result'),
         phase = "accepted" => result' = result
  PROVE  Proposing'
<1>1. (result' = NoResult) = (result = NoResult)
  BY DEF IInv, ResultMatchesPhase, TypeOK, Phases
<1>2. ASSUME result # NoResult PROVE SamePosition(result', result)
  <2>1. result \in Results
    BY <1>2 DEF IInv, TypeOK
  <2>2. /\ \A S : SamePosition(withoutVotes(result, S), result)
        /\ \A P, o, curr, acq : SamePosition(updateDisputes(result, P, o, curr, acq), result)
        /\ SamePosition(result, result)
    BY <2>1, ResultHasPosition, DisputesKeepPosition DEF SamePosition
  <2> QED BY <1>2, <2>2, Zenon DEF Bookkeeping
<1> QED BY <1>1, <1>2, ProposingSame

\* Taking a peer's proposal is bookkeeping.
LEMMA PeerProposalBookkeeping ==
  ASSUME NEW p, NEW prop, NEW have, peerProposalInternal(p, prop, have)
  PROVE  /\ result = NoResult => result' = NoResult
         /\ result # NoResult => Bookkeeping(result')
         /\ phase = "accepted" => result' = result
<1>1. CASE ~admissible(p, prop)
  BY <1>1 DEF peerProposalInternal, positionVars, Bookkeeping
<1>2. CASE admissible(p, prop) /\ prop.seq = SeqLeave
  BY <1>2, Zenon DEF peerProposalInternal, admissible, Bookkeeping
<1>3. CASE admissible(p, prop) /\ prop.seq # SeqLeave
  BY <1>3, Zenon DEF peerProposalInternal, admissible, disputesWithSet, Bookkeeping
<1> QED BY <1>1, <1>2, <1>3

LEMMA ReceiptProposing ==
  ASSUME IInv, IInv', Proposing, PeerProposal \/ Playback \/ GotTxSet
  PROVE  Proposing'
<1>1. CASE PeerProposal
  <2>1. PICK m, have : peerProposal(m.node, received(m), have)
    BY <1>1, Zenon DEF PeerProposal
  <2> QED BY <2>1, PeerProposalBookkeeping, ProposingBookkeeping DEF peerProposal
<1>2. CASE Playback
  <2>1. PICK p, have : playback(p, have)
    BY <1>2, Zenon DEF Playback
  <2> QED BY <2>1, PeerProposalBookkeeping, ProposingBookkeeping DEF playback
<1>3. CASE GotTxSet
  <2>1. PICK o \in TxSets : gotTxSet(o)
    BY <1>3 DEF GotTxSet
  <2>2. /\ phase # "accepted" /\ result' = disputesWithSet(o, currPeerPositions)
        /\ UNCHANGED <<phase, mode, proposed>>
    BY <2>1 DEF gotTxSet
  <2>3. /\ result = NoResult => result' = NoResult
        /\ result # NoResult => Bookkeeping(result')
    BY <2>2, Zenon DEF disputesWithSet, Bookkeeping
  <2> QED BY <2>2, <2>3, ProposingBookkeeping
<1> QED BY <1>1, <1>2, <1>3

\* A round starts with nothing proposed; a node that takes up another ledger
\* in the middle of a round does not propose.
LEMMA StartProposing ==
  ASSUME Proposing, StartRound \/ roundReplayed \/ WrongLedgerReplayed \/ tick
  PROVE  Proposing'
<1>1. CASE StartRound
  <2>1. proposed' = <<>> /\ result' = NoResult
    BY <1>1, Zenon DEF StartRound, startRound, startRoundInternal
  <2> QED BY <2>1 DEF Proposing, Numbered
<1>2. CASE roundReplayed \/ tick
  BY <1>2, ProposingSame DEF roundReplayed, tick, positionVars, SamePosition
<1>3. CASE WrongLedgerReplayed
  <2>1. PICK have \in BOOLEAN : wrongLedgerReplayed(have)
    BY <1>3 DEF WrongLedgerReplayed
  <2>2. proposed' = proposed
    BY <2>1 DEF wrongLedgerReplayed
  <2>3. CASE startRoundInternal(prevLedgerID, prevLedgerID, "switchedLedger")
    <3>1. mode' = "switchedLedger"
      BY <2>3, Zenon DEF startRoundInternal
    <3> QED BY <2>2, <3>1 DEF Proposing, Numbered
  <2>4. CASE mode' \in {mode, "wrongLedger"} /\ result' = result
    BY <2>2, <2>4, ProposingSame DEF SamePosition
  <2> QED BY <2>1, <2>3, <2>4 DEF wrongLedgerReplayed, positionVars
<1> QED BY <1>1, <1>2, <1>3

\* Leaving consensus sends a last proposal, the bow-out.
LEMMA TimerProposing ==
  ASSUME IInv, Proposing, TimerEntry \/ NestedTimerEntry
  PROVE  Proposing'
<1>1. PICK net \in Ledgers : checkLedger(net)
  BY DEF TimerEntry, timerEntry, NestedTimerEntry, nestedTimerEntry
<1>2. TypeOK
  BY DEF IInv
<1>3. CASE UNCHANGED <<mode, positionVars, proposed>>
  BY <1>3, ProposingSame DEF positionVars, SamePosition
<1>4. CASE leaveConsensus
  <2>1. mode' # "proposing"
    BY <1>4 DEF leaveConsensus
  <2>2. CASE ~bowingOut
    BY <1>4, <2>1, <2>2 DEF leaveConsensus, Proposing, Numbered
  <2>3. CASE bowingOut
    <3> DEFINE b == [result EXCEPT !.seq = SeqLeave, !.time = now]
               e == [seq |-> b.seq, position |-> b.txns]
    <3>1. result \in Results /\ mode = "proposing" /\ result # NoResult /\ result.seq # SeqLeave
      BY <1>2, <2>3 DEF bowingOut, TypeOK
    <3>2. b.seq = SeqLeave
      BY <3>1 DEF Results
    <3>3. proposed' = Append(proposed, e)
      BY <1>4, <2>3, Zenon DEF leaveConsensus, propose, bowOut
    <3> HIDE DEF b
    <3>4. e.seq = SeqLeave
      BY <3>2
    <3> HIDE DEF e
    <3>5. proposed \in Seq([seq : Nat, position : TxSets])
      BY <1>2 DEF TypeOK
    <3>6. proposed[Len(proposed)].seq = Len(proposed) - 1
      BY <1>2, <3>1, ProposingLast
    <3>7. Numbered(proposed)
      BY DEF Proposing
    <3>8. Numbered(proposed')
      BY <3>3, <3>4, <3>5, <3>6, <3>7, NumberedAppend
    <3> QED BY <2>1, <3>8 DEF Proposing, Numbered
  <2> QED BY <2>2, <2>3
<1> QED BY <1>1, <1>3, <1>4 DEF checkLedger

\* Closing the ledger proposes the first position under the number 0.
LEMMA CloseProposing ==
  ASSUME IInv, Proposing, phase = "open", mode' = mode,
         NEW txs \in TxSets, closeLedger(txs)
  PROVE  Proposing'
<1> DEFINE acq == acquired \cup {txs}
           fresh == [txns |-> txs, seq |-> 0, closeTime |-> now, time |-> now,
                     disputes |-> Nothing, compares |-> {}, start |-> now,
                     state |-> "No"]
           held == {currPeerPositions[p].position : p \in DOMAIN currPeerPositions}
<1>1. TypeOK /\ result = NoResult
  BY DEF IInv, ResultMatchesPhase
<1>2. /\ result' = createDisputes(fresh, held \cap acq, currPeerPositions, acq)
      /\ proposed' = IF mode = "proposing" THEN propose(fresh) ELSE proposed
  BY Zenon DEF closeLedger
<1>3. fresh \in Results
  <2>1. Nothing \in UNION {[E -> Disputes] : E \in SUBSET Txs}
    BY NothingIs
  <2> QED BY <1>1, <2>1 DEF TypeOK, Results
<1>4. fresh.seq = 0 /\ fresh.txns = txs
  OBVIOUS
<1> HIDE DEF fresh, held, acq
<1>5. SamePosition(result', fresh)
  BY <1>2, <1>3, ResultHasPosition, DisputesKeepPosition, Zenon
<1>6. CASE mode # "proposing"
  BY <1>2, <1>6 DEF Proposing, Numbered
<1>7. CASE mode = "proposing"
  <2>1. proposed = <<>>
    BY <1>1, <1>7 DEF Proposing
  <2>2. proposed' = <<[seq |-> 0, position |-> txs]>>
    BY <1>2, <1>4, <1>7, <2>1 DEF propose
  <2>3. /\ Len(proposed') = 1 /\ DOMAIN proposed' = {1} /\ proposed' # <<>>
        /\ proposed'[1] = [seq |-> 0, position |-> txs]
    BY <2>2
  <2>4. result'.seq = 0 /\ result'.txns = txs
    BY <1>4, <1>5 DEF SamePosition
  <2>5. result' # NoResult
    BY CloseLedgerSound, <1>1, ConstantsAssumption
  <2>6. Numbered(proposed')
    <3>1. \A i \in DOMAIN proposed' : i = 1
      BY <2>3
    <3>2. proposed'[1].seq = 1 - 1
      BY <2>3
    <3> QED BY <3>1, <3>2 DEF Numbered
  <2>7. Sent(result)'
    BY <2>3, <2>4, ConstantsAssumption DEF Sent
  <2> QED BY <2>5, <2>6, <2>7 DEF Proposing, Numbered
<1> QED BY <1>6, <1>7

LEMMA OpenProposing ==
  ASSUME IInv, Proposing, PhaseOpen \/ Simulate
  PROVE  Proposing'
<1>1. CASE PhaseOpen
  <2>1. PICK any \in BOOLEAN, validated \in 0..Cardinality(Peers), txs \in TxSets :
            phaseOpen(any, validated, txs)
    BY <1>1 DEF PhaseOpen
  <2>2. /\ phase = "open" /\ mode' = mode
        /\ closeLedger(txs) \/ UNCHANGED <<result, proposed>>
    BY <2>1, Zenon DEF phaseOpen
  <2>3. CASE closeLedger(txs)
    BY <2>2, <2>3, CloseProposing
  <2>4. CASE UNCHANGED <<result, proposed>>
    BY <2>2, <2>4, ProposingSame DEF SamePosition
  <2> QED BY <2>2, <2>3, <2>4
<1>2. CASE Simulate
  <2>1. PICK txs \in TxSets, delay \in RoundDelays : simulate(txs, delay)
    BY <1>2 DEF Simulate
  <2>2. phase = "open" /\ mode' = mode /\ closeLedger(txs)
    BY <2>1 DEF simulate
  <2> QED BY <2>2, CloseProposing
<1> QED BY <1>1, <1>2

\* The number of our position moves exactly when the position is replaced.
LEMMA UpdatedSeq ==
  ASSUME result \in Results, NEW closeTime, NEW u, u = updatedResult(closeTime)
  PROVE  IF positionChanges(closeTime) THEN u.seq = nextSeq(result.seq)
         ELSE SamePosition(u, result)
<1> DEFINE kept == [unvoted EXCEPT !.disputes = revotedDisputes]
           moved == [kept EXCEPT !.txns = revotedTxns, !.closeTime = closeTime,
                                 !.time = now, !.seq = nextSeq(@)]
<1>1. SamePosition(unvoted, result) /\ {"seq", "txns"} \subseteq DOMAIN unvoted
  <2>1. {"seq", "txns"} \subseteq DOMAIN result
    BY ResultHasPosition
  <2>2. DOMAIN unvoted = DOMAIN result
    BY DEF unvoted, withoutVotes
  <2> QED BY <2>1, <2>2, DisputesKeepPosition, Zenon DEF unvoted
<1>2. SamePosition(kept, result) /\ {"seq", "txns"} \subseteq DOMAIN kept
  BY <1>1 DEF SamePosition
<1>3. u = IF ~positionChanges(closeTime) THEN kept
          ELSE IF revotedTxns \in acquired THEN moved
          ELSE updateDisputes(moved, Holders(freshPositions, revotedTxns),
                 revotedTxns, freshPositions, acquired \cup {revotedTxns})
  BY DEF updatedResult
<1> HIDE DEF kept
<1>4. moved.seq = nextSeq(result.seq) /\ {"seq", "txns"} \subseteq DOMAIN moved
  BY <1>2 DEF SamePosition
<1> HIDE DEF moved
<1>5. ASSUME positionChanges(closeTime) PROVE u.seq = moved.seq
  <2>1. \A P, o, curr, acq : updateDisputes(moved, P, o, curr, acq).seq = moved.seq
    <3>1. \A P, o, curr, acq : SamePosition(updateDisputes(moved, P, o, curr, acq), moved)
      BY <1>4, DisputesKeepPosition, Zenon
    <3> QED BY <3>1 DEF SamePosition
  <2> QED BY <1>3, <1>5, <2>1, Zenon
<1> QED BY <1>2, <1>3, <1>4, <1>5

LEMMA EstablishProposing ==
  ASSUME IInv, Proposing, PhaseEstablish
  PROVE  Proposing'
<1>1. PICK finished \in 0..Cardinality(Peers), in \in PauseInputs : phaseEstablish(finished, in)
  BY DEF PhaseEstablish
<1>2. TypeOK /\ phase = "establish" /\ mode' = mode
  BY <1>1 DEF IInv, phaseEstablish
<1>3. result # NoResult /\ result \in Results
  BY <1>2 DEF IInv, ResultMatchesPhase, TypeOK
<1>4. CASE UNCHANGED <<result, proposed>>
  BY <1>2, <1>4, ProposingSame DEF SamePosition
<1>5. ASSUME NEW closeTime \in closeTimeOutcomes,
             updateOurPositions(closeTime.time), haveConsensus(closeTime, finished, in)
      PROVE  Proposing'
  <2> DEFINE t == closeTime.time
             u == updatedResult(t)
             e == [seq |-> u.seq, position |-> u.txns]
  <2>1. t \in Nat
    BY <1>2, <1>3, CloseTimeOutcomesType
  <2>2. u \in Results
    BY <1>2, <1>3, <2>1, UpdatedResultSound, Zenon DEF IInv
  <2>3. IF positionChanges(t) THEN u.seq = nextSeq(result.seq) ELSE SamePosition(u, result)
    BY <1>3, UpdatedSeq
  <2>4. proposed' = IF positionChanges(t) /\ mode = "proposing" /\ u.seq # SeqLeave
                    THEN Append(proposed, e) ELSE proposed
    BY <1>5 DEF updateOurPositions, propose
  <2>5. PICK state \in {"No", "MovedOn", "Yes"} : result' \in {u, [u EXCEPT !.state = state]}
    <3> DEFINE st == checkConsensus(prevProposers, Cardinality(DOMAIN freshPositions),
                       Cardinality(Holders(freshPositions, u.txns)), finished,
                       prevRoundTime, roundTime, mode = "proposing")
    <3>1. st \in {"No", "MovedOn", "Yes"}
      BY Zenon DEF checkConsensus
    <3>2. result' \in {u, [u EXCEPT !.state = st]}
      BY <1>5 DEF haveConsensus
    <3> QED BY <3>1, <3>2
  <2>6. e.seq = u.seq
    OBVIOUS
  <2>7. e = [seq |-> u.seq, position |-> u.txns]
    OBVIOUS
  <2> HIDE DEF t, u, e
  <2>8. SamePosition(result', u) /\ result' # NoResult
    <3>1. result' \in Results
      BY <2>2, <2>5 DEF Results
    <3> QED BY <2>2, <2>5, <3>1, ConstantsAssumption DEF Results, SamePosition
  <2>9. CASE mode # "proposing"
    BY <1>2, <2>4, <2>9 DEF Proposing, Numbered
  <2>10. CASE mode = "proposing" /\ ~positionChanges(t)
    <3>1. proposed' = proposed /\ SamePosition(result', result)
      BY <2>3, <2>4, <2>8, <2>10 DEF SamePosition
    <3> QED BY <1>2, <1>3, <2>8, <3>1, ProposingSame
  <2>11. CASE mode = "proposing" /\ positionChanges(t)
    <3>1. proposed \in Seq([seq : Nat, position : TxSets]) /\ Numbered(proposed) /\ Sent(result)
      BY <1>2, <1>3, <2>11 DEF TypeOK, Proposing
    <3>2. CASE result.seq = SeqLeave
      <4>1. u.seq = SeqLeave
        BY <2>3, <2>11, <3>2 DEF nextSeq
      <4>2. proposed' = proposed /\ result'.seq = SeqLeave
        BY <2>4, <2>8, <4>1 DEF SamePosition
      <4> QED BY <2>8, <3>1, <3>2, <4>2 DEF Proposing, Numbered, Sent
    <3>3. CASE result.seq # SeqLeave
      <4>1. /\ proposed[Len(proposed)].seq = Len(proposed) - 1
            /\ result.seq = Len(proposed) - 1 /\ Len(proposed) \in Nat \ {0}
        BY <1>2, <1>3, <2>11, <3>3, ProposingLast
      <4>2. u.seq = Len(proposed)
        <5>1. u.seq = nextSeq(result.seq)
          BY <2>3, <2>11
        <5>2. nextSeq(result.seq) = result.seq + 1
          BY <3>3 DEF nextSeq
        <5> QED BY <4>1, <5>1, <5>2
      <4>3. CASE u.seq = SeqLeave
        <5>1. proposed' = proposed /\ result'.seq = SeqLeave
          BY <2>4, <2>8, <4>3 DEF SamePosition
        <5>2. Len(proposed) >= SeqLeave
          BY <4>1, <4>2, <4>3
        <5>3. Sent(result)'
          BY <5>1, <5>2 DEF Sent
        <5>4. Numbered(proposed')
          BY <3>1, <5>1
        <5> QED BY <2>8, <5>3, <5>4 DEF Proposing, Numbered
      <4>4. CASE u.seq # SeqLeave
        <5>1. proposed' = Append(proposed, e)
          BY <2>4, <2>11, <4>4
        <5>2. Numbered(proposed')
          BY <2>6, <3>1, <4>1, <4>2, <5>1, NumberedAppend
        <5>3. proposed' # <<>> /\ proposed'[Len(proposed')] = e
          BY <3>1, <5>1
        <5>4. result'.seq = u.seq /\ result'.txns = u.txns
          BY <2>8 DEF SamePosition
        <5> QED BY <2>7, <2>8, <4>4, <5>2, <5>3, <5>4 DEF Proposing, Numbered, Sent
      <4> QED BY <4>3, <4>4
    <3> QED BY <3>2, <3>3
  <2> QED BY <2>9, <2>10, <2>11
<1> QED BY <1>1, <1>4, <1>5 DEF phaseEstablish

\* Proposing is inductive relative to IInv.
LEMMA NextProposing ==
  ASSUME IInv, IInv', Proposing, [Next]_vars
  PROVE  Proposing'
<1>1. CASE UNCHANGED vars
  BY <1>1, ProposingSame DEF vars, SamePosition
<1>2. CASE Next
  BY <1>2, ReceiptProposing, StartProposing, TimerProposing, OpenProposing,
     EstablishProposing DEF Next, Continue
<1> QED BY <1>1, <1>2

\* As long as the sequence numbers last, what the network last heard from a
\* proposing node is its position: every proposal closeLedger,
\* updateOurPositions and leaveConsensus send carries the next number, and
\* nothing follows a bow-out.  A node that reaches the number SeqLeave, which
\* doubles as the mark of a bow-out, stays silent however its position moves.
THEOREM ProposalsAlwaysInOrder ==
  Spec => [](Len(proposed) < SeqLeave => ProposalsInOrder)
<1> DEFINE Goal == Len(proposed) < SeqLeave => ProposalsInOrder
<1>1. Init => Proposing
  BY DEF Init, Proposing, Numbered
<1>2. IInv /\ IInv' /\ Proposing /\ [Next]_vars => Proposing'
  BY NextProposing
<1>3. IInv /\ Proposing => Goal
  <2> SUFFICES ASSUME IInv, Proposing, Len(proposed) < SeqLeave PROVE ProposalsInOrder
    OBVIOUS
  <2>1. Len(proposed) \in Nat /\ SeqLeave \in Nat
    BY ConstantsAssumption DEF IInv, TypeOK
  <2> QED BY <2>1 DEF Proposing, Numbered, Sent, ProposalsInOrder
<1> HIDE DEF Goal
<1>4. Spec => []Goal
  BY <1>1, <1>2, <1>3, Invariance, PTL DEF Spec
<1> QED BY <1>4 DEF Goal
=============================================================================
