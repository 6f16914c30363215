------------------------------ MODULE Consensus ------------------------------
(***************************************************************************)
(* The generic consensus engine of one node (consensus/Consensus.h): the   *)
(* phases of a round, the positions of the trusted peers, the disputed     *)
(* transactions and the node's own position.                               *)
(*                                                                         *)
(* RCLConsensus takes its mutex around every entry point, so two entry     *)
(* points never interleave; pc is "idle" when the mutex is free.  An entry *)
(* point that replays stored proposals, or that re-enters timerEntry,      *)
(* takes several steps with the mutex held (pc # "idle"), because what it  *)
(* reads from the rest of the server (transaction sets, ledgers, the       *)
(* preferred ledger) may change in between.                                *)
(*                                                                         *)
(* A transaction set is identified with its hash: TxSets == SUBSET Txs.    *)
(* One clock stands for NetClock and for the engine's steady clock.        *)
(***************************************************************************)
EXTENDS ConsensusRules

CONSTANTS
    Peers,          \* the trusted validators other than this node
    Txs,            \* transactions
    Ledgers,        \* ledger hashes
    LedgerInfo,     \* header of each ledger: see Headers
    NoResult,       \* the disengaged optional result_
    SeqLeave,       \* ConsensusProposal::seqLeave, the largest sequence number
    RecentLimit,    \* proposals kept per peer (10 in the code)
    proposeFRESHNESS, proposeINTERVAL,
    ledgerIDLE_INTERVAL, avMIN_CONSENSUS_TIME,
    Genesis,        \* the ledger the server starts from
    PeerMessages,   \* the proposals peers send, see Messages
    TrustChanges,   \* sets of peers found untrusted when a round starts
    RoundDelays,    \* round times passed to simulate
    PauseInputs,    \* answers of the adaptor that shouldPause reads
    MaxTime,        \* bound on the clock
    QuietTime,      \* peers and the network view are active up to this time
    MaxDepth        \* bound on nested timerEntry calls

TxSets == SUBSET Txs

Phases == {"open", "establish", "accepted"}
Modes == {"proposing", "observing", "wrongLedger", "switchedLedger"}

Proposals == [prevLedger : Ledgers, position : TxSets, seq : Nat,
              closeTime : Nat, time : Nat]
Disputes == [our : BOOLEAN, yes : SUBSET Peers, no : SUBSET Peers]
Headers == [seq : Nat, closeTime : Nat, parentCloseTime : Nat,
            closeAgree : BOOLEAN, resolution : Nat \ {0}, fix1528 : BOOLEAN]
Results == [txns : TxSets, seq : Nat, closeTime : Nat, time : Nat,
            disputes : UNION {[D -> Disputes] : D \in SUBSET Txs},
            compares : SUBSET TxSets, start : Nat,
            state : {"No", "MovedOn", "Yes"}]

Messages == [node : Peers, prevLedger : Ledgers, position : TxSets,
             seq : 0..SeqLeave, closeTime : Nat]

ASSUME ConstantsAssumption ==
    /\ IsFiniteSet(Peers)
    /\ LedgerInfo \in [Ledgers -> Headers]
    /\ NoResult \notin Results
    /\ SeqLeave \in Nat \ {0}
    /\ RecentLimit \in Nat \ {0}
    /\ Genesis \in Ledgers
    /\ PeerMessages \subseteq Messages
    /\ TrustChanges \subseteq SUBSET Peers
    /\ RoundDelays \subseteq Nat
    /\ avMIN_CONSENSUS_TIME \in Nat \ {0}
    /\ ledgerIDLE_INTERVAL \in Nat
    /\ MaxDepth \in Nat \ {0}

VARIABLES
    now,                 \* the clock
    standalone,          \* m_standalone: no peers, no heartbeat timer
    phase, mode,         \* phase_, mode_
    firstRound,          \* firstRound_
    prevLedgerID,        \* the ledger the network prefers
    previousLedger,      \* the ledger this node works on
    openStart,           \* start of openTime_
    prevRoundTime,       \* prevRoundTime_
    prevCloseTime,       \* prevCloseTime_
    prevProposers,       \* prevProposers_
    closedAt,            \* rawCloseTimes_.self
    acquired,            \* acquired_: the transaction sets at hand
    result,              \* result_: own position, disputes, compares
    currPeerPositions,   \* current position of each peer that has one
    recentPeerPositions, \* the last proposals of every peer
    deadNodes,           \* peers that bowed out of the round
    proposed,            \* what this node proposed in the round, oldest first
    pc,                  \* where the entry point that holds the mutex stands
    depth,               \* timerEntry calls on its stack
    played               \* playbackProposals: proposals replayed per peer

roundVars == <<firstRound, openStart, prevRoundTime, prevCloseTime,
               prevProposers, closedAt>>
ledgerVars == <<prevLedgerID, previousLedger>>
positionVars == <<acquired, result, currPeerPositions, deadNodes>>
controlVars == <<pc, depth, played>>
envVars == <<now, standalone>>
vars == <<now, standalone, phase, mode, firstRound, prevLedgerID,
          previousLedger, openStart, prevRoundTime, prevCloseTime,
          prevProposers, closedAt, acquired, result, currPeerPositions,
          recentPeerPositions, deadNodes, proposed, pc, depth, played>>

-----------------------------------------------------------------------------
(* Partial functions, as the hash maps of the engine. *)

Put(f, k, v) == [x \in DOMAIN f \cup {k} |-> IF x = k THEN v ELSE f[x]]
Keep(f, S) == [x \in DOMAIN f \cap S |-> f[x]]
Nothing == [x \in {} |-> {}]

-----------------------------------------------------------------------------
\* closeResolution_ is set from previousLedger_ when the round starts.
closeResolution ==
    LET info == LedgerInfo[previousLedger]
    IN  getNextLedgerTimeResolution(info.resolution, info.closeAgree, info.seq + 1)

asCloseTime(raw) ==
    LET info == LedgerInfo[previousLedger]
    IN  IF info.fix1528 THEN roundCloseTime(raw, closeResolution)
        ELSE effCloseTime(raw, closeResolution, info.closeTime)

-----------------------------------------------------------------------------
(* Disputes between our set r.txns and the sets of the peers. *)

SymDiff(A, B) == (A \ B) \cup (B \ A)
Holders(curr, o) == {p \in DOMAIN curr : curr[p].position = o}

newDispute(t, txns, curr, acq) ==
    LET known == {p \in DOMAIN curr : curr[p].position \in acq}
    IN  [our |-> t \in txns,
         yes |-> {p \in known : t \in curr[p].position},
         no  |-> {p \in known : t \notin curr[p].position}]

\* The transactions on which our set differs from one not compared before.
differences(r, O) == UNION {SymDiff(r.txns, o) : o \in O \ r.compares}

\* createDisputes for every set of O.
createDisputes(r, O, curr, acq) ==
    [r EXCEPT !.compares = @ \cup O,
              !.disputes = [t \in DOMAIN @ \cup differences(r, O) |->
                  IF t \in DOMAIN @ THEN @[t]
                  ELSE newDispute(t, r.txns, curr, acq)]]

\* Mutation: a set first seen in an update is not compared with ours.
updateDisputes_NotCompared(r, P, o, curr, acq) ==
    [r EXCEPT !.disputes = [t \in DOMAIN @ |-> setVotes(@[t], P, t \in o)]]

\* updateDisputes for every peer of P, all of which hold the set o.
updateDisputes(r, P, o, curr, acq) ==
    IF P = {} THEN r
    ELSE LET c == createDisputes(r, {o}, curr, acq)
         IN  [c EXCEPT !.disputes =
                 [t \in DOMAIN @ |-> setVotes(@[t], P, t \in o)]]

\* unVote on every dispute, for the peers S
withoutVotes(r, S) ==
    [r EXCEPT !.disputes = [t \in DOMAIN @ |-> unVotes(@[t], S)]]

\* result_ after gotTxSet(o); the peers' positions are curr.
disputesWithSet(o, curr) ==
    IF o \in acquired \/ result = NoResult THEN result
    ELSE updateDisputes(result, Holders(curr, o), o, curr, acquired \cup {o})

-----------------------------------------------------------------------------
(* Peer proposals *)

\* Mutation: an old proposal is taken as well as a new one.
admissible_AnySeq(p, prop) ==
    /\ phase # "accepted"
    /\ prop.prevLedger = prevLedgerID
    /\ p \notin deadNodes

\* Mutation: proposals for other ledgers are taken.
admissible_AnyLedger(p, prop) ==
    /\ phase # "accepted"
    /\ p \notin deadNodes
    /\ p \in DOMAIN currPeerPositions => prop.seq > currPeerPositions[p].seq

\* The proposal passes the early returns of peerProposalInternal.
admissible(p, prop) ==
    /\ phase # "accepted"
    /\ prop.prevLedger = prevLedgerID
    /\ p \notin deadNodes
    /\ p \in DOMAIN currPeerPositions => prop.seq > currPeerPositions[p].seq

\* have: InboundTransactions already holds the proposed set.
peerProposalInternal(p, prop, have) ==
    \/ /\ ~admissible(p, prop)
       /\ UNCHANGED positionVars
    \/ /\ admissible(p, prop)
       /\ prop.seq = SeqLeave
       /\ result' = IF result = NoResult THEN result
                    ELSE withoutVotes(result, {p})
       /\ currPeerPositions' = Keep(currPeerPositions, Peers \ {p})
       /\ deadNodes' = deadNodes \cup {p}
       /\ UNCHANGED acquired
    \/ /\ admissible(p, prop)
       /\ prop.seq # SeqLeave
       /\ currPeerPositions' = Put(currPeerPositions, p, prop)
       /\ UNCHANGED deadNodes
       /\ IF prop.position \in acquired
          THEN /\ UNCHANGED acquired
               /\ result' = IF result = NoResult THEN result
                            ELSE updateDisputes(result, {p}, prop.position,
                                                currPeerPositions', acquired)
          ELSE IF have
          THEN /\ acquired' = acquired \cup {prop.position}
               /\ result' = disputesWithSet(prop.position, currPeerPositions')
          ELSE UNCHANGED <<acquired, result>>

\* PeerImp stamps a proposal with the time of its arrival.
received(m) == [prevLedger |-> m.prevLedger, position |-> m.position,
                seq |-> m.seq, closeTime |-> m.closeTime, time |-> now]

\* HashRouter suppresses a proposal that is already known.
known(p, prop) ==
    \E i \in DOMAIN recentPeerPositions[p] :
        [recentPeerPositions[p][i] EXCEPT !.time = now] = prop

\* push_back, after pop_front on a full deque
remember(props, prop) ==
    Append(IF Len(props) >= RecentLimit THEN Tail(props) ELSE props, prop)

peerProposal(p, prop, have) ==
    /\ pc = "idle" /\ ~standalone /\ now <= QuietTime
    /\ ~known(p, prop)
    /\ recentPeerPositions' =
         [recentPeerPositions EXCEPT ![p] = remember(@, prop)]
    /\ peerProposalInternal(p, prop, have)
    /\ UNCHANGED <<envVars, phase, mode, roundVars, ledgerVars, proposed,
                   controlVars>>

\* An acquisition that an earlier proposal asked for completes.
gotTxSet(o) ==
    /\ pc = "idle" /\ ~standalone /\ now <= QuietTime
    /\ phase # "accepted"
    /\ \E p \in Peers : \E i \in DOMAIN recentPeerPositions[p] :
          recentPeerPositions[p][i].position = o
    /\ acquired' = acquired \cup {o}
    /\ result' = disputesWithSet(o, currPeerPositions)
    /\ UNCHANGED <<envVars, phase, mode, roundVars, ledgerVars,
                   currPeerPositions, recentPeerPositions, deadNodes, proposed,
                   controlVars>>

-----------------------------------------------------------------------------
(* Starting a round, and replaying the stored proposals into it *)

PlaybackDone == \A p \in Peers : played[p] >= Len(recentPeerPositions[p])

\* One iteration of playbackProposals: the hash map is walked in any order,
\* the deque of one peer front to back.
playback(p, have) ==
    /\ pc \in {"wrong", "round"}
    /\ played[p] < Len(recentPeerPositions[p])
    /\ \A q \in Peers \ {p} :
          played[q] = 0 \/ played[q] >= Len(recentPeerPositions[q])
    /\ played' = [played EXCEPT ![p] = @ + 1]
    /\ peerProposalInternal(p, recentPeerPositions[p][played[p] + 1], have)
    /\ UNCHANGED <<envVars, phase, mode, roundVars, ledgerVars,
                   recentPeerPositions, proposed, pc, depth>>

\* Everything startRoundInternal does before playbackProposals.
startRoundInternal(id, ledger, newMode) ==
    /\ phase' = "open"
    /\ mode' = newMode
    /\ prevLedgerID' = id
    /\ previousLedger' = ledger
    /\ result' = NoResult
    /\ openStart' = now
    /\ closedAt' = 0
    /\ acquired' = {}
    /\ currPeerPositions' = Nothing
    /\ deadNodes' = {}
    /\ pc' = "round"
    /\ played' = [p \in Peers |-> 0]

\* net: the ledger the network works on; ledger: our last closed ledger;
\* have: acquireLedger(net) succeeds; proposing: preStartRound's answer.
startRound(net, ledger, have, nowUntrusted, proposing) ==
    /\ pc = "idle" /\ phase = "accepted"
    /\ firstRound' = FALSE
    /\ prevRoundTime' = IF firstRound THEN ledgerIDLE_INTERVAL ELSE prevRoundTime
    /\ prevCloseTime' = IF firstRound THEN LedgerInfo[ledger].closeTime ELSE closedAt
    /\ recentPeerPositions' = [p \in Peers |->
          IF p \in nowUntrusted THEN <<>> ELSE recentPeerPositions[p]]
    /\ IF net = ledger \/ have
       THEN startRoundInternal(net, net, IF proposing THEN "proposing" ELSE "observing")
       ELSE startRoundInternal(net, ledger, "wrongLedger")
    /\ proposed' = <<>>
    /\ UNCHANGED <<envVars, prevProposers, depth>>

\* The end of startRoundInternal: enough peers have moved on already.
roundReplayed ==
    /\ pc = "round" /\ PlaybackDone
    /\ played' = [p \in Peers |-> 0]
    /\ IF Cardinality(DOMAIN currPeerPositions) > prevProposers \div 2
       THEN pc' = "check" /\ depth' = depth + 1
       ELSE pc' = (IF depth > 0 THEN "phase" ELSE "idle") /\ UNCHANGED depth
    /\ UNCHANGED <<envVars, phase, mode, roundVars, ledgerVars, positionVars,
                   recentPeerPositions, proposed>>

-----------------------------------------------------------------------------
(* The timer: has the network moved to another ledger? *)

\* propose(), recorded with the position it carries.
propose(r) == Append(proposed, [seq |-> r.seq, position |-> r.txns])

\* leaveConsensus; r is result_ with the disputes it leaves behind.
bowingOut == mode = "proposing" /\ result # NoResult /\ result.seq # SeqLeave
bowOut(r) == IF bowingOut THEN [r EXCEPT !.seq = SeqLeave, !.time = now] ELSE r

\* Mutation: the node bows out but stays in proposing mode.
leaveConsensus_StillProposing ==
    /\ UNCHANGED mode
    /\ proposed' = IF bowingOut THEN propose(bowOut(result)) ELSE proposed

leaveConsensus ==
    /\ mode' = IF mode = "proposing" THEN "observing" ELSE mode
    /\ proposed' = IF bowingOut THEN propose(bowOut(result)) ELSE proposed

\* checkLedger, and handleWrongLedger up to the end of playbackProposals;
\* net is getPrevLedger's answer.
checkLedger(net) ==
    \/ /\ net = prevLedgerID /\ previousLedger = prevLedgerID
       /\ pc' = "phase"
       /\ UNCHANGED <<mode, prevLedgerID, positionVars, proposed, played>>
    \/ /\ net = prevLedgerID /\ previousLedger # prevLedgerID
       /\ leaveConsensus
       /\ result' = IF result = NoResult THEN result ELSE bowOut(result)
       /\ pc' = "wrong"
       /\ played' = [p \in Peers |-> Len(recentPeerPositions[p])]
       /\ UNCHANGED <<prevLedgerID, acquired, currPeerPositions, deadNodes>>
    \/ /\ net # prevLedgerID
       /\ leaveConsensus
       /\ prevLedgerID' = net
       /\ result' = IF result = NoResult THEN result
                    ELSE [bowOut(result) EXCEPT !.disputes = Nothing,
                                                !.compares = {}]
       /\ currPeerPositions' = Nothing
       /\ deadNodes' = {}
       /\ pc' = "wrong"
       /\ played' = [p \in Peers |-> 0]
       /\ UNCHANGED acquired

timerEntry(net) ==
    /\ pc = "idle" /\ ~standalone /\ phase # "accepted"
    /\ now > QuietTime => net = prevLedgerID
    /\ checkLedger(net)
    /\ depth' = 1
    /\ UNCHANGED <<envVars, phase, roundVars, previousLedger,
                   recentPeerPositions>>

\* timerEntry called from startRoundInternal
nestedTimerEntry(net) ==
    /\ pc = "check"
    /\ depth > MaxDepth => net = prevLedgerID
    /\ checkLedger(net)
    /\ UNCHANGED <<envVars, phase, roundVars, previousLedger,
                   recentPeerPositions, depth>>

\* The end of handleWrongLedger; have: acquireLedger(prevLedgerID) succeeds.
wrongLedgerReplayed(have) ==
    /\ pc = "wrong" /\ PlaybackDone
    /\ UNCHANGED <<envVars, recentPeerPositions, proposed, depth, firstRound,
                   prevRoundTime, prevCloseTime, prevProposers>>
    /\ \/ /\ previousLedger # prevLedgerID /\ have
          /\ startRoundInternal(prevLedgerID, prevLedgerID, "switchedLedger")
       \/ /\ previousLedger = prevLedgerID \/ ~have
          /\ mode' = IF previousLedger = prevLedgerID THEN mode ELSE "wrongLedger"
          /\ pc' = "phase"
          /\ played' = [p \in Peers |-> 0]
          /\ UNCHANGED <<phase, ledgerVars, positionVars, openStart, closedAt>>

\* Return from a timerEntry call to the one below it, if any.
endTimer ==
    /\ depth' = depth - 1
    /\ pc' = IF depth = 1 THEN "idle" ELSE "phase"

-----------------------------------------------------------------------------
(* The open phase *)

\* closeLedger; txs: the transactions of the open ledger in onClose.
closeLedger(txs) ==
    LET acq == acquired \cup {txs}
        fresh == [txns |-> txs, seq |-> 0, closeTime |-> now, time |-> now,
                  disputes |-> Nothing, compares |-> {}, start |-> now,
                  state |-> "No"]
        held == {currPeerPositions[p].position : p \in DOMAIN currPeerPositions}
    IN  /\ closedAt' = now
        /\ acquired' = acq
        /\ result' = createDisputes(fresh, held \cap acq, currPeerPositions, acq)
        /\ proposed' = IF mode = "proposing" THEN propose(fresh) ELSE proposed

\* any: hasOpenTransactions; validated: proposersValidated(prevLedgerID).
phaseOpen(any, validated, txs) ==
    LET info == LedgerInfo[previousLedger]
        previousCloseCorrect == /\ mode # "wrongLedger"
                                /\ info.closeAgree
                                /\ info.closeTime # info.parentCloseTime + 1
        lastCloseTime == IF previousCloseCorrect THEN info.closeTime
                         ELSE prevCloseTime
        close == shouldCloseLedger(any, prevProposers,
                    Cardinality(DOMAIN currPeerPositions), validated,
                    prevRoundTime, now - lastCloseTime, now - openStart,
                    MaxOf(ledgerIDLE_INTERVAL, 2 * info.resolution))
    IN  /\ pc = "phase" /\ phase = "open"
        /\ any => txs # {}
        /\ IF close THEN closeLedger(txs) /\ phase' = "establish"
           ELSE UNCHANGED <<phase, closedAt, acquired, result, proposed>>
        /\ endTimer
        /\ UNCHANGED <<envVars, mode, firstRound, openStart, prevRoundTime,
                       prevCloseTime, prevProposers, ledgerVars,
                       currPeerPositions, recentPeerPositions, deadNodes,
                       played>>

-----------------------------------------------------------------------------
(* The establish phase *)

\* result_->roundTime.read() and convergePercent_ after the tick
roundTime == now - result.start
convergePercent == (roundTime * 100) \div MaxOf(prevRoundTime, avMIN_CONSENSUS_TIME)

\* Mutation: positions never go stale.
freshPositions_All == currPeerPositions

\* The peers' positions that updateOurPositions keeps.
freshPositions ==
    Keep(currPeerPositions,
         {p \in DOMAIN currPeerPositions :
              currPeerPositions[p].time > now - proposeFRESHNESS})

\* result_ after the stale peers are taken out
unvoted == withoutVotes(result, DOMAIN currPeerPositions \ DOMAIN freshPositions)

\* The disputes after updateVote, and those on which our vote changed.
revotedDisputes ==
    [t \in DOMAIN unvoted.disputes |->
       [unvoted.disputes[t] EXCEPT
          !.our = updateVote(unvoted.disputes[t], convergePercent, mode = "proposing")]]
changedVotes == {t \in DOMAIN revotedDisputes :
                    revotedDisputes[t].our # unvoted.disputes[t].our}

\* Our set: every such transaction is put in or taken out.
revotedTxns ==
    (result.txns \ changedVotes)
        \cup {t \in changedVotes : revotedDisputes[t].our}

\* closeTimeVotes.  This node takes part when proposing.
closeTimeSelf == IF mode = "proposing" THEN {asCloseTime(result.closeTime)} ELSE {}
closeTimesVoted ==
    {asCloseTime(freshPositions[p].closeTime) : p \in DOMAIN freshPositions}
        \cup closeTimeSelf
closeTimeVotes(t) ==
    Cardinality({p \in DOMAIN freshPositions :
                    asCloseTime(freshPositions[p].closeTime) = t})
        + Cardinality(closeTimeSelf \cap {t})
closeTimeThreshold(percent) ==
    participantsNeeded(Cardinality(DOMAIN freshPositions)
                       + Cardinality(closeTimeSelf), percent)

\* The outcome of the close time vote, as a singleton.  The loop over the
\* votes ends on the latest time that has the most.
closeTimeOutcomes ==
    LET enough == {t \in closeTimesVoted :
            closeTimeVotes(t) >= closeTimeThreshold(neededWeight(convergePercent))}
        most == {t \in enough : \A u \in closeTimesVoted :
                    \/ closeTimeVotes(u) < closeTimeVotes(t)
                    \/ closeTimeVotes(u) = closeTimeVotes(t) /\ u <= t}
    IN  IF DOMAIN freshPositions = {}
        THEN {[time |-> asCloseTime(result.closeTime), have |-> TRUE]}
        ELSE IF enough = {} THEN {[time |-> 0, have |-> FALSE]}
        ELSE {[time |-> t, have |-> closeTimeVotes(t)
                                      >= closeTimeThreshold(avCT_CONSENSUS_PCT)] :
                 t \in most}

\* updateOurPositions replaces our position.
positionChanges(closeTime) ==
    \/ changedVotes # {}
    \/ closeTime # asCloseTime(result.closeTime)
    \/ result.time <= now - proposeINTERVAL

\* Mutation: a changed position keeps its number.
nextSeq_Same(seq) == seq

\* changePosition
nextSeq(seq) == IF seq = SeqLeave THEN seq ELSE seq + 1

\* acquired_ and result_ after updateOurPositions
updatedAcquired(closeTime) ==
    IF positionChanges(closeTime) THEN acquired \cup {revotedTxns} ELSE acquired

updatedResult(closeTime) ==
    LET kept == [unvoted EXCEPT !.disputes = revotedDisputes]
        moved == [kept EXCEPT !.txns = revotedTxns, !.closeTime = closeTime,
                              !.time = now, !.seq = nextSeq(@)]
    IN  IF ~positionChanges(closeTime) THEN kept
        ELSE IF revotedTxns \in acquired THEN moved
        ELSE updateDisputes(moved, Holders(freshPositions, revotedTxns),
                 revotedTxns, freshPositions, acquired \cup {revotedTxns})

\* closeTime: the outcome of the close time vote.
updateOurPositions(closeTime) ==
    /\ currPeerPositions' = freshPositions
    /\ acquired' = updatedAcquired(closeTime)
    /\ proposed' = IF positionChanges(closeTime) /\ mode = "proposing"
                      /\ updatedResult(closeTime).seq # SeqLeave
                   THEN propose(updatedResult(closeTime)) ELSE proposed

\* haveConsensus sets result_->state; the round is accepted unless it
\* pauses, or consensus on the transactions or on the close time is missing.
haveConsensus(closeTime, finished, in) ==
    LET updated == updatedResult(closeTime.time)
        proposers == Cardinality(DOMAIN freshPositions)
        agree == Cardinality(Holders(freshPositions, updated.txns))
        state == checkConsensus(prevProposers, proposers, agree, finished,
                    prevRoundTime, roundTime, mode = "proposing")
        pause == shouldPause(in, roundTime)
        accept == ~pause /\ state # "No" /\ closeTime.have
    IN  /\ result' = IF pause THEN updated ELSE [updated EXCEPT !.state = state]
        /\ prevProposers' = IF accept THEN proposers ELSE prevProposers
        /\ prevRoundTime' = IF accept THEN roundTime ELSE prevRoundTime
        /\ phase' = IF accept THEN "accepted" ELSE phase

\* finished: proposersFinished's answer; in: what shouldPause reads.
phaseEstablish(finished, in) ==
    /\ pc = "phase" /\ phase = "establish"
    /\ \/ /\ roundTime < ledgerMIN_CONSENSUS
          /\ UNCHANGED <<phase, prevProposers, prevRoundTime, acquired, result,
                         currPeerPositions, proposed>>
       \/ /\ roundTime >= ledgerMIN_CONSENSUS
          /\ \E closeTime \in closeTimeOutcomes :
                /\ updateOurPositions(closeTime.time)
                /\ haveConsensus(closeTime, finished, in)
    /\ endTimer
    /\ UNCHANGED <<envVars, mode, firstRound, openStart, prevCloseTime,
                   closedAt, ledgerVars, recentPeerPositions, deadNodes,
                   played>>

-----------------------------------------------------------------------------
\* Stand-alone mode: acceptLedger starts a round and at once simulates it.
simulate(txs, delay) ==
    /\ pc = "idle" /\ standalone /\ phase = "open"
    /\ closeLedger(txs)
    /\ phase' = "accepted"
    /\ prevProposers' = Cardinality(DOMAIN currPeerPositions)
    /\ prevRoundTime' = delay
    /\ UNCHANGED <<envVars, mode, firstRound, openStart, prevCloseTime,
                   ledgerVars, currPeerPositions, recentPeerPositions,
                   deadNodes, controlVars>>

tick ==
    /\ pc = "idle" /\ now < MaxTime
    /\ now' = now + 1
    /\ UNCHANGED <<standalone, phase, mode, roundVars, ledgerVars, positionVars,
                   recentPeerPositions, proposed, controlVars>>

-----------------------------------------------------------------------------
Init ==
    /\ now = 1
    /\ standalone \in BOOLEAN
    /\ phase = "accepted" /\ mode = "observing"
    /\ firstRound = TRUE
    /\ prevLedgerID = Genesis /\ previousLedger = Genesis
    /\ openStart = 0 /\ prevRoundTime = 0 /\ prevCloseTime = 0
    /\ prevProposers = 0 /\ closedAt = 0
    /\ acquired = {} /\ result = NoResult
    /\ currPeerPositions = Nothing
    /\ recentPeerPositions = [p \in Peers |-> <<>>]
    /\ deadNodes = {}
    /\ proposed = <<>>
    /\ pc = "idle" /\ depth = 0
    /\ played = [p \in Peers |-> 0]

\* Every transaction set can be looked up or not; the empty one always can.
MayHave(o) == IF o = {} THEN {TRUE} ELSE BOOLEAN

StartRound ==
    \E net, ledger \in Ledgers, have, proposing \in BOOLEAN,
       nowUntrusted \in TrustChanges :
        startRound(net, ledger, have, nowUntrusted, proposing)
PeerProposal ==
    \E m \in PeerMessages : \E have \in MayHave(m.position) :
        peerProposal(m.node, received(m), have)
GotTxSet == \E o \in TxSets : gotTxSet(o)
Playback ==
    \E p \in Peers :
        /\ played[p] < Len(recentPeerPositions[p])
        /\ \E have \in MayHave(recentPeerPositions[p][played[p] + 1].position) :
              playback(p, have)
TimerEntry == \E net \in Ledgers : timerEntry(net)
NestedTimerEntry == \E net \in Ledgers : nestedTimerEntry(net)
WrongLedgerReplayed == \E have \in BOOLEAN : wrongLedgerReplayed(have)
PhaseOpen ==
    \E any \in BOOLEAN, validated \in 0..Cardinality(Peers), txs \in TxSets :
        phaseOpen(any, validated, txs)
PhaseEstablish ==
    \E finished \in 0..Cardinality(Peers), in \in PauseInputs :
        phaseEstablish(finished, in)
Simulate == \E txs \in TxSets, delay \in RoundDelays : simulate(txs, delay)

\* The rest of an entry point that holds the mutex.
Continue ==
    \/ Playback \/ roundReplayed \/ NestedTimerEntry \/ WrongLedgerReplayed
    \/ PhaseOpen \/ PhaseEstablish

Next ==
    \/ StartRound \/ PeerProposal \/ GotTxSet \/ TimerEntry \/ Simulate
    \/ Continue \/ tick

Spec == Init /\ [][Next]_vars

\* Time passes, the heartbeat re-arms itself, and an entry point that was
\* begun returns.  tick waits for the mutex, so it needs strong fairness.
FairSpec == Spec /\ SF_vars(tick) /\ WF_vars(TimerEntry) /\ WF_vars(Continue)

-----------------------------------------------------------------------------
(* Properties *)

TypeOK ==
    /\ now \in Nat /\ standalone \in BOOLEAN
    /\ phase \in Phases /\ mode \in Modes /\ firstRound \in BOOLEAN
    /\ prevLedgerID \in Ledgers /\ previousLedger \in Ledgers
    /\ openStart \in Nat /\ prevRoundTime \in Nat /\ prevCloseTime \in Nat
    /\ prevProposers \in Nat /\ closedAt \in Nat
    /\ acquired \subseteq TxSets
    /\ result \in Results \cup {NoResult}
    /\ DOMAIN currPeerPositions \subseteq Peers
    /\ currPeerPositions \in [DOMAIN currPeerPositions -> Proposals]
    /\ recentPeerPositions \in [Peers -> Seq(Proposals)]
    /\ deadNodes \subseteq Peers
    /\ proposed \in Seq([seq : Nat, position : TxSets])
    /\ pc \in {"idle", "check", "wrong", "round", "phase"}
    /\ depth \in Nat
    /\ played \in [Peers -> Nat]

\* The votes of the result r, with the peers' positions curr and the sets acq.
VotesExact(r, curr, acq) ==
    \A t \in DOMAIN r.disputes :
        /\ r.disputes[t].yes \cup r.disputes[t].no \subseteq DOMAIN curr
        /\ r.disputes[t].yes \cap r.disputes[t].no = {}
        /\ \A p \in DOMAIN curr : curr[p].position \in acq =>
              p \in (IF t \in curr[p].position THEN r.disputes[t].yes
                     ELSE r.disputes[t].no)

\* The asserts of closeLedger (no result_ yet) and of phaseEstablish,
\* updateOurPositions and haveConsensus (result_ engaged) hold on every path,
\* the nested timerEntry of startRoundInternal included.
ResultMatchesPhase ==
    /\ phase = "open" => result = NoResult
    /\ phase = "establish" => result # NoResult

\* Our own set is among the acquired ones, so that gotTxSet can assert that a
\* newly acquired set is not our position.
OwnSetAcquired == result # NoResult => result.txns \in acquired

\* The votes counted on a dispute are those of the peers with a current
\* position, and the vote of a peer whose set is at hand says whether its set
\* has the transaction: no order of proposals, acquisitions, bow-outs, stale
\* peers and ledger changes leaves an outdated vote behind.
VotesFollowPositions ==
    result # NoResult => VotesExact(result, currPeerPositions, acquired)

\* Every transaction on which we differ from a peer whose set is at hand is
\* under dispute, whichever of the two moved last.
DifferencesDisputed ==
    result # NoResult =>
        \A p \in DOMAIN currPeerPositions :
            currPeerPositions[p].position \in acquired =>
                \A t \in Txs \ DOMAIN result.disputes :
                    t \in result.txns <=> t \in currPeerPositions[p].position

\* ourVote_ of a dispute says whether our set has the transaction.
OurVoteIsOurSet ==
    result # NoResult =>
        \A t \in DOMAIN result.disputes :
            result.disputes[t].our <=> t \in result.txns

\* The positions counted are of this round: for the ledger the network works
\* on, and of peers that did not bow out.
PositionsOfThisRound ==
    /\ DOMAIN currPeerPositions \cap deadNodes = {}
    /\ \A p \in DOMAIN currPeerPositions :
          /\ currPeerPositions[p].prevLedger = prevLedgerID
          /\ currPeerPositions[p].seq # SeqLeave

\* A node that works on another ledger than the network is in wrongLedger
\* mode whenever the mutex is free, and never proposes.
WrongLedgerKnown ==
    previousLedger # prevLedgerID =>
        /\ mode # "proposing"
        /\ pc # "wrong" => mode = "wrongLedger"

\* What the network last heard from a proposing node is its position; its
\* proposals are numbered without a gap and nothing follows a bow-out.
ProposalsInOrder ==
    /\ \A i \in DOMAIN proposed :
          proposed[i].seq = i - 1 \/ (i = Len(proposed) /\ proposed[i].seq = SeqLeave)
    /\ mode = "proposing" /\ result # NoResult =>
          /\ proposed # <<>>
          /\ proposed[Len(proposed)] = [seq |-> result.seq, position |-> result.txns]

\* A peer's position is never replaced by an older one, and a peer that bowed
\* out is not heard again, until the round or the preferred ledger changes.
PositionsMoveForward ==
    [][ \/ pc' = "round" \/ prevLedgerID' # prevLedgerID
        \/ /\ deadNodes \subseteq deadNodes'
           /\ \A p \in DOMAIN currPeerPositions \cap DOMAIN currPeerPositions' :
                \/ currPeerPositions'[p] = currPeerPositions[p]
                \/ currPeerPositions'[p].seq > currPeerPositions[p].seq ]_vars

\* A round that was closed early enough before the bound on the clock leaves
\* the establish phase once the peers fall silent: their positions go stale,
\* and shouldPause gives up after ledgerMAX_CONSENSUS.
EstablishEnds ==
    (/\ phase = "establish"
     /\ result.start + MaxOf(prevRoundTime + ledgerMIN_CONSENSUS,
                             ledgerMAX_CONSENSUS + 1) <= MaxTime)
        ~> phase # "establish"

=============================================================================
