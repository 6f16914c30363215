---------------------------- MODULE ConsensusRules ----------------------------
(***************************************************************************)
(* The rules a consensus round is decided by, as functions of their        *)
(* inputs: close time rounding (LedgerTiming.h), when to close, accept or  *)
(* pause (Consensus.cpp, Consensus.h) and the vote on a disputed           *)
(* transaction (DisputedTx.h).  Times are in the unit of the constants.    *)
(***************************************************************************)
EXTENDS Integers, FiniteSets, Sequences

CONSTANTS
    Resolutions,    \* ledgerPossibleTimeResolutions
    ledgerMIN_CONSENSUS, ledgerMAX_CONSENSUS, ledgerMIN_CLOSE,
    LongGap         \* the 10 minutes of shouldCloseLedger

ASSUME RulesAssumption ==
    /\ Resolutions \in Seq(Nat \ {0})
    /\ ledgerMIN_CONSENSUS \in Nat \ {0}
    /\ ledgerMAX_CONSENSUS \in Nat

MaxOf(a, b) == IF a >= b THEN a ELSE b

-----------------------------------------------------------------------------
(* LedgerTiming.h *)

getNextLedgerTimeResolution(previousResolution, previousAgree, seq) ==
    LET at == {i \in DOMAIN Resolutions : Resolutions[i] = previousResolution}
        i == CHOOSE i \in at : TRUE
    IN  IF at = {} THEN previousResolution
        ELSE IF ~previousAgree /\ i < Len(Resolutions) THEN Resolutions[i + 1]
        ELSE IF previousAgree /\ seq % 8 = 0 /\ i > 1 THEN Resolutions[i - 1]
        ELSE previousResolution

roundCloseTime(closeTime, resolution) ==
    IF closeTime = 0 THEN 0
    ELSE LET t == closeTime + (resolution \div 2) IN t - (t % resolution)

effCloseTime(closeTime, resolution, priorCloseTime) ==
    IF closeTime = 0 THEN 0
    ELSE MaxOf(roundCloseTime(closeTime, resolution), priorCloseTime + 1)

-----------------------------------------------------------------------------
(* ConsensusParms.h and Consensus.cpp *)

minCONSENSUS_PCT == 80
avCT_CONSENSUS_PCT == 75

\* The share of votes a position needs, by how long the round has lasted.
neededWeight(percentTime) ==
    CASE percentTime < 50 -> 50
      [] percentTime >= 50 /\ percentTime < 85 -> 65
      [] percentTime >= 85 /\ percentTime < 200 -> 70
      [] percentTime >= 200 -> 95

participantsNeeded(participants, percent) ==
    MaxOf(1, (participants * percent + percent \div 2) \div 100)

shouldCloseLedger(any, prevProposers, closed, validated, prevTime, sinceClose, openTime, idle) ==
    \/ prevTime > LongGap \/ sinceClose > LongGap
    \/ closed + validated > prevProposers \div 2
    \/ ~any /\ sinceClose >= idle
    \/ any /\ openTime >= ledgerMIN_CLOSE /\ openTime >= prevTime \div 2

checkConsensusReached(agreeing, total, countSelf) ==
    LET self == IF countSelf THEN 1 ELSE 0
    IN  total = 0 \/ ((agreeing + self) * 100) \div (total + self) >= minCONSENSUS_PCT

checkConsensus(prevProposers, proposers, agree, finished, prevTime, time, proposing) ==
    IF \/ time <= ledgerMIN_CONSENSUS
       \/ proposers < (prevProposers * 3) \div 4 /\ time < prevTime + ledgerMIN_CONSENSUS
    THEN "No"
    ELSE IF checkConsensusReached(agree, proposers, proposing) THEN "Yes"
    ELSE IF checkConsensusReached(finished, proposers, FALSE) THEN "MovedOn"
    ELSE "No"

\* in: what the adaptor answers; the quotients of the default case are
\* cross-multiplied.
shouldPause(in, roundTime) ==
    LET behind == in.laggards + in.offline
        stage == (in.ahead - 1) % 5
    IN  /\ in.ahead > 0 /\ in.laggards > 0 /\ in.validators > 0
        /\ in.validator /\ in.haveValidated
        /\ roundTime <= ledgerMAX_CONSENSUS
        /\ CASE stage = 0 -> behind > in.validators - in.quorum
             [] stage = 4 -> TRUE
             [] OTHER -> 4 * (in.validators - behind)
                         < 4 * in.quorum + (in.validators - in.quorum) * stage

-----------------------------------------------------------------------------
(* DisputedTx.h: yays_ and nays_ are the sizes of yes and no. *)

setVotes(d, P, votesYes) ==
    [d EXCEPT !.yes = IF votesYes THEN @ \cup P ELSE @ \ P,
              !.no  = IF votesYes THEN @ \ P ELSE @ \cup P]

\* Mutation: a peer that leaves keeps its votes.
unVotes_Kept(d, P) == d

unVotes(d, P) == [d EXCEPT !.yes = @ \ P, !.no = @ \ P]

\* The value of ourVote_ after updateVote.
updateVote(d, percentTime, proposing) ==
    LET yays == Cardinality(d.yes)
        nays == Cardinality(d.no)
        weight == (yays * 100 + (IF d.our THEN 100 ELSE 0)) \div (nays + yays + 1)
        unanimous == IF d.our THEN nays = 0 ELSE yays = 0
    IN  IF unanimous THEN d.our
        ELSE IF proposing THEN weight > neededWeight(percentTime)
        ELSE yays > nays

=============================================================================
