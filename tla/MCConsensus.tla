----------------------------- MODULE MCConsensus -----------------------------
(* Small instances of Consensus for TLC. *)
EXTENDS Consensus, TLC

CONSTANTS p1, p2, t1, t2, L1, L2

MCResolutions == <<1, 2>>

Header(n, at, agree) ==
    [seq |-> n, closeTime |-> at, parentCloseTime |-> 0, closeAgree |-> agree,
     resolution |-> 1, fix1528 |-> agree]

MCOneLedger == [l \in {L1} |-> Header(1, 1, TRUE)]
MCTwoLedgers == (L1 :> Header(1, 0, TRUE)) @@ (L2 :> Header(2, 1, FALSE))

MCPause == {[ahead |-> 1, laggards |-> 1, offline |-> 0, validators |-> 3,
             quorum |-> q, validator |-> TRUE, haveValidated |-> TRUE]
            : q \in {2, 3}}

Prop(p, l, set, n, at) ==
    [node |-> p, prevLedger |-> l, position |-> set, seq |-> n, closeTime |-> at]

\* Two peers that change position, and one that bows out, on one ledger.
MCDisputeMessages ==
    {Prop(p1, L1, {t1}, 0, 1), Prop(p1, L1, {t1, t2}, 1, 2),
     Prop(p2, L1, {t2}, 0, 1), Prop(p2, L1, {}, SeqLeave, 1)}

MCNoTrustChange == {{}}
MCTrustChanges == {{}, {p1}}

\* Proposals for both ledgers.
MCLedgerMessages ==
    {Prop(p1, L1, {t1}, 0, 1), Prop(p1, L2, {t1}, 0, 1),
     Prop(p2, L1, {t1}, SeqLeave, 1)}
=============================================================================
