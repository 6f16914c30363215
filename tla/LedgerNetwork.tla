----------------------------- MODULE LedgerNetwork -----------------------------
(******************************************************************************)
(* The signing and counting of validations by a network of servers, with      *)
(* delays, losses, restarts and changing lists of trusted validators          *)
(* (RCLConsensus.cpp, Validations.h, ValidatorList.cpp, LedgerMaster.cpp and  *)
(* Application.cpp).                                                          *)
(*                                                                            *)
(* A server signs at most one ledger of a sequence: its sequence enforcer     *)
(* refuses the others.  The enforcer forgets when the server restarts, or     *)
(* signs nothing for validationSET_EXPIRES.  After a restart the server does  *)
(* not sign up to the last ledger in its table (getMaxDisallowedLedger), so   *)
(* only what it signed beyond that can be signed again; forgot records the    *)
(* validators to which this happened.                                         *)
(*                                                                            *)
(* A validation can arrive at any time or never; one that the receiver's      *)
(* enforcer refuses counts as lost.  Its trust is read from the list before   *)
(* it is added, and a new list reaches the validations held in a second step, *)
(* so the validations counted can be of several lists.                        *)
(******************************************************************************)
EXTENDS LedgerAgreement, SequencesExt

CONSTANTS
    Host,            \* the server each validator's key is on
    Lists,           \* the lists of trusted validators there can be
    FirstLists,      \* the list each server starts with
    MaxChanges       \* bound: restarts, expired enforcers and new lists

ASSUME HostAssumption == Host \in [Validators -> Servers]

ASSUME ListsAssumption ==
    Lists \subseteq SUBSET Validators /\ FirstLists \in [Servers -> Lists]

VARIABLES
    signed,          \* full validations sent so far
    largest,         \* the local SeqEnforcer of each validator
    maxDisallowed,   \* ApplicationImp::maxDisallowedLedger_
    saved,           \* the highest sequence in the Ledgers table
    trusted,         \* ValidatorList::trustedKeys_
    used,            \* the lists since the start, which a slow thread may have read
    trustChanges,    \* what updateTrusted found and trustChanged has not applied
    seen,            \* full validations each server holds
    flagged,         \* those of them marked as trusted
    valid,           \* LedgerMaster::mValidLedger
    lastValid,       \* LedgerMaster::mLastValidLedger
    changes          \* restarts, expiries and new lists so far (bound only)

vars == <<accepted, forgot, signed, largest, maxDisallowed, saved, trusted, used,
          trustChanges, seen, flagged, valid, lastValid, changes>>

None == <<>>

NoChanges == [added |-> {}, removed |-> {}]

numTrustedForLedger(F, l) == Cardinality({v \in Validators : <<v, l>> \in F})

Init ==
  /\ AInit
  /\ signed = {} /\ changes = 0
  /\ largest = [v \in Validators |-> 0]
  /\ maxDisallowed = [s \in Servers |-> 0] /\ saved = [s \in Servers |-> 0]
  /\ trusted = FirstLists /\ used = [s \in Servers |-> {FirstLists[s]}]
  /\ trustChanges = [s \in Servers |-> NoChanges]
  /\ seen = [s \in Servers |-> {}] /\ flagged = [s \in Servers |-> {}]
  /\ valid = [s \in Servers |-> None] /\ lastValid = [s \in Servers |-> None]

\* areCompatible with the validated ledger, and with the last one that had
\* enough validations: the older of two ledgers is an ancestor of the newer.
compatible(v, l) == v = None \/ IsPrefix(v, l) \/ IsPrefix(l, v)

compatibleLast(v, l) == v = None \/ seq(l) < seq(v) \/ IsPrefix(v, l)

isCompatible(s, l) == compatible(valid[s], l) /\ compatibleLast(lastValid[s], l)

canValidateSeq_Same(v, l) == seq(l) >= largest[v]

canValidateSeq(v, l) == seq(l) > largest[v]

stamp_Any(m, list) == {m}

stamp(m, list) == IF m[1] \in list THEN {m} ELSE {}

\* handleNewValidation on server s, which read the trust of m from the given list,
\* and checkAccept(hash, seq) up to the look-up.
handleNewValidation(s, m, list) ==
  /\ seen' = [seen EXCEPT ![s] = @ \cup {m}]
  /\ flagged' = [flagged EXCEPT ![s] = @ \cup stamp(m, list)]
  /\ lastValid' = [lastValid EXCEPT ![s] =
       IF /\ m[1] \in list
          /\ seq(m[2]) >= seq(valid[s])
          /\ numTrustedForLedger(flagged'[s], m[2]) >= quorum(trusted[s])
          /\ seq(m[2]) > seq(@)
         THEN m[2] ELSE @]

\* The end of doAccept.  A server that does not propose signs a partial
\* validation, which nobody counts.  Its own enforcer for others' validations may
\* refuse a full one only if a later one came back to it.
Validate(v, l, full, held) ==
  /\ seq(l) - 1 >= maxDisallowed[Host[v]]
  /\ isCompatible(Host[v], l)
  /\ canValidateSeq(v, l)
  /\ largest' = [largest EXCEPT ![v] = seq(l)]
  /\ held => full
  /\ full /\ ~held => \E m \in seen[Host[v]] : m[1] = v /\ seq(m[2]) >= seq(l)
  /\ signed' = IF full THEN signed \cup {<<v, l>>} ELSE signed
  /\ IF held THEN handleNewValidation(Host[v], <<v, l>>, trusted[Host[v]])
             ELSE UNCHANGED <<seen, flagged, lastValid>>
  /\ UNCHANGED <<accepted, forgot, maxDisallowed, saved, trusted, used, trustChanges, valid, changes>>

HandleNewValidation(s, m, list) ==
  /\ m \in signed \ seen[s]
  /\ handleNewValidation(s, m, list)
  /\ UNCHANGED <<accepted, forgot, signed, largest, maxDisallowed, saved, trusted, used, trustChanges,
                 valid, changes>>

\* The validators an acceptance by the quorum of a list rests on.
counted(s, l, list) ==
  IF {v \in Validators : <<v, l>> \in flagged[s]} \subseteq list THEN list ELSE list \cup UNION used[s]

\* checkAccept(ledger), whenever the server has the ledger.  It reads the quorum
\* before it counts.
CheckAccept(s, l, list) ==
  /\ seq(l) > seq(valid[s])
  /\ numTrustedForLedger(flagged[s], l) >= quorum(list)
  /\ valid' = [valid EXCEPT ![s] = l]
  /\ accepted' = [accepted EXCEPT ![s] = @ \cup
       {[ledger |-> l, list |-> counted(s, l, list), need |-> quorum(list)]}]
  /\ UNCHANGED <<forgot, signed, largest, maxDisallowed, saved, trusted, used, trustChanges, seen, flagged,
                 lastValid, changes>>

\* pendSaveValidated of the validated ledgers, in the order of their sequences.
Save(s) ==
  /\ saved[s] < seq(valid[s])
  /\ saved' = [saved EXCEPT ![s] = @ + 1]
  /\ UNCHANGED <<accepted, forgot, signed, largest, maxDisallowed, trusted, used, trustChanges, seen, flagged,
                 valid, lastValid, changes>>

\* beginConsensus: ValidatorList::updateTrusted, and trustChanged after it.
UpdateTrusted(s, list) ==
  /\ changes < MaxChanges /\ trusted[s] # list /\ trustChanges[s] = NoChanges
  /\ changes' = changes + 1
  /\ trusted' = [trusted EXCEPT ![s] = list]
  /\ used' = [used EXCEPT ![s] = @ \cup {list}]
  /\ trustChanges' = [trustChanges EXCEPT ![s] =
       [added |-> list \ trusted[s], removed |-> trusted[s] \ list]]
  /\ UNCHANGED <<accepted, forgot, signed, largest, maxDisallowed, saved, seen, flagged, valid, lastValid>>

TrustChanged(s) ==
  /\ trustChanges[s] # NoChanges
  /\ trustChanges' = [trustChanges EXCEPT ![s] = NoChanges]
  /\ flagged' = [flagged EXCEPT ![s] =
       {m \in seen[s] : \/ m[1] \in trustChanges[s].added
                        \/ m \in @ /\ m[1] \notin trustChanges[s].removed}]
  /\ UNCHANGED <<accepted, forgot, signed, largest, maxDisallowed, saved, trusted, used, seen, valid, lastValid,
                 changes>>

\* The keys among V that have signed beyond the sequence n.
signedBeyond(V, n) == {v \in V : \E l \in Ledgers : <<v, l>> \in signed /\ seq(l) > n}

Hosted(s) == {v \in Validators : Host[v] = s}

setMaxDisallowedLedger(s) == saved[s]

Restart(s) ==
  /\ changes < MaxChanges
  /\ changes' = changes + 1
  /\ maxDisallowed' = [maxDisallowed EXCEPT ![s] = setMaxDisallowedLedger(s)]
  /\ largest' = [v \in Validators |-> IF Host[v] = s THEN 0 ELSE largest[v]]
  /\ forgot' = forgot \cup signedBeyond(Hosted(s), saved[s])
  /\ used' = [used EXCEPT ![s] = {trusted[s]}]
  /\ trustChanges' = [trustChanges EXCEPT ![s] = NoChanges]
  /\ seen' = [seen EXCEPT ![s] = {}] /\ flagged' = [flagged EXCEPT ![s] = {}]
  /\ valid' = [valid EXCEPT ![s] = None]
  /\ lastValid' = [lastValid EXCEPT ![s] = None]
  /\ UNCHANGED <<accepted, signed, saved, trusted>>

\* SeqEnforcer: after validationSET_EXPIRES without a validation of ours.
EnforcerExpires(v) ==
  /\ changes < MaxChanges
  /\ changes' = changes + 1
  /\ largest[v] # 0
  /\ largest' = [largest EXCEPT ![v] = 0]
  /\ forgot' = forgot \cup signedBeyond({v}, maxDisallowed[Host[v]])
  /\ UNCHANGED <<accepted, signed, maxDisallowed, saved, trusted, used, trustChanges, seen, flagged, valid,
                 lastValid>>

Next ==
  \/ \E v \in Validators, l \in Ledgers, full, held \in BOOLEAN : Validate(v, l, full, held)
  \/ \E s \in Servers : \E m \in signed, list \in used[s] : HandleNewValidation(s, m, list)
  \/ \E s \in Servers, l \in Ledgers : \E list \in used[s] : CheckAccept(s, l, list)
  \/ \E s \in Servers, list \in Lists : UpdateTrusted(s, list)
  \/ \E s \in Servers : TrustChanged(s) \/ Save(s) \/ Restart(s)
  \/ \E v \in Validators : EnforcerExpires(v)

Spec == Init /\ [][Next]_vars

--------------------------------------------------------------------------------
\* A validator that has not forgotten signs one ledger of a sequence, across
\* restarts and whatever ledgers its server follows in between.
NoDoubleSigning ==
  \A v \in Validators \ forgot : \A l, m \in Ledgers :
     <<v, l>> \in signed /\ <<v, m>> \in signed /\ seq(l) = seq(m) => l = m

\* The network keeps the promise of LedgerAgreement: servers whose quorums share
\* a validator that has not forgotten never validate two ledgers of a sequence.
ImplementsAgreement == ASpec
================================================================================
