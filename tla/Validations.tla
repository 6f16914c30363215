------------------------------ MODULE Validations ------------------------------
(* The validations a server has received: the newest of every validator, the  *)
(* validations of every ledger, the sequence each validator may still use,    *)
(* and the trie of the ledgers the trusted ones support                       *)
(* (consensus/Validations.h, with handleNewValidation and the adaptor of      *)
(* app/consensus/RCLValidations.cpp, and the trust update of                  *)
(* NetworkOPsImp::beginConsensus).                                            *)
(*                                                                            *)
(* Every method of Validations holds its mutex, so a call is one step.  The   *)
(* two callers that do more than one call are split where they let go: a      *)
(* validation is stamped trusted (Receive) before it is added (Add), and the  *)
(* validator list changes (UpdateTrusted) before the validations are told     *)
(* (TrustChanged).                                                            *)
(*                                                                            *)
(* A validation's sequence field is the sequence of its ledger.  One clock    *)
(* stands for the network clock and the steady clock; a validation is seen    *)
(* when it is received, so the seen-time test of isCurrent cannot fail.       *)
(* What getPreferred answers is in PreferredLedger; the enforcer of the       *)
(* server's own validations, which nothing here reads, in LedgerNetwork.      *)
EXTENDS LedgerTrie

CONSTANTS Nodes,        \* the listed validators
          Ledgers,      \* the ledgers they validate
          TrustedSets,  \* the sets of them that the server may come to trust
          Fullness,     \* the values of a validation's full flag
          Skews,        \* signing clocks, relative to this server's
          Queried,      \* the ledgers whose validations are looked up
          EARLY,        \* validationCURRENT_EARLY
          WALL,         \* validationCURRENT_WALL
          SET_EXPIRES,  \* validationSET_EXPIRES
          MayStop,      \* whether the server may be shut down
          MaxTime,      \* bound: the last tick of the clock
          MaxInFlight   \* bound: validations stamped and not yet added

ASSUME TimesAssumption ==
  /\ EARLY \in Nat /\ WALL \in Nat /\ SET_EXPIRES \in Nat
  /\ MaxTime \in Nat /\ MaxInFlight \in Nat
  /\ Skews \subseteq Int

ASSUME LedgersAssumption == Ledgers \subseteq Seq(Nat)

ASSUME TrustAssumption == TrustedSets \subseteq SUBSET Nodes

ASSUME FlagsAssumption == Fullness \subseteq BOOLEAN /\ MayStop \in BOOLEAN

VARIABLES now,          \* the clock
          trustedKeys,  \* ValidatorList::trustedKeys_
          changes,      \* TrustChanges not yet passed on to trustChanged
          inFlight,     \* validations between the stamp and the add
          current,      \* current_: node -> newest validation
          enforcers,    \* seqEnforcers_
          votes,        \* byLedger_: the validations kept per ledger and node
          touched,      \* when byLedger_ last used the entry of a ledger
          tally,        \* trie_, lastLedger_ and acquiring_
          have          \* the ledgers that acquire() finds

vars == <<now, trustedKeys, changes, inFlight, current, enforcers,
          votes, touched, tally, have>>

NoChanges == [added |-> {}, removed |-> {}]

Enforcer == [seq : Nat, when : Nat]

Validation == [node : Nodes, ledger : Ledgers, sign : Int, trusted : BOOLEAN, full : Fullness]

Vote == [node : Nodes, ledger : Ledgers, trusted : BOOLEAN, full : Fullness, at : Nat]

--------------------------------------------------------------------------------
(* SeqEnforcer and isCurrent *)

enforced(e) == [e EXCEPT !.seq = IF now > e.when + SET_EXPIRES THEN 0 ELSE @]

allows_Any(e, s) == TRUE

allows_Same(e, s) == s >= enforced(e).seq

allows(e, s) == s > enforced(e).seq

\* operator(): a refused sequence still leaves the reset behind.
enforce(e, s) == IF allows(e, s) THEN [seq |-> s, when |-> now] ELSE enforced(e)

isCurrent(sign) == sign > now - EARLY /\ sign < now + WALL

--------------------------------------------------------------------------------
(* trie_, lastLedger_ and acquiring_ *)

\* A map with the entries of g put in.
updated(f, g) == [x \in DOMAIN f \cup DOMAIN g |-> IF x \in DOMAIN g THEN g[x] ELSE f[x]]

only(n, x) == [m \in {n} |-> x]

\* The operations are stated for a map w from nodes to ledgers: the loops of the
\* code run over distinct nodes, so what one turn does to its node's entries of
\* lastLedger_ and acquiring_ is independent of the others.

\* Every node of w stops waiting for its ledger; an entry it leaves empty goes.
notAcquiring(acquiring, w) ==
  LET left(l) == acquiring[l] \ {n \in DOMAIN w : w[n] = l}
      emptied == {l \in DOMAIN acquiring : left(l) = {} /\ \E n \in DOMAIN w : w[n] = l}
  IN  [l \in DOMAIN acquiring \ emptied |-> left(l)]

counted(t, w) == {n \in DOMAIN w \cap DOMAIN t.last : t.last[n] = w[n]}

withoutSupport(t, w) ==
  FoldSet(LAMBDA n, u : remove(u, w[n], 1), t.trie, counted(t, w))

removeTrie_NoAcquiring(t, w) ==
  [trie |-> withoutSupport(t, w),
   last |-> Restrict(t.last, DOMAIN t.last \ counted(t, w)),
   acquiring |-> t.acquiring]

removeTrie_LeavesTrie(t, w) ==
  [trie |-> t.trie,
   last |-> Restrict(t.last, DOMAIN t.last \ counted(t, w)),
   acquiring |-> notAcquiring(t.acquiring, w)]

removeTrie(t, w) ==
  [trie |-> withoutSupport(t, w),
   last |-> Restrict(t.last, DOMAIN t.last \ counted(t, w)),
   acquiring |-> notAcquiring(t.acquiring, w)]

withSupport(t, w) ==
  LET without(u, n) == IF n \in DOMAIN t.last THEN remove(u, t.last[n], 1) ELSE u
  IN  FoldSet(LAMBDA n, u : insert(without(u, n), w[n], 1), t.trie, DOMAIN w)

\* updateTrie for ledgers at hand: the support of every node of w moves.
count(t, w) ==
  [trie |-> withSupport(t, w), last |-> updated(t.last, w), acquiring |-> t.acquiring]

\* checkAcquired: a node that waits for several of the ledgers at hand ends on
\* any of them, since the hash map is walked in any order.
checkAcquired(t) ==
  LET found   == DOMAIN t.acquiring \cap have
      waiting == UNION {t.acquiring[l] : l \in found}
      moves   == {w \in [waiting -> found] : \A n \in waiting : n \in t.acquiring[w[n]]}
  IN  {[count(t, w) EXCEPT !.acquiring = Restrict(@, DOMAIN @ \ found)] : w \in moves}

expect_Overwrites(t, w) ==
  LET ready   == {n \in DOMAIN w : w[n] \in have}
      late    == {w[n] : n \in DOMAIN w \ ready}
      waiting(l) == IF l \in late THEN {n \in DOMAIN w : w[n] = l} ELSE t.acquiring[l]
  IN  [count(t, Restrict(w, ready)) EXCEPT !.acquiring =
         [l \in DOMAIN t.acquiring \cup late |-> waiting(l)]]

\* A node whose ledger is already awaited, or is not at hand, waits.
expect(t, w) ==
  LET ready   == {n \in DOMAIN w : w[n] \notin DOMAIN t.acquiring /\ w[n] \in have}
      late    == {w[n] : n \in DOMAIN w \ ready}
      waiting(l) == IF l \in DOMAIN t.acquiring THEN t.acquiring[l] ELSE {}
  IN  [count(t, Restrict(w, ready)) EXCEPT !.acquiring =
         [l \in DOMAIN t.acquiring \cup late |->
            waiting(l) \cup {n \in DOMAIN w \ ready : w[n] = l}]]

\* updateTrie for validations of the ledgers w; prior: those they replace.
updateTrie(t, w, prior) ==
  {expect(u, w) : u \in checkAcquired([t EXCEPT !.acquiring = notAcquiring(@, prior)])}

--------------------------------------------------------------------------------
(* The stale validations that current() drops *)

ledgersOf(N) == [n \in N |-> current[n].ledger]

staleNodes == {n \in DOMAIN current : ~isCurrent(current[n].sign)}

freshened == removeTrie(tally, ledgersOf(staleNodes))

--------------------------------------------------------------------------------
Init ==
  /\ now = 0
  /\ trustedKeys \in TrustedSets
  /\ changes = NoChanges
  /\ inFlight = {}
  /\ current = <<>>
  /\ enforcers = [n \in Nodes |-> [seq |-> 0, when |-> 0]]
  /\ votes = {}
  /\ touched = <<>>
  /\ tally = [trie |-> EmptyTrie, last |-> <<>>, acquiring |-> <<>>]
  /\ have = {}

\* handleNewValidation up to the call of add: the validation is marked trusted
\* when its signer is on the list at this moment.
Receive(n, l, sign, full) ==
  /\ Cardinality(inFlight) < MaxInFlight
  /\ inFlight' = inFlight \cup
       {[node |-> n, ledger |-> l, sign |-> sign, trusted |-> n \in trustedKeys, full |-> full]}
  /\ UNCHANGED <<now, trustedKeys, changes, current, enforcers, votes, touched, tally, have>>

\* byLedger_[ledger] gets the validation, replacing the node's earlier one.
recorded(v) ==
  {w \in votes : w.node # v.node \/ w.ledger # v.ledger} \cup
    {[node |-> v.node, ledger |-> v.ledger, trusted |-> v.trusted, full |-> v.full, at |-> now]}

supersedes(v) == v.node \in DOMAIN current => v.sign > current[v.node].sign

add(v) ==
  IF ~isCurrent(v.sign) THEN UNCHANGED <<current, enforcers, votes, touched, tally>>
  ELSE /\ enforcers' = [enforcers EXCEPT ![v.node] = enforce(@, seq(v.ledger))]
       /\ IF ~allows(enforcers[v.node], seq(v.ledger))
            THEN UNCHANGED <<current, votes, touched, tally>>
            ELSE /\ votes' = recorded(v)
                 /\ touched' = touched @@ (v.ledger :> now)
                 /\ current' = IF supersedes(v) THEN updated(current, only(v.node, v)) ELSE current
                 /\ IF supersedes(v) /\ v.trusted
                      THEN tally' \in updateTrie(tally, only(v.node, v.ledger),
                                                 ledgersOf({v.node} \cap DOMAIN current))
                      ELSE UNCHANGED tally

Add(v) ==
  /\ inFlight' = inFlight \ {v}
  /\ add(v)
  /\ UNCHANGED <<now, trustedKeys, changes, have>>

\* beginConsensus: getCurrentNodeIDs drops the stale validations, then
\* updateTrusted changes the list.
UpdateTrusted(T) ==
  /\ changes = NoChanges
  /\ T # trustedKeys
  /\ trustedKeys' = T
  /\ changes' = [added |-> T \ trustedKeys, removed |-> trustedKeys \ T]
  /\ tally' = freshened
  /\ current' = Restrict(current, DOMAIN current \ staleNodes)
  /\ UNCHANGED <<now, inFlight, enforcers, votes, touched, have>>

\* The loop over current_ meets the nodes N that gained trust and the nodes
\* that lost it in any order.  Only the first of N can find ledgers that have
\* arrived; before are the nodes that lose their support before it.
retrusted(N, gone) ==
  IF N = {} THEN {removeTrie(tally, ledgersOf(gone))}
  ELSE UNION {{removeTrie(u, ledgersOf(gone \ before)) :
                 u \in updateTrie(removeTrie(tally, ledgersOf(before)), ledgersOf(N), <<>>)} :
               before \in SUBSET gone}

trustChanged(added, removed) ==
  LET stamp(n, old) == (old \/ n \in added) /\ n \notin removed \ added
  IN  /\ current' = [n \in DOMAIN current |->
                       [current[n] EXCEPT !.trusted = stamp(n, @)]]
      /\ votes' = {[w EXCEPT !.trusted = stamp(w.node, @)] : w \in votes}
      /\ tally' \in retrusted(DOMAIN current \cap added, DOMAIN current \cap (removed \ added))

TrustChanged ==
  /\ changes # NoChanges
  /\ trustChanged(changes.added, changes.removed)
  /\ changes' = NoChanges
  /\ UNCHANGED <<now, trustedKeys, inFlight, enforcers, touched, have>>

\* getCurrentNodeIDs, currentTrusted and laggards: current() drops what is stale.
DropStale ==
  /\ staleNodes # {}
  /\ tally' = freshened
  /\ current' = Restrict(current, DOMAIN current \ staleNodes)
  /\ UNCHANGED <<now, trustedKeys, changes, inFlight, enforcers, votes, touched, have>>

\* getPreferred and getNodesAfter: withTrie also looks for arrived ledgers.
WithTrie ==
  /\ tally' \in checkAcquired(freshened)
  /\ current' = Restrict(current, DOMAIN current \ staleNodes)
  /\ UNCHANGED <<now, trustedKeys, changes, inFlight, enforcers, votes, touched, have>>

\* numTrustedForLedger, getTrustedForLedger and fees touch the entry they read.
Touch(l) ==
  /\ l \in DOMAIN touched
  /\ touched' = [touched EXCEPT ![l] = now]
  /\ UNCHANGED <<now, trustedKeys, changes, inFlight, current, enforcers, votes, tally, have>>

expire ==
  LET old == {l \in DOMAIN touched : touched[l] <= now - SET_EXPIRES}
  IN  /\ old # {}
      /\ votes' = {w \in votes : w.ledger \notin old}
      /\ touched' = Restrict(touched, DOMAIN touched \ old)
      /\ UNCHANGED <<now, trustedKeys, changes, inFlight, current, enforcers, tally, have>>

\* flush, as the server stops, hands the current validations to the writer;
\* nothing else is reset.
flush ==
  /\ MayStop
  /\ current # <<>>
  /\ current' = <<>>
  /\ UNCHANGED <<now, trustedKeys, changes, inFlight, enforcers, votes, touched, tally, have>>

\* The inbound ledgers that acquire() asked for arrive in any order.
LedgerArrives(l) ==
  /\ l \notin have
  /\ have' = have \cup {l}
  /\ UNCHANGED <<now, trustedKeys, changes, inFlight, current, enforcers, votes, touched, tally>>

Tick ==
  /\ now < MaxTime
  /\ now' = now + 1
  /\ UNCHANGED <<trustedKeys, changes, inFlight, current, enforcers, votes, touched, tally, have>>

Next ==
  \/ \E n \in Nodes, l \in Ledgers, k \in Skews, f \in Fullness : Receive(n, l, now + k, f)
  \/ \E v \in inFlight : Add(v)
  \/ \E T \in TrustedSets : UpdateTrusted(T)
  \/ TrustChanged
  \/ DropStale
  \/ WithTrie
  \/ \E l \in Queried : Touch(l)
  \/ expire
  \/ flush
  \/ \E l \in Ledgers : LedgerArrives(l)
  \/ Tick

Spec == Init /\ [][Next]_vars

--------------------------------------------------------------------------------
(* Properties *)

TypeOK ==
  /\ now \in 0..MaxTime
  /\ trustedKeys \in TrustedSets
  /\ changes \in [added : SUBSET Nodes, removed : SUBSET Nodes]
  /\ inFlight \subseteq Validation
  /\ DOMAIN current \subseteq Nodes
  /\ \A n \in DOMAIN current : current[n] \in Validation /\ current[n].node = n
  /\ enforcers \in [Nodes -> Enforcer]
  /\ votes \subseteq Vote
  /\ DOMAIN touched = {w.ledger : w \in votes}
  /\ DOMAIN tally.last \subseteq Nodes /\ DOMAIN tally.acquiring \subseteq Ledgers
  /\ have \subseteq Ledgers

\* The trie counts every validator once, on the last of its ledgers that could
\* be acquired (lastLedger_), however updateTrie, checkAcquired and removeTrie
\* follow each other, and passes its own checkInvariants.
TrieCountsLastLedgers ==
  /\ checkInvariants(tally.trie)
  /\ \A l \in Ledgers :
       tipSupport(tally.trie, l) = Cardinality({n \in DOMAIN tally.last : tally.last[n] = l})

\* While the trusted set does not change, the newest validation of a trusted
\* node has its support in the trie, or waits in acquiring_ for its ledger.
TrustedCounted ==
  \A n \in DOMAIN current :
    LET l == current[n].ledger
    IN  current[n].trusted =>
          \/ n \in DOMAIN tally.last /\ tally.last[n] = l
          \/ l \in DOMAIN tally.acquiring /\ n \in tally.acquiring[l]

\* A node waits in acquiring_ only for the ledger of its newest validation, so a
\* ledger that arrives late cannot take the node's support back to the past.
PendingIsNewest ==
  \A l \in DOMAIN tally.acquiring :
    /\ tally.acquiring[l] # {}
    /\ \A n \in tally.acquiring[l] : n \in DOMAIN current /\ current[n].ledger = l

\* The support of a node only ever moves to a later ledger, though ledgers are
\* acquired in any order; SeqEnforcer sees to it for as long as it remembers the
\* node's last sequence, which a silence longer than SET_EXPIRES makes it forget.
SupportMovesForward ==
  [][\A n \in DOMAIN tally.last \cap DOMAIN tally'.last :
       tally.last[n] # tally'.last[n] => seq(tally.last[n]) < seq(tally'.last[n])]_vars

\* A validator's votes for two different ledgers of one sequence are never
\* counted within SET_EXPIRES of each other: SeqEnforcer refuses the second.
NoDoubleVotes ==
  \A v, w \in votes :
    v.node = w.node /\ v.ledger # w.ledger /\ seq(v.ledger) = seq(w.ledger) =>
      v.at > w.at + SET_EXPIRES \/ w.at > v.at + SET_EXPIRES

\* Every node counted in the trie has a trusted validation that is current: the
\* support of a validator is withdrawn when its validation becomes stale or its
\* trust ends.
SupportIsCurrent ==
  \A n \in DOMAIN tally.last : n \in DOMAIN current /\ current[n].trusted
================================================================================
