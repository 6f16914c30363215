-------------------------- MODULE Validations_proofs --------------------------
(* Proofs that no validator is counted twice for one sequence within           *)
(* SET_EXPIRES, that a trusted one is always counted or awaited, and that its *)
(* support only moves forward.                                                *)
(*                                                                            *)
(* NoDoubleVotes speaks of pairs of votes and says nothing of the enforcer    *)
(* that keeps it true.  IInv adds what ties the two: the enforcer of a node   *)
(* is at least as late as each of its votes, and as long as a vote is not     *)
(* older than SET_EXPIRES the enforcer has not forgotten its sequence.        *)
(*                                                                            *)
(* Settled relates current_, lastLedger_ and acquiring_: a node waits for at  *)
(* most the ledger of its newest validation, and the newest trusted           *)
(* validation of every node is counted or awaited.  It holds while the        *)
(* trusted set stays and the server runs (Steady): a validation stamped       *)
(* before the list changed supersedes the node's newest one without leaving   *)
(* acquiring_, and flush empties current_ but not acquiring_.  Forward adds   *)
(* that the enforcer is never behind what is counted, current or awaited,     *)
(* which SeqEnforcer gives up after SET_EXPIRES of silence.                   *)
EXTENDS Validations, TLAPS

Behind(w, e) ==
  /\ w.at <= e.when
  /\ now <= w.at + SET_EXPIRES => seq(w.ledger) <= e.seq

IInv ==
  /\ now \in Nat
  /\ inFlight \subseteq Validation
  /\ enforcers \in [Nodes -> Enforcer]
  /\ \A n \in Nodes : enforcers[n].when <= now
  /\ votes \subseteq Vote
  /\ \A w \in votes : Behind(w, enforcers[w.node])
  /\ NoDoubleVotes

--------------------------------------------------------------------------------
LEMMA SeqType == ASSUME NEW l \in Ledgers PROVE seq(l) \in Nat
BY LedgersAssumption DEF seq

\* SeqEnforcer's call: the new state is an enforcer, no earlier than before,
\* and a sequence it allows lies beyond what an unexpired one remembers.
LEMMA EnforceStep ==
  ASSUME now \in Nat, NEW e \in Enforcer, e.when <= now, NEW s \in Nat
  PROVE  /\ enforce(e, s) \in Enforcer
         /\ e.when <= enforce(e, s).when /\ enforce(e, s).when <= now
         /\ now <= e.when + SET_EXPIRES => e.seq <= enforce(e, s).seq
         /\ allows(e, s) => enforce(e, s) = [seq |-> s, when |-> now]
         /\ allows(e, s) /\ now <= e.when + SET_EXPIRES => e.seq < s
BY TimesAssumption DEF enforce, allows, enforced, Enforcer

LEMMA InitIInv == Init => IInv
BY DEF Init, IInv, Enforcer, NoDoubleVotes

\* A step that leaves the enforcers alone, only drops votes or changes their
\* trust, and lets the clock go on, keeps the invariant.
LEMMA Kept ==
  ASSUME IInv, now' \in Nat, now <= now', UNCHANGED enforcers,
         inFlight' \subseteq Validation,
         votes' \subseteq Vote,
         \A w \in votes' : \E v \in votes :
            v.node = w.node /\ v.ledger = w.ledger /\ v.at = w.at
  PROVE  IInv'
<1>1. \A w \in votes' : Behind(w, enforcers[w.node])'
  <2> SUFFICES ASSUME NEW w \in votes' PROVE Behind(w, enforcers[w.node])'
    OBVIOUS
  <2>1. PICK v \in votes : v.node = w.node /\ v.ledger = w.ledger /\ v.at = w.at
    OBVIOUS
  <2>2. Behind(v, enforcers[v.node]) /\ v \in Vote
    BY <2>1 DEF IInv
  <2>3. v.at \in Nat /\ seq(v.ledger) \in Nat
    BY <2>2, SeqType DEF Vote
  <2> QED
    BY <2>1, <2>2, <2>3, TimesAssumption DEF IInv, Behind
<1>2. NoDoubleVotes'
  <2> SUFFICES ASSUME NEW a \in votes', NEW b \in votes',
                      a.node = b.node, a.ledger # b.ledger, seq(a.ledger) = seq(b.ledger)
               PROVE  a.at > b.at + SET_EXPIRES \/ b.at > a.at + SET_EXPIRES
    BY DEF NoDoubleVotes
  <2>1. PICK v \in votes : v.node = a.node /\ v.ledger = a.ledger /\ v.at = a.at
    OBVIOUS
  <2>2. PICK w \in votes : w.node = b.node /\ w.ledger = b.ledger /\ w.at = b.at
    OBVIOUS
  <2>3. v.at > w.at + SET_EXPIRES \/ w.at > v.at + SET_EXPIRES
    BY <2>1, <2>2 DEF IInv, NoDoubleVotes
  <2> QED
    BY <2>1, <2>2, <2>3
<1>3. \A n \in Nodes : enforcers'[n].when <= now'
  BY DEF IInv, Enforcer
<1> QED
  BY <1>1, <1>2, <1>3 DEF IInv

\* A validation that add() counts: the enforcer allowed its sequence, so the
\* node's unexpired votes are all for earlier ones.
LEMMA Counted ==
  ASSUME IInv, NEW v \in Validation, UNCHANGED now,
         inFlight' \subseteq Validation,
         allows(enforcers[v.node], seq(v.ledger)),
         enforcers' = [enforcers EXCEPT ![v.node] = enforce(@, seq(v.ledger))],
         votes' = recorded(v)
  PROVE  IInv'
<1> DEFINE e == enforcers[v.node]
           s == seq(v.ledger)
           x == [node |-> v.node, ledger |-> v.ledger, trusted |-> v.trusted,
                 full |-> v.full, at |-> now]
<1>1. v.node \in Nodes /\ v.ledger \in Ledgers /\ s \in Nat /\ e \in Enforcer /\ e.when <= now
  BY SeqType DEF IInv, Validation
<1>2. e.when \in Nat /\ e.seq \in Nat /\ now \in Nat
  BY <1>1 DEF Enforcer, IInv
<1>3. /\ enforcers'[v.node] = [seq |-> s, when |-> now]
      /\ enforcers' \in [Nodes -> Enforcer]
      /\ now <= e.when + SET_EXPIRES => e.seq < s
  BY <1>1, EnforceStep, Zenon DEF IInv, Enforcer
<1>4. \A n \in Nodes \ {v.node} : enforcers'[n] = enforcers[n]
  BY DEF IInv
<1>5. x \in Vote
  BY <1>1, <1>2 DEF Vote, Validation
<1>6. votes' \subseteq votes \cup {x}
  BY DEF recorded
<1>7. \A w \in votes : w.node = v.node /\ now <= w.at + SET_EXPIRES => seq(w.ledger) < s
  <2> SUFFICES ASSUME NEW w \in votes, w.node = v.node, now <= w.at + SET_EXPIRES
               PROVE  seq(w.ledger) < s
    OBVIOUS
  <2>1. w \in Vote /\ Behind(w, e)
    BY DEF IInv
  <2>2. w.at \in Nat /\ seq(w.ledger) \in Nat
    BY <2>1, SeqType DEF Vote
  <2> QED
    BY <1>1, <1>2, <1>3, <2>1, <2>2, TimesAssumption DEF Behind
<1>8. \A w \in votes : w.at \in Nat /\ seq(w.ledger) \in Nat /\ w.at <= now
  <2> TAKE w \in votes
  <2>1. w \in Vote /\ Behind(w, enforcers[w.node]) /\ enforcers[w.node].when <= now
    BY DEF IInv, Vote
  <2>2. w.at \in Nat /\ seq(w.ledger) \in Nat /\ enforcers[w.node].when \in Nat
    BY <2>1, SeqType DEF Vote, IInv, Enforcer
  <2> QED
    BY <1>2, <2>1, <2>2 DEF Behind
<1> HIDE DEF x, e, s
<1>9. \A w \in votes' : Behind(w, enforcers[w.node])'
  <2> SUFFICES ASSUME NEW w \in votes' PROVE Behind(w, enforcers[w.node])'
    OBVIOUS
  <2>1. CASE w = x
    BY <2>1, <1>1, <1>2, <1>3, TimesAssumption DEF Behind, x, s
  <2>2. CASE w \in votes /\ w.node = v.node
    BY <2>2, <1>1, <1>2, <1>3, <1>7, <1>8, TimesAssumption DEF Behind
  <2>3. CASE w \in votes /\ w.node # v.node
    <3>1. enforcers'[w.node] = enforcers[w.node] /\ Behind(w, enforcers[w.node])
      BY <2>3, <1>4 DEF IInv, Vote
    <3> QED
      BY <3>1 DEF Behind
  <2> QED
    BY <1>6, <2>1, <2>2, <2>3
<1>10. \A w \in votes : w.node = v.node /\ seq(w.ledger) = s => now > w.at + SET_EXPIRES
  BY <1>1, <1>2, <1>7, <1>8, TimesAssumption
<1>11. NoDoubleVotes'
  <2> SUFFICES ASSUME NEW a \in votes', NEW b \in votes',
                      a.node = b.node, a.ledger # b.ledger, seq(a.ledger) = seq(b.ledger)
               PROVE  a.at > b.at + SET_EXPIRES \/ b.at > a.at + SET_EXPIRES
    BY DEF NoDoubleVotes
  <2>1. x.node = v.node /\ seq(x.ledger) = s /\ x.at = now
    BY DEF x, s
  <2>2. CASE a = x /\ b \in votes
    BY <2>1, <2>2, <1>10
  <2>3. CASE b = x /\ a \in votes
    BY <2>1, <2>3, <1>10
  <2>4. CASE a \in votes /\ b \in votes
    BY <2>4 DEF IInv, NoDoubleVotes
  <2> QED
    BY <1>6, <2>2, <2>3, <2>4
<1>12. \A n \in Nodes : enforcers'[n].when <= now'
  BY <1>2, <1>3, <1>4 DEF IInv
<1> QED
  BY <1>2, <1>3, <1>5, <1>6, <1>9, <1>11, <1>12 DEF IInv

\* A validation the enforcer refuses may leave a reset behind, which forgets
\* only sequences that have expired.
LEMMA Refused ==
  ASSUME IInv, NEW v \in Validation, UNCHANGED <<now, votes>>,
         inFlight' \subseteq Validation,
         enforcers' = [enforcers EXCEPT ![v.node] = enforce(@, seq(v.ledger))]
  PROVE  IInv'
<1> DEFINE e == enforcers[v.node]
           s == seq(v.ledger)
           f == enforce(e, s)
<1>1. v.node \in Nodes /\ s \in Nat /\ e \in Enforcer /\ e.when <= now /\ now \in Nat
  BY SeqType DEF IInv, Validation
<1>2. /\ f \in Enforcer
      /\ e.when <= f.when /\ f.when <= now
      /\ now <= e.when + SET_EXPIRES => e.seq <= f.seq
  BY <1>1, EnforceStep
<1>3. enforcers' = [enforcers EXCEPT ![v.node] = f]
  OBVIOUS
<1>4. e.when \in Nat /\ e.seq \in Nat /\ f.when \in Nat /\ f.seq \in Nat
  BY <1>1, <1>2 DEF Enforcer
<1> HIDE DEF e, s, f
<1>5. /\ enforcers'[v.node] = f
      /\ enforcers' \in [Nodes -> Enforcer]
      /\ \A n \in Nodes \ {v.node} : enforcers'[n] = enforcers[n]
  BY <1>1, <1>2, <1>3 DEF IInv
<1>6. \A w \in votes : Behind(w, enforcers[w.node])'
  <2> SUFFICES ASSUME NEW w \in votes PROVE Behind(w, enforcers[w.node])'
    OBVIOUS
  <2>1. w \in Vote /\ Behind(w, enforcers[w.node])
    BY DEF IInv
  <2>2. w.at \in Nat /\ seq(w.ledger) \in Nat /\ w.node \in Nodes
    BY <2>1, SeqType DEF Vote
  <2>3. CASE w.node = v.node
    BY <1>1, <1>2, <1>4, <1>5, <2>1, <2>2, <2>3, TimesAssumption DEF Behind, e
  <2>4. CASE w.node # v.node
    BY <1>5, <2>1, <2>2, <2>4 DEF Behind
  <2> QED
    BY <2>3, <2>4
<1>7. NoDoubleVotes'
  BY DEF NoDoubleVotes, IInv
<1>8. \A n \in Nodes : enforcers'[n].when <= now'
  BY <1>2, <1>5 DEF IInv
<1> QED
  BY <1>1, <1>5, <1>6, <1>7, <1>8 DEF IInv

LEMMA AddStep ==
  ASSUME IInv, NEW v \in inFlight, Add(v)
  PROVE  IInv'
<1>1. v \in Validation /\ inFlight' \subseteq Validation /\ UNCHANGED now
  BY DEF IInv, Add
<1>2. CASE ~isCurrent(v.sign)
  <2>1. UNCHANGED <<enforcers, votes>>
    BY <1>2 DEF Add, add
  <2> QED
    BY <1>1, <2>1, Kept DEF IInv
<1>3. CASE isCurrent(v.sign) /\ ~allows(enforcers[v.node], seq(v.ledger))
  <2>1. UNCHANGED votes /\ enforcers' = [enforcers EXCEPT ![v.node] = enforce(@, seq(v.ledger))]
    BY <1>3 DEF Add, add
  <2> QED
    BY <1>1, <2>1, Refused, Zenon
<1>4. CASE isCurrent(v.sign) /\ allows(enforcers[v.node], seq(v.ledger))
  <2>1. votes' = recorded(v) /\ enforcers' = [enforcers EXCEPT ![v.node] = enforce(@, seq(v.ledger))]
    BY <1>4 DEF Add, add
  <2> QED
    BY <1>1, <1>4, <2>1, Counted, Zenon
<1> QED
  BY <1>2, <1>3, <1>4

LEMMA ReceiveStep ==
  ASSUME IInv, NEW n \in Nodes, NEW l \in Ledgers, NEW k \in Skews, NEW f \in Fullness,
         Receive(n, l, now + k, f)
  PROVE  IInv'
<1>1. now + k \in Int
  BY TimesAssumption DEF IInv
<1>2. inFlight' \subseteq Validation
  <2> DEFINE b == n \in trustedKeys
             x == [node |-> n, ledger |-> l, sign |-> now + k, trusted |-> b, full |-> f]
  <2>1. inFlight' = inFlight \cup {x}
    BY DEF Receive
  <2>2. b \in BOOLEAN
    OBVIOUS
  <2> HIDE DEF b
  <2>3. x \in Validation
    BY <1>1, <2>2 DEF Validation
  <2> QED
    BY <2>1, <2>3 DEF IInv
<1>3. UNCHANGED <<now, enforcers, votes>>
  BY DEF Receive
<1>4. now \in Nat /\ votes \subseteq Vote
  BY DEF IInv
<1> QED
  BY <1>2, <1>3, <1>4, Kept

\* trustChanged only changes the trusted flag of the votes.
LEMMA TrustStep ==
  ASSUME IInv, TrustChanged
  PROVE  IInv'
<1> DEFINE stamp(n, old) == (old \/ n \in changes.added) /\ n \notin changes.removed \ changes.added
<1>1. votes' = {[w EXCEPT !.trusted = stamp(w.node, @)] : w \in votes}
  BY DEF TrustChanged, trustChanged
<1>2. UNCHANGED <<now, inFlight, enforcers>>
  BY DEF TrustChanged
<1> HIDE DEF stamp
<1>3. \A b \in votes' : \E w \in votes : b = [w EXCEPT !.trusted = stamp(w.node, @)]
  BY <1>1
<1>4. \A n, b : stamp(n, b) \in BOOLEAN
  BY DEF stamp
<1>5. votes \subseteq Vote
  BY DEF IInv
<1>6. votes' \subseteq Vote
  BY <1>3, <1>4, <1>5 DEF Vote
<1>7. \A b \in votes' : \E w \in votes : w.node = b.node /\ w.ledger = b.ledger /\ w.at = b.at
  BY <1>3, <1>5 DEF Vote
<1> QED
  BY <1>2, <1>6, <1>7, Kept DEF IInv

LEMMA NextStep == IInv /\ [Next]_vars => IInv'
<1> SUFFICES ASSUME IInv, [Next]_vars PROVE IInv'
  OBVIOUS
<1>1. \A w \in votes : \E v \in votes : v.node = w.node /\ v.ledger = w.ledger /\ v.at = w.at
  OBVIOUS
<1>2. ASSUME UNCHANGED <<now, inFlight, enforcers>>, votes' \subseteq votes PROVE IInv'
  BY <1>1, <1>2, Kept DEF IInv
<1>3. ASSUME NEW n \in Nodes, NEW l \in Ledgers, NEW k \in Skews, NEW f \in Fullness,
             Receive(n, l, now + k, f)
      PROVE  IInv'
  BY <1>3, ReceiveStep
<1>4. ASSUME NEW v \in inFlight, Add(v) PROVE IInv'
  BY <1>4, AddStep
<1>5. ASSUME NEW T \in TrustedSets, UpdateTrusted(T) PROVE IInv'
  BY <1>2, <1>5 DEF UpdateTrusted
<1>6. CASE TrustChanged
  BY <1>6, TrustStep
<1>7. CASE DropStale
  BY <1>2, <1>7 DEF DropStale
<1>8. CASE WithTrie
  BY <1>2, <1>8 DEF WithTrie
<1>9. ASSUME NEW l \in Queried, Touch(l) PROVE IInv'
  BY <1>2, <1>9 DEF Touch
<1>10. CASE expire
  BY <1>2, <1>10 DEF expire
<1>11. CASE flush
  BY <1>2, <1>11 DEF flush
<1>12. ASSUME NEW l \in Ledgers, LedgerArrives(l) PROVE IInv'
  BY <1>2, <1>12 DEF LedgerArrives
<1>13. CASE Tick
  <2>1. now' \in Nat /\ now <= now' /\ UNCHANGED <<inFlight, enforcers, votes>>
    BY <1>13 DEF Tick, IInv
  <2> QED
    BY <1>1, <2>1, Kept DEF IInv
<1>14. CASE UNCHANGED vars
  BY <1>2, <1>14 DEF vars
<1> QED
  BY <1>3, <1>4, <1>5, <1>6, <1>7, <1>8, <1>9, <1>10, <1>11, <1>12, <1>13, <1>14 DEF Next

\* No validator is counted for two ledgers of one sequence within SET_EXPIRES,
\* for any number of validators, any ledgers and any clock parameters.
THEOREM NeverDoubleVotes == Spec => []NoDoubleVotes
<1>1. IInv => NoDoubleVotes
  BY DEF IInv
<1> QED
  BY <1>1, InitIInv, NextStep, PTL DEF Spec

--------------------------------------------------------------------------------
(* Support in the trie and pending ledgers *)

\* The circumstances in which TrustedCounted and PendingIsNewest are promised:
\* the server is up and its set of trusted validators does not change.
Steady == ~MayStop /\ \A S, T \in TrustedSets : S = T

\* lastLedger_ and acquiring_ as relations.
Counts(t, n, l) == n \in DOMAIN t.last /\ t.last[n] = l

Waits(t, n, l) == l \in DOMAIN t.acquiring /\ n \in t.acquiring[l]

NoneEmpty(t) == \A l \in DOMAIN t.acquiring : t.acquiring[l] # {}

IsTally(t) == DOMAIN t = {"trie", "last", "acquiring"} /\ NoneEmpty(t)

\* Every stamp agrees with the trusted set, only trusted nodes wait, each for
\* the ledger of its newest validation, and each that does not wait is counted.
Settled ==
  /\ changes = NoChanges /\ trustedKeys \in TrustedSets
  /\ \A v \in inFlight : v.trusted <=> v.node \in trustedKeys
  /\ \A n \in DOMAIN current : current[n].trusted <=> n \in trustedKeys
  /\ IsTally(tally)
  /\ \A n, l : Waits(tally, n, l) =>
       n \in DOMAIN current \cap trustedKeys /\ current[n].ledger = l
  /\ \A n \in DOMAIN current \cap trustedKeys :
       Counts(tally, n, current[n].ledger) \/ Waits(tally, n, current[n].ledger)

\* No validator that was heard has been silent for longer than SET_EXPIRES, so its
\* SeqEnforcer still knows the last sequence.
Remembers ==
  \A n \in Nodes : enforcers[n].seq = 0 \/ now <= enforcers[n].when + SET_EXPIRES

\* While no enforcer has expired: what a node supports or waits for is within
\* the sequence its enforcer remembers, and it waits for something newer.
Forward ==
  /\ \A n \in DOMAIN tally.last :
       n \in Nodes /\ tally.last[n] \in Ledgers /\ seq(tally.last[n]) <= enforcers[n].seq
  /\ \A n \in DOMAIN current :
       n \in Nodes /\ current[n].ledger \in Ledgers /\ seq(current[n].ledger) <= enforcers[n].seq
  /\ \A n \in DOMAIN tally.last \cap DOMAIN current :
       tally.last[n] = current[n].ledger \/ seq(tally.last[n]) < seq(current[n].ledger)

--------------------------------------------------------------------------------
\* Nodes that stop waiting, and only they, leave acquiring_.
LEMMA NotAcquiringEffect ==
  ASSUME NEW t, NoneEmpty(t), NEW w, NEW u, u.acquiring = notAcquiring(t.acquiring, w)
  PROVE  /\ NoneEmpty(u)
         /\ \A n, l : Waits(u, n, l) <=> Waits(t, n, l) /\ ~(n \in DOMAIN w /\ w[n] = l)
BY DEF notAcquiring, NoneEmpty, Waits

\* removeTrie withdraws what its nodes support or wait for, and nothing else.
LEMMA RemoveTrieEffect ==
  ASSUME NEW t, IsTally(t), NEW w, NEW u, u = removeTrie(t, w)
  PROVE  /\ IsTally(u)
         /\ \A n, l : Waits(u, n, l) <=> Waits(t, n, l) /\ ~(n \in DOMAIN w /\ w[n] = l)
         /\ \A n, l : Counts(u, n, l) <=> Counts(t, n, l) /\ ~(n \in DOMAIN w /\ w[n] = l)
<1>1. /\ DOMAIN u = {"trie", "last", "acquiring"}
      /\ u.last = Restrict(t.last, DOMAIN t.last \ counted(t, w))
      /\ u.acquiring = notAcquiring(t.acquiring, w)
  BY DEF removeTrie
<1>2. NoneEmpty(u)
      /\ \A n, l : Waits(u, n, l) <=> Waits(t, n, l) /\ ~(n \in DOMAIN w /\ w[n] = l)
  BY <1>1, NotAcquiringEffect DEF IsTally
<1>3. \A n, l : Counts(u, n, l) <=> Counts(t, n, l) /\ ~(n \in DOMAIN w /\ w[n] = l)
  BY <1>1 DEF Counts, counted, Restrict
<1> QED
  BY <1>1, <1>2, <1>3 DEF IsTally

\* checkAcquired moves the nodes that wait for a ledger at hand, and no other,
\* to a ledger they waited for.
LEMMA CheckAcquiredEffect ==
  ASSUME NEW t, IsTally(t), NEW u \in checkAcquired(t)
  PROVE  /\ IsTally(u)
         /\ \A n, l : Waits(u, n, l) <=> Waits(t, n, l) /\ l \notin have
         /\ \A n : IF \E m \in have : Waits(t, n, m)
                   THEN \E l \in have : Waits(t, n, l) /\ Counts(u, n, l)
                   ELSE \A l : Counts(u, n, l) <=> Counts(t, n, l)
<1> DEFINE found   == DOMAIN t.acquiring \cap have
           waiting == UNION {t.acquiring[l] : l \in found}
           moves   == {w \in [waiting -> found] : \A n \in waiting : n \in t.acquiring[w[n]]}
<1>1. PICK w \in moves :
        u = [count(t, w) EXCEPT !.acquiring = Restrict(@, DOMAIN @ \ found)]
  BY Zenon DEF checkAcquired
<1>2. /\ DOMAIN u = {"trie", "last", "acquiring"}
      /\ u.last = updated(t.last, w)
      /\ u.acquiring = Restrict(t.acquiring, DOMAIN t.acquiring \ found)
  BY <1>1 DEF count
<1>3. IsTally(u) /\ \A n, l : Waits(u, n, l) <=> Waits(t, n, l) /\ l \notin have
  BY <1>2 DEF IsTally, NoneEmpty, Waits, Restrict
<1>4. /\ w \in [waiting -> found] /\ \A n \in waiting : n \in t.acquiring[w[n]]
      /\ \A n : n \in waiting <=> \E m \in have : Waits(t, n, m)
  BY DEF Waits
<1>5. DOMAIN w = waiting /\ \A n \in waiting : w[n] \in have /\ Waits(t, n, w[n])
  BY <1>4 DEF Waits
<1> HIDE DEF waiting, moves
<1>6. \A n \in waiting : Counts(u, n, w[n])
  BY <1>2, <1>5 DEF Counts, updated
<1>7. ASSUME NEW n, n \notin waiting, NEW l PROVE Counts(u, n, l) <=> Counts(t, n, l)
  BY <1>2, <1>5, <1>7 DEF Counts, updated
<1> QED
  BY <1>3, <1>4, <1>5, <1>6, <1>7

\* expect counts the nodes of w whose ledger is at hand, and the others wait.
LEMMA ExpectEffect ==
  ASSUME NEW t, IsTally(t), \A n, l : Waits(t, n, l) => l \notin have,
         NEW w, NEW u, u = expect(t, w)
  PROVE  /\ IsTally(u)
         /\ \A n, l : Waits(u, n, l) <=>
              Waits(t, n, l) \/ (n \in DOMAIN w /\ w[n] = l /\ l \notin have)
         /\ \A n, l : Counts(u, n, l) <=>
              IF n \in DOMAIN w /\ w[n] \in have THEN w[n] = l ELSE Counts(t, n, l)
<1> DEFINE ready == {n \in DOMAIN w : w[n] \notin DOMAIN t.acquiring /\ w[n] \in have}
           late  == {w[n] : n \in DOMAIN w \ ready}
           waiting(l) == IF l \in DOMAIN t.acquiring THEN t.acquiring[l] ELSE {}
<1>1. \A l \in DOMAIN t.acquiring : l \notin have
  BY DEF IsTally, NoneEmpty, Waits
<1>2. \A n \in DOMAIN w : n \in ready <=> w[n] \in have
  BY <1>1
<1>3. u = [count(t, Restrict(w, ready)) EXCEPT !.acquiring =
             [l \in DOMAIN t.acquiring \cup late |->
                waiting(l) \cup {n \in DOMAIN w \ ready : w[n] = l}]]
  BY DEF expect
<1>4. /\ DOMAIN u = {"trie", "last", "acquiring"}
      /\ u.last = updated(t.last, Restrict(w, ready))
      /\ u.acquiring = [l \in DOMAIN t.acquiring \cup late |->
                          waiting(l) \cup {n \in DOMAIN w \ ready : w[n] = l}]
  BY <1>3 DEF count
<1>5. NoneEmpty(u)
  BY <1>4 DEF IsTally, NoneEmpty
<1>6. \A n, l : Waits(u, n, l) <=>
        Waits(t, n, l) \/ (n \in DOMAIN w /\ w[n] = l /\ l \notin have)
  BY <1>2, <1>4 DEF Waits
<1>7. ready \subseteq DOMAIN w
  OBVIOUS
<1> HIDE DEF ready
<1>8. \A n, l : Counts(u, n, l) <=>
        IF n \in DOMAIN w /\ w[n] \in have THEN w[n] = l ELSE Counts(t, n, l)
  BY <1>2, <1>4, <1>7 DEF Counts, Restrict, updated
<1> QED
  BY <1>4, <1>5, <1>6, <1>8 DEF IsTally

\* updateTrie for one node: it is counted at its ledger or waits for it, and
\* the nodes that wait for a ledger at hand move there.
LEMMA UpdateTrieEffect ==
  ASSUME NEW t, IsTally(t), NEW i, NEW k, NEW prior, NEW u \in updateTrie(t, only(i, k), prior)
  PROVE  /\ IsTally(u)
         /\ \A n, l : Waits(u, n, l) <=>
              \/ Waits(t, n, l) /\ l \notin have /\ ~(n \in DOMAIN prior /\ prior[n] = l)
              \/ n = i /\ l = k /\ k \notin have
         /\ Counts(u, i, k) \/ Waits(u, i, k)
         /\ \A n, l : Counts(u, n, l) =>
              Counts(t, n, l) \/ Waits(t, n, l) \/ (n = i /\ l = k)
         /\ \A n, l : n # i /\ Waits(t, n, l) /\ (\A m : Waits(t, n, m) => m = l)
                        /\ ~(n \in DOMAIN prior /\ prior[n] = l) =>
              Counts(u, n, l) \/ Waits(u, n, l)
         /\ \A n, l : n # i /\ Counts(t, n, l) /\ (\A m : ~Waits(t, n, m)) => Counts(u, n, l)
<1> DEFINE t1 == [t EXCEPT !.acquiring = notAcquiring(@, prior)]
           w == only(i, k)
<1>1. PICK v \in checkAcquired(t1) : u = expect(v, w)
  BY Zenon DEF updateTrie
<1>2. /\ IsTally(t1)
      /\ \A n, l : Waits(t1, n, l) <=> Waits(t, n, l) /\ ~(n \in DOMAIN prior /\ prior[n] = l)
      /\ \A n, l : Counts(t1, n, l) <=> Counts(t, n, l)
  <2>1. /\ DOMAIN t1 = {"trie", "last", "acquiring"}
        /\ t1.acquiring = notAcquiring(t.acquiring, prior) /\ t1.last = t.last
    BY DEF IsTally
  <2> HIDE DEF t1
  <2> QED
    BY <2>1, NotAcquiringEffect DEF IsTally, Counts
<1> HIDE DEF t1
<1>3. /\ IsTally(v)
      /\ \A n, l : Waits(v, n, l) <=> Waits(t1, n, l) /\ l \notin have
      /\ \A n : IF \E m \in have : Waits(t1, n, m)
                THEN \E l \in have : Waits(t1, n, l) /\ Counts(v, n, l)
                ELSE \A l : Counts(v, n, l) <=> Counts(t1, n, l)
  BY <1>2, CheckAcquiredEffect
<1>4. \A n : n \in DOMAIN w <=> n = i
  BY DEF only
<1>5. w[i] = k
  BY DEF only
<1> HIDE DEF w
<1>6. /\ IsTally(u)
      /\ \A n, l : Waits(u, n, l) <=> Waits(v, n, l) \/ (n = i /\ k = l /\ l \notin have)
      /\ \A n, l : Counts(u, n, l) <=> IF n = i /\ k \in have THEN k = l ELSE Counts(v, n, l)
  <2>1. \A n, l : Waits(v, n, l) => l \notin have
    BY <1>3
  <2>2. /\ IsTally(u)
        /\ \A n, l : Waits(u, n, l) <=>
             Waits(v, n, l) \/ (n \in DOMAIN w /\ w[n] = l /\ l \notin have)
        /\ \A n, l : Counts(u, n, l) <=>
             IF n \in DOMAIN w /\ w[n] \in have THEN w[n] = l ELSE Counts(v, n, l)
    BY <1>1, <1>3, <2>1, ExpectEffect
  <2> QED
    BY <1>4, <1>5, <2>2
<1>7. \A n, l, m : Counts(v, n, l) /\ Counts(v, n, m) => l = m
  BY DEF Counts
<1>8. \A n, l : Counts(v, n, l) => Counts(t1, n, l) \/ Waits(t1, n, l)
  BY <1>3, <1>7
<1>9. \A n, l : n # i /\ Waits(t, n, l) /\ (\A m : Waits(t, n, m) => m = l)
                  /\ ~(n \in DOMAIN prior /\ prior[n] = l) =>
        Counts(u, n, l) \/ Waits(u, n, l)
  BY <1>2, <1>3, <1>6
<1>10. \A n, l : n # i /\ Counts(t, n, l) /\ (\A m : ~Waits(t, n, m)) => Counts(u, n, l)
  BY <1>2, <1>3, <1>6
<1> QED
  BY <1>2, <1>3, <1>6, <1>8, <1>9, <1>10

\* A step that changes neither the stamps nor the newest validations.
LEMMA SettledSame ==
  ASSUME Settled, UNCHANGED <<changes, trustedKeys, current, tally>>,
         \A v \in inFlight' : v \in inFlight \/ (v.trusted <=> v.node \in trustedKeys)
  PROVE  Settled'
BY DEF Settled, Counts, Waits, IsTally, NoneEmpty

\* Settled in the next state, conjunct by conjunct.
LEMMA SettledNext ==
  ASSUME UNCHANGED <<changes, trustedKeys>>, changes = NoChanges, trustedKeys \in TrustedSets,
         \A v \in inFlight' : v.trusted <=> v.node \in trustedKeys,
         \A n \in DOMAIN current' : current'[n].trusted <=> n \in trustedKeys,
         IsTally(tally'),
         \A n, l : Waits(tally', n, l) =>
            n \in DOMAIN current' \cap trustedKeys /\ current'[n].ledger = l,
         \A n \in DOMAIN current' \cap trustedKeys :
            Counts(tally', n, current'[n].ledger) \/ Waits(tally', n, current'[n].ledger)
  PROVE  Settled'
BY DEF Settled, Counts, Waits, IsTally, NoneEmpty

LEMMA SettledReceive ==
  ASSUME Settled, NEW n, NEW l, NEW sign, NEW f, Receive(n, l, sign, f)
  PROVE  Settled'
<1> DEFINE b == n \in trustedKeys
           x == [node |-> n, ledger |-> l, sign |-> sign, trusted |-> b, full |-> f]
<1>1. inFlight' = inFlight \cup {x} /\ UNCHANGED <<changes, trustedKeys, current, tally>>
  BY DEF Receive
<1>2. x.node = n /\ (x.trusted <=> n \in trustedKeys)
  BY Zenon
<1> HIDE DEF x
<1> QED
  BY <1>1, <1>2, SettledSame

\* Dropping stale validations, whether or not arrived ledgers are then counted.
LEMMA SettledDrop ==
  ASSUME Settled, UNCHANGED <<changes, trustedKeys, inFlight, have>>,
         current' = Restrict(current, DOMAIN current \ staleNodes),
         tally' = freshened \/ tally' \in checkAcquired(freshened)
  PROVE  Settled'
<1> DEFINE w == ledgersOf(staleNodes)
<1>1. /\ DOMAIN w = staleNodes /\ staleNodes \subseteq DOMAIN current
      /\ \A n \in staleNodes : w[n] = current[n].ledger
  BY DEF ledgersOf, staleNodes
<1>2. freshened = removeTrie(tally, w)
  BY DEF freshened
<1> HIDE DEF w
<1>3. /\ IsTally(freshened)
      /\ \A n, l : Waits(freshened, n, l) <=> Waits(tally, n, l) /\ ~(n \in DOMAIN w /\ w[n] = l)
      /\ \A n, l : Counts(freshened, n, l) <=> Counts(tally, n, l) /\ ~(n \in DOMAIN w /\ w[n] = l)
  <2>1. IsTally(tally)
    BY DEF Settled
  <2> QED
    BY <1>2, <2>1, RemoveTrieEffect
<1>4. \A n, l : Waits(freshened, n, l) =>
        n \in DOMAIN current' \cap trustedKeys /\ current[n].ledger = l
  <2>1. DOMAIN current' = DOMAIN current \ staleNodes
    BY DEF Restrict
  <2>2. \A n, l : Waits(tally, n, l) => n \in DOMAIN current \cap trustedKeys /\ current[n].ledger = l
    BY DEF Settled
  <2> QED
    BY <1>1, <1>3, <2>1, <2>2
<1>5. \A n \in DOMAIN current' \cap trustedKeys :
        Counts(freshened, n, current[n].ledger) \/ Waits(freshened, n, current[n].ledger)
  BY <1>1, <1>3 DEF Settled, Restrict
<1>6. /\ IsTally(tally')
      /\ \A n, l : Waits(tally', n, l) => Waits(freshened, n, l)
      /\ \A n \in DOMAIN current' \cap trustedKeys :
           Counts(tally', n, current[n].ledger) \/ Waits(tally', n, current[n].ledger)
  <2>1. CASE tally' = freshened
    BY <1>3, <1>5, <2>1
  <2>2. CASE tally' \in checkAcquired(freshened)
    <3>1. /\ IsTally(tally')
          /\ \A n, l : Waits(tally', n, l) <=> Waits(freshened, n, l) /\ l \notin have
          /\ \A n : IF \E m \in have : Waits(freshened, n, m)
                    THEN \E l \in have : Waits(freshened, n, l) /\ Counts(tally', n, l)
                    ELSE \A l : Counts(tally', n, l) <=> Counts(freshened, n, l)
      BY <1>3, <2>2, CheckAcquiredEffect
    <3> QED
      BY <1>4, <1>5, <3>1
  <2> QED
    BY <2>1, <2>2
<1>7. /\ DOMAIN current' \subseteq DOMAIN current
      /\ \A n \in DOMAIN current' : current'[n] = current[n]
  BY DEF Restrict
<1>8. /\ \A v \in inFlight' : v.trusted <=> v.node \in trustedKeys
      /\ \A n \in DOMAIN current' : current'[n].trusted <=> n \in trustedKeys
      /\ changes = NoChanges /\ trustedKeys \in TrustedSets
  BY <1>7, Zenon DEF Settled
<1>9. \A n, l : Waits(tally', n, l) =>
        n \in DOMAIN current' \cap trustedKeys /\ current'[n].ledger = l
  BY <1>4, <1>6, <1>7
<1>10. \A n \in DOMAIN current' \cap trustedKeys :
         Counts(tally', n, current'[n].ledger) \/ Waits(tally', n, current'[n].ledger)
  BY <1>6, <1>7
<1> QED
  BY <1>6, <1>8, <1>9, <1>10, SettledNext, Zenon

LEMMA SettledAdd ==
  ASSUME IInv, Settled, NEW v \in inFlight, Add(v)
  PROVE  Settled'
<1> DEFINE k == v.node
           prior == ledgersOf({k} \cap DOMAIN current)
<1>1. UNCHANGED <<changes, trustedKeys, have>> /\ inFlight' = inFlight \ {v}
  BY DEF Add
<1>2. CASE UNCHANGED <<current, tally>>
  BY <1>1, <1>2, SettledSame
<1>3. CASE /\ current' = updated(current, only(k, v))
           /\ IF v.trusted THEN tally' \in updateTrie(tally, only(k, v.ledger), prior)
              ELSE UNCHANGED tally
  <2>1. v.trusted <=> k \in trustedKeys
    BY DEF Settled
  <2>2. /\ DOMAIN current' = DOMAIN current \cup {k} /\ current'[k] = v
        /\ \A n \in DOMAIN current \ {k} : current'[n] = current[n]
    BY <1>3 DEF updated, only
  <2>3. \A n \in DOMAIN current' : current'[n].trusted <=> n \in trustedKeys
    BY <2>1, <2>2 DEF Settled
  <2>4. \A n : n \in DOMAIN prior <=> n = k /\ k \in DOMAIN current
    BY DEF ledgersOf
  <2>5. k \in DOMAIN current => prior[k] = current[k].ledger
    BY DEF ledgersOf
  <2> HIDE DEF k, prior
  <2>6. CASE ~v.trusted
    <3>1. \A l : ~Waits(tally, k, l)
      <4>1. \A n, l : Waits(tally, n, l) => n \in trustedKeys
        BY DEF Settled
      <4> QED
        BY <2>1, <2>6, <4>1
    <3> QED
      <4>1. tally' = tally /\ IsTally(tally)
        BY <1>3, <2>6 DEF Settled
      <4>2. \A n, l : Waits(tally', n, l) =>
              n \in DOMAIN current' \cap trustedKeys /\ current'[n].ledger = l
        BY <2>2, <3>1, <4>1 DEF Settled
      <4>3. \A n \in DOMAIN current' \cap trustedKeys :
              Counts(tally', n, current'[n].ledger) \/ Waits(tally', n, current'[n].ledger)
        BY <2>1, <2>2, <2>6, <4>1 DEF Settled
      <4> QED
        BY <1>1, <2>3, <4>1, <4>2, <4>3, SettledNext DEF Settled
  <2>7. CASE v.trusted
    <3> DEFINE l1 == v.ledger
    <3>1. tally' \in updateTrie(tally, only(k, l1), prior)
      BY <1>3, <2>7
    <3>2. IsTally(tally)
      BY DEF Settled
    <3> HIDE DEF l1
    <3>3. /\ IsTally(tally')
          /\ \A n, l : Waits(tally', n, l) <=>
               \/ Waits(tally, n, l) /\ l \notin have /\ ~(n \in DOMAIN prior /\ prior[n] = l)
               \/ n = k /\ l = l1 /\ l1 \notin have
          /\ Counts(tally', k, l1) \/ Waits(tally', k, l1)
          /\ \A n, l : n # k /\ Waits(tally, n, l) /\ (\A m : Waits(tally, n, m) => m = l)
                         /\ ~(n \in DOMAIN prior /\ prior[n] = l) =>
               Counts(tally', n, l) \/ Waits(tally', n, l)
          /\ \A n, l : n # k /\ Counts(tally, n, l) /\ (\A m : ~Waits(tally, n, m)) => Counts(tally', n, l)
      BY <3>1, <3>2, UpdateTrieEffect
    <3>4. \A n, l : Waits(tally, n, l) => n \in DOMAIN current \cap trustedKeys /\ current[n].ledger = l
      BY DEF Settled
    <3>5. ASSUME NEW n, NEW l, Waits(tally', n, l)
          PROVE  n \in DOMAIN current' \cap trustedKeys /\ current'[n].ledger = l
      <4>1. CASE n = k
        <5>1. l = l1
          BY <2>4, <2>5, <3>3, <3>4, <3>5, <4>1
        <5> QED
          BY <2>1, <2>2, <2>7, <4>1, <5>1 DEF l1
      <4>2. CASE n # k
        BY <2>2, <3>3, <3>4, <3>5, <4>2
      <4> QED
        BY <4>1, <4>2
    <3>6. ASSUME NEW n \in DOMAIN current' \cap trustedKeys
          PROVE  Counts(tally', n, current'[n].ledger) \/ Waits(tally', n, current'[n].ledger)
      <4>1. CASE n = k
        BY <2>2, <3>3, <4>1 DEF l1
      <4>2. CASE n # k
        <5>1. n \in DOMAIN current \cap trustedKeys /\ current'[n] = current[n]
          BY <2>2, <4>2
        <5>2. n \notin DOMAIN prior
          BY <2>4, <4>2
        <5>3. CASE Waits(tally, n, current[n].ledger)
          BY <3>3, <3>4, <4>2, <5>1, <5>2, <5>3
        <5>4. CASE ~Waits(tally, n, current[n].ledger)
          <6>1. Counts(tally, n, current[n].ledger) /\ \A m : ~Waits(tally, n, m)
            BY <3>4, <5>1, <5>4 DEF Settled
          <6> QED
            BY <3>3, <4>2, <5>1, <6>1
        <5> QED
          BY <5>3, <5>4
      <4> QED
        BY <4>1, <4>2
    <3> QED
      BY <1>1, <2>3, <3>3, <3>5, <3>6, SettledNext DEF Settled
  <2> QED
    BY <2>6, <2>7
<1> QED
  BY <1>2, <1>3 DEF Add, add

LEMMA SettledStep ==
  ASSUME Steady, IInv, Settled, [Next]_vars
  PROVE  Settled'
<1>1. ASSUME UNCHANGED <<changes, trustedKeys, inFlight, current, tally>> PROVE Settled'
  BY <1>1, SettledSame
<1>2. ASSUME NEW n \in Nodes, NEW l \in Ledgers, NEW k \in Skews, NEW f \in Fullness,
             Receive(n, l, now + k, f)
      PROVE  Settled'
  BY <1>2, SettledReceive
<1>3. ASSUME NEW v \in inFlight, Add(v) PROVE Settled'
  BY <1>3, SettledAdd
<1>4. \A T \in TrustedSets : ~UpdateTrusted(T)
  BY DEF UpdateTrusted, Settled, Steady
<1>5. ~TrustChanged /\ ~flush
  BY DEF TrustChanged, flush, Settled, Steady
<1>6. CASE DropStale
  BY <1>6, SettledDrop DEF DropStale
<1>7. CASE WithTrie
  BY <1>7, SettledDrop DEF WithTrie
<1>8. ASSUME NEW l \in Queried, Touch(l) PROVE Settled'
  BY <1>1, <1>8 DEF Touch
<1>9. CASE expire
  BY <1>1, <1>9 DEF expire
<1>10. ASSUME NEW l \in Ledgers, LedgerArrives(l) PROVE Settled'
  BY <1>1, <1>10 DEF LedgerArrives
<1>11. CASE Tick
  BY <1>1, <1>11 DEF Tick
<1>12. CASE UNCHANGED vars
  BY <1>1, <1>12 DEF vars
<1> QED
  BY <1>2, <1>3, <1>4, <1>5, <1>6, <1>7, <1>8, <1>9, <1>10, <1>11, <1>12 DEF Next

\* A trusted node's newest validation is counted in the trie or waits for its
\* ledger, and a node waits for nothing else: add, withTrie and current() keep
\* lastLedger_ and acquiring_ in step with current_ for any validators and any
\* ledgers, arriving in any order, while the server runs with one trusted set.
THEOREM SettledAlways == ASSUME Steady PROVE Spec => []Settled
<1>1. Init => Settled
  BY DEF Init, Settled, Counts, Waits, IsTally, NoneEmpty
<1>2. IInv /\ Settled /\ [Next]_vars => Settled'
  BY SettledStep
<1> QED
  BY <1>1, <1>2, InitIInv, NextStep, PTL DEF Spec

\* The support of a trusted node follows its newest validation.
THEOREM TrustedAlwaysCounted == ASSUME Steady PROVE Spec => []TrustedCounted
<1>1. Settled => TrustedCounted
  BY DEF Settled, TrustedCounted, Counts, Waits
<1> QED
  BY <1>1, SettledAlways, PTL

\* A ledger that arrives late never takes a node's support back to the past.
THEOREM PendingAlwaysNewest == ASSUME Steady PROVE Spec => []PendingIsNewest
<1>1. Settled => PendingIsNewest
  BY DEF Settled, PendingIsNewest, Waits, IsTally, NoneEmpty
<1> QED
  BY <1>1, SettledAlways, PTL

--------------------------------------------------------------------------------
(* Support moves forward *)

\* What SupportMovesForward says of one step.
MovesForward ==
  \A n \in DOMAIN tally.last \cap DOMAIN tally'.last :
    tally.last[n] # tally'.last[n] => seq(tally.last[n]) < seq(tally'.last[n])

\* A step in which the nodes K validate the ledger x: it is new to their
\* enforcers, which only grow; the newest validations of K are of x and the others
\* stay; what is counted was counted before, was waited for, or is new.
Grown ==
  \A n \in Nodes : /\ enforcers[n].seq \in Nat /\ enforcers'[n].seq \in Nat
                   /\ enforcers[n].seq <= enforcers'[n].seq

NewTo(K, x) ==
  \A k \in K : /\ k \in Nodes /\ x \in Ledgers
               /\ enforcers[k].seq < seq(x) /\ seq(x) <= enforcers'[k].seq

Renewed(K, x) ==
  \A n \in DOMAIN current' :
    \/ n \notin K /\ n \in DOMAIN current /\ current'[n] = current[n]
    \/ n \in K /\ current'[n].ledger = x

Recounted(K, x) ==
  \A n, l : Counts(tally', n, l) =>
    Counts(tally, n, l) \/ Waits(tally, n, l) \/ (n \in K /\ l = x)

LEMMA ForwardNext ==
  ASSUME Settled, Forward, NEW K, NEW x, Grown, NewTo(K, x), Renewed(K, x), Recounted(K, x)
  PROVE  Forward' /\ MovesForward
<1>1. /\ \A n, l : Counts(tally, n, l) =>
           n \in Nodes /\ l \in Ledgers /\ seq(l) <= enforcers[n].seq
      /\ \A n, l : Waits(tally, n, l) =>
           /\ n \in DOMAIN current /\ current[n].ledger = l
           /\ n \in Nodes /\ l \in Ledgers /\ seq(l) <= enforcers[n].seq
      /\ \A n, l : Counts(tally, n, l) /\ n \in DOMAIN current =>
           l = current[n].ledger \/ seq(l) < seq(current[n].ledger)
  BY DEF Forward, Settled, Counts
<1>2. \A l \in Ledgers : seq(l) \in Nat
  BY SeqType
<1>3. ASSUME NEW n, NEW l, Counts(tally', n, l)
      PROVE  n \in Nodes /\ l \in Ledgers /\ seq(l) <= enforcers'[n].seq
  <2>1. CASE n \in K /\ l = x
    BY <2>1 DEF NewTo
  <2>2. CASE n \in Nodes /\ l \in Ledgers /\ seq(l) <= enforcers[n].seq
    <3>1. enforcers[n].seq \in Nat /\ enforcers'[n].seq \in Nat /\ enforcers[n].seq <= enforcers'[n].seq
      BY <2>2 DEF Grown
    <3>2. seq(l) \in Nat
      BY <1>2, <2>2
    <3> QED
      BY <2>2, <3>1, <3>2
  <2>3. Counts(tally, n, l) \/ Waits(tally, n, l) \/ (n \in K /\ l = x)
    BY <1>3 DEF Recounted
  <2> QED
    BY <1>1, <2>1, <2>2, <2>3, Zenon
<1>4. ASSUME NEW n \in DOMAIN current'
      PROVE  n \in Nodes /\ current'[n].ledger \in Ledgers
             /\ seq(current'[n].ledger) <= enforcers'[n].seq
  BY <1>2 DEF Forward, Grown, NewTo, Renewed
<1>5. ASSUME NEW n \in DOMAIN current', NEW l, Counts(tally', n, l)
      PROVE  l = current'[n].ledger \/ seq(l) < seq(current'[n].ledger)
  <2>1. CASE n \in K
    <3>1. current'[n].ledger = x /\ n \in Nodes /\ x \in Ledgers /\ enforcers[n].seq < seq(x)
      BY <2>1 DEF NewTo, Renewed
    <3>2. l = x \/ (l \in Ledgers /\ seq(l) <= enforcers[n].seq)
      <4>1. Counts(tally, n, l) \/ Waits(tally, n, l) \/ l = x
        BY <1>5 DEF Recounted
      <4> QED
        BY <1>1, <4>1, Zenon
    <3>3. enforcers[n].seq \in Nat
      BY <3>1 DEF Grown
    <3> QED
      BY <1>2, <3>1, <3>2, <3>3
  <2>2. CASE n \notin K
    BY <1>1, <1>5, <2>2 DEF Renewed, Recounted
  <2> QED
    BY <2>1, <2>2
<1>6. Forward'
  <2>1. \A n \in DOMAIN tally'.last : Counts(tally', n, tally'.last[n])
    BY DEF Counts
  <2> QED
    BY <1>3, <1>4, <1>5, <2>1, Zenon DEF Forward
<1>7. ASSUME NEW n \in DOMAIN tally.last \cap DOMAIN tally'.last,
             tally.last[n] # tally'.last[n]
      PROVE  seq(tally.last[n]) < seq(tally'.last[n])
  <2> DEFINE a == tally.last[n]
             b == tally'.last[n]
  <2>1. Counts(tally, n, a) /\ Counts(tally', n, b) /\ ~Counts(tally, n, b)
    BY <1>7 DEF Counts
  <2> HIDE DEF a, b
  <2>2. CASE Waits(tally, n, b)
    BY <1>1, <1>7, <2>1, <2>2 DEF a, b
  <2>3. CASE n \in K /\ b = x
    <3>1. a \in Ledgers /\ b \in Ledgers /\ n \in Nodes /\ seq(a) <= enforcers[n].seq
          /\ enforcers[n].seq < seq(b)
      BY <1>1, <2>1, <2>3 DEF NewTo
    <3>2. seq(a) < seq(b)
      <4>1. seq(a) \in Nat /\ seq(b) \in Nat
        BY <1>2, <3>1
      <4>2. enforcers[n].seq \in Nat
        BY <3>1 DEF Grown
      <4> QED
        BY <3>1, <4>1, <4>2
    <3> QED
      BY <3>2 DEF a, b
  <2> QED
    BY <2>1, <2>2, <2>3 DEF Recounted
<1> QED
  BY <1>6, <1>7 DEF MovesForward

\* The same when no node validates anything new.
LEMMA ForwardKept ==
  ASSUME Settled, Forward, Grown,
         \A n \in DOMAIN current' : n \in DOMAIN current /\ current'[n] = current[n],
         \A n, l : Counts(tally', n, l) => Counts(tally, n, l) \/ Waits(tally, n, l)
  PROVE  Forward' /\ MovesForward
<1>1. NewTo({}, 0)
  BY DEF NewTo
<1>2. Renewed({}, 0)
  BY DEF Renewed
<1>3. Recounted({}, 0)
  BY DEF Recounted
<1> QED
  BY <1>1, <1>2, <1>3, ForwardNext

\* An enforcer that has nothing to forget, or has not forgotten it, only grows.
LEMMA EnforcerGrows ==
  ASSUME now \in Nat, NEW e \in Enforcer, e.when <= now,
         e.seq = 0 \/ now <= e.when + SET_EXPIRES, NEW s \in Nat
  PROVE  /\ e.seq <= enforce(e, s).seq
         /\ allows(e, s) => e.seq < s /\ enforce(e, s).seq = s
<1>1. e.seq \in Nat /\ e.when \in Nat /\ enforced(e).seq = e.seq
  BY TimesAssumption DEF Enforcer, enforced
<1> QED
  BY <1>1 DEF enforce, allows

LEMMA ForwardStep ==
  ASSUME Steady, Remembers, IInv, IInv', Settled, Forward, [Next]_vars
  PROVE  Forward' /\ MovesForward
<1>1. /\ now \in Nat
      /\ \A n \in Nodes : enforcers[n].seq \in Nat /\ enforcers'[n].seq \in Nat
  BY DEF IInv, Enforcer
<1>2. ASSUME UNCHANGED <<current, enforcers, tally>> PROVE Forward' /\ MovesForward
  <2>1. Grown
    BY <1>1, <1>2 DEF Grown
  <2>2. \A n, l : Counts(tally', n, l) => Counts(tally, n, l)
    BY <1>2 DEF Counts
  <2> QED
    BY <1>2, <2>1, <2>2, ForwardKept
<1>3. ASSUME NEW v \in inFlight, Add(v) PROVE Forward' /\ MovesForward
  <2> DEFINE k == v.node
             x == v.ledger
             e == enforcers[k]
             prior == ledgersOf({k} \cap DOMAIN current)
  <2>1. k \in Nodes /\ x \in Ledgers /\ seq(x) \in Nat /\ e \in Enforcer /\ e.when <= now
        /\ (e.seq = 0 \/ now <= e.when + SET_EXPIRES)
    BY SeqType DEF IInv, Validation, Remembers
  <2>2. /\ e.seq <= enforce(e, seq(x)).seq
        /\ allows(e, seq(x)) => e.seq < seq(x) /\ enforce(e, seq(x)).seq = seq(x)
    BY <1>1, <2>1, EnforcerGrows
  <2>3. /\ now' = now
        /\ \/ UNCHANGED <<current, enforcers, tally>>
           \/ /\ enforcers' = [enforcers EXCEPT ![k] = enforce(e, seq(x))]
              /\ \/ UNCHANGED <<current, tally>>
                 \/ /\ allows(e, seq(x)) /\ current' = updated(current, only(k, v))
                    /\ \/ UNCHANGED tally
                       \/ tally' \in updateTrie(tally, only(k, x), prior)
    BY <1>3 DEF Add, add
  <2>4. CASE UNCHANGED <<current, enforcers, tally>>
    BY <1>1, <1>2, <2>3, <2>4
  <2>5. CASE enforcers' = [enforcers EXCEPT ![k] = enforce(e, seq(x))]
    <3>1. /\ \A n \in Nodes \ {k} : enforcers'[n] = enforcers[n]
          /\ enforcers'[k] = enforce(e, seq(x))
      BY <2>1, <2>5 DEF IInv
    <3> HIDE DEF k, x, e, prior
    <3>2. Grown
      BY <1>1, <2>2, <3>1 DEF Grown, e
    <3>3. CASE UNCHANGED <<current, tally>>
      <4>1. \A n, l : Counts(tally', n, l) => Counts(tally, n, l)
        BY <3>3 DEF Counts
      <4> QED
        BY <3>2, <3>3, <4>1, ForwardKept
    <3>4. CASE /\ allows(e, seq(x)) /\ current' = updated(current, only(k, v))
               /\ \/ UNCHANGED tally
                  \/ tally' \in updateTrie(tally, only(k, x), prior)
      <4>1. e.seq < seq(x) /\ enforcers'[k].seq = seq(x)
        BY <2>2, <3>1, <3>4
      <4>2. NewTo({k}, x)
        BY <2>1, <4>1 DEF NewTo, e
      <4>3. Renewed({k}, x)
        BY <3>4 DEF updated, only, x, Renewed
      <4>4. Recounted({k}, x)
        <5>1. CASE UNCHANGED tally
          BY <5>1 DEF Counts, Recounted
        <5>2. CASE tally' \in updateTrie(tally, only(k, x), prior)
          <6>1. IsTally(tally)
            BY DEF Settled
          <6>2. \A n, l : Counts(tally', n, l) =>
                  Counts(tally, n, l) \/ Waits(tally, n, l) \/ (n = k /\ l = x)
            BY <5>2, <6>1, UpdateTrieEffect
          <6> QED
            BY <6>2 DEF Recounted
        <5> QED
          BY <3>4, <5>1, <5>2
      <4> QED
        BY <3>2, <4>2, <4>3, <4>4, ForwardNext
    <3> QED
      BY <2>3, <2>5, <3>3, <3>4
  <2> QED
    BY <2>3, <2>4, <2>5
<1>4. ASSUME current' = Restrict(current, DOMAIN current \ staleNodes),
             tally' = freshened \/ tally' \in checkAcquired(freshened),
             UNCHANGED <<now, enforcers>>
      PROVE  Forward' /\ MovesForward
  <2>1. freshened = removeTrie(tally, ledgersOf(staleNodes)) /\ IsTally(tally)
    BY Zenon DEF freshened, Settled
  <2>2. /\ IsTally(freshened)
        /\ \A n, l : Waits(freshened, n, l) => Waits(tally, n, l)
        /\ \A n, l : Counts(freshened, n, l) => Counts(tally, n, l)
    BY <2>1, RemoveTrieEffect
  <2>3. \A n, l : Counts(tally', n, l) => Counts(tally, n, l) \/ Waits(tally, n, l)
    <3>1. CASE tally' = freshened
      BY <2>2, <3>1
    <3>2. CASE tally' \in checkAcquired(freshened)
      <4>1. \A n : IF \E m \in have : Waits(freshened, n, m)
                   THEN \E l \in have : Waits(freshened, n, l) /\ Counts(tally', n, l)
                   ELSE \A l : Counts(tally', n, l) <=> Counts(freshened, n, l)
        BY <2>2, <3>2, CheckAcquiredEffect
      <4>2. \A n, l, m : Counts(tally', n, l) /\ Counts(tally', n, m) => l = m
        BY DEF Counts
      <4> QED
        BY <2>2, <4>1, <4>2
    <3> QED
      BY <1>4, <3>1, <3>2
  <2>4. \A n \in DOMAIN current' : n \in DOMAIN current /\ current'[n] = current[n]
    BY <1>4 DEF Restrict
  <2>5. Grown
    BY <1>1, <1>4 DEF Grown
  <2> QED
    BY <2>3, <2>4, <2>5, ForwardKept
<1>5. \A T \in TrustedSets : ~UpdateTrusted(T)
  BY DEF UpdateTrusted, Settled, Steady
<1>6. ~TrustChanged /\ ~flush
  BY DEF TrustChanged, flush, Settled, Steady
<1>7. CASE DropStale \/ WithTrie
  BY <1>4, <1>7 DEF DropStale, WithTrie
<1>8. ASSUME \/ \E n \in Nodes, l \in Ledgers, k \in Skews, f \in Fullness :
                  Receive(n, l, now + k, f)
             \/ \E l \in Queried : Touch(l)
             \/ expire
             \/ \E l \in Ledgers : LedgerArrives(l)
             \/ UNCHANGED vars
      PROVE  Forward' /\ MovesForward
  <2>1. UNCHANGED <<now, current, enforcers, tally>>
    BY <1>8 DEF Receive, Touch, expire, LedgerArrives, vars
  <2> QED
    BY <1>2, <2>1
<1>9. CASE Tick
  BY <1>2, <1>9 DEF Tick
<1> QED
  BY <1>3, <1>5, <1>6, <1>7, <1>8, <1>9 DEF Next

\* The support of a node never moves back to an earlier ledger, in whatever
\* order the ledgers of its validations are acquired, as long as no validator is
\* silent for so long that its SeqEnforcer forgets.
THEOREM SupportAlwaysForward == ASSUME Steady PROVE Spec /\ []Remembers => SupportMovesForward
<1>1. Init => Forward
  BY DEF Init, Forward
<1>2. Remembers /\ IInv /\ IInv' /\ Settled /\ Forward /\ [Next]_vars => Forward' /\ [MovesForward]_vars
  BY ForwardStep
<1> QED
  BY <1>1, <1>2, InitIInv, NextStep, SettledAlways, PTL DEF Spec, SupportMovesForward, MovesForward
================================================================================
