---------------------------- MODULE PreferredLedger ----------------------------
(* The ledger that Validations::getPreferred (consensus/Validations.h) tells  *)
(* a server to work on, given the trie of the supported ledgers and, for each *)
(* ledger that is being acquired, the validators that wait for it.            *)
EXTENDS LedgerTrie

\* The best supported ledger that is still being acquired.
mostAwaited(acquiring) ==
  CHOOSE l \in DOMAIN acquiring : \A m \in DOMAIN acquiring \ {l} :
    \/ Cardinality(acquiring[l]) > Cardinality(acquiring[m])
    \/ Cardinality(acquiring[l]) = Cardinality(acquiring[m]) /\ Above(l, m)

\* The current ledger is kept when the preferred one is its child or on its chain.
followed(curr, preferred) ==
  IF seq(preferred) = seq(curr) + 1 /\ ancestor(preferred, seq(curr)) = curr THEN curr
  ELSE IF seq(preferred) > seq(curr) THEN preferred
  ELSE IF ancestor(curr, seq(preferred)) # preferred THEN preferred
  ELSE curr

\* The empty set when no validation says anything.
preferredOver(t, acquiring, curr, largestIssued) ==
  IF ~empty(t) THEN {followed(curr, getPreferred(t, largestIssued))}
  ELSE IF acquiring # <<>> THEN {mostAwaited(acquiring)}
  ELSE {}
================================================================================
