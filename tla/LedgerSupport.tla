------------------------------ MODULE LedgerSupport ------------------------------
(* What LedgerTrie promises: it counts validators.  Support is a number per   *)
(* ledger; the support of a branch is the support of all the ledgers on it;   *)
(* the preferred ledger is the last one on the path of branches that the      *)
(* validators not yet committed could not vote down.                          *)
EXTENDS RCLValidatedLedger

CONSTANTS Ledgers,      \* the ledgers validators may validate
          Counts,       \* how many validators move at once
          MaxSupport    \* bound: validators in all

VARIABLE supportOf      \* ledger -> number of validators whose last ledger it is

History == UNION {{SubSeq(l, 1, i) : i \in 0..Len(l)} : l \in Ledgers}

Total(f, S) == SumFunctionOnSet(f, S)

BranchOf(f, l) == Total(f, {m \in DOMAIN f : IsPrefix(l, m)})

\* Validators that may still validate the ledger at seq(l) on another branch.
Free(f, l, largestIssued) ==
  Total(f, {m \in DOMAIN f : seq(m) < Max({seq(l), largestIssued})})

Siblings(l) == {m \in History : seq(m) = seq(l) /\ m # l /\ Front(m) = Front(l)}

\* A ledger wins over its siblings when it has more support than there are free
\* validators, and would not be overtaken if all of them joined one sibling.
Wins(f, l, largestIssued) ==
  LET free == Free(f, l, largestIssued)
  IN  /\ BranchOf(f, l) > free
      /\ \A m \in {m \in Siblings(l) : BranchOf(f, m) > 0} :
           \/ BranchOf(f, l) > BranchOf(f, m) + free
           \/ BranchOf(f, l) = BranchOf(f, m) + free /\ Above(l, m)

Preferred(f, largestIssued) ==
  CHOOSE l \in History :
    /\ \A i \in 1..seq(l) : Wins(f, SubSeq(l, 1, i), largestIssued)
    /\ \A m \in History : seq(m) = seq(l) + 1 /\ IsPrefix(l, m) => ~Wins(f, m, largestIssued)

--------------------------------------------------------------------------------
Init == supportOf = [l \in Ledgers |-> 0]

Gain(l, count) ==
  /\ Total(supportOf, Ledgers) + count <= MaxSupport
  /\ supportOf' = [supportOf EXCEPT ![l] = @ + count]

Lose(l, count) ==
  /\ supportOf[l] > 0
  /\ supportOf' = [supportOf EXCEPT ![l] = @ - Min({count, @})]

Next == \E l \in Ledgers, count \in Counts : Gain(l, count) \/ Lose(l, count)

Spec == Init /\ [][Next]_supportOf
================================================================================
