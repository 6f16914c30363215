------------------------------ MODULE LedgerTrieUse ------------------------------
(* A LedgerTrie under any sequence of insert and remove calls, compared with  *)
(* the counts it stands for (LedgerSupport), and the ledger a server is told  *)
(* to work on (PreferredLedger).                                              *)
EXTENDS PreferredLedger

CONSTANTS Ledgers,      \* the ledgers validators may validate
          Counts,       \* the count arguments
          MaxSupport,   \* bound: the support in the trie
          Reach         \* a skip list shorter than the chains

VARIABLE trie

Depth == Max({seq(l) : l \in Ledgers})

\* No ledger in use is further from another's than the skip list reaches.
ASSUME WithinHorizon == Depth <= Horizon

Support == [l \in Ledgers |-> tipSupport(trie, l)]

Abstract == INSTANCE LedgerSupport WITH supportOf <- Support

\* The same ledgers when their skip lists do not reach back to the genesis.
Short == INSTANCE RCLValidatedLedger WITH Horizon <- Reach

--------------------------------------------------------------------------------
Init == trie = EmptyTrie

AddSupport(l, count) ==
  /\ trie.nodes[Genesis].branch + count <= MaxSupport
  /\ trie' = insert(trie, l, count)

RemoveSupport(l, count) ==
  /\ removable(trie, l)
  /\ trie' = remove(trie, l, count)

Next ==
  \/ \E l \in Ledgers, count \in Counts : AddSupport(l, count)
  \/ \E l \in Ledgers, count \in Counts : RemoveSupport(l, count)

Spec == Init /\ [][Next]_trie

--------------------------------------------------------------------------------
(* Properties *)

\* The nodes are the root, the supported ledgers and the points where the
\* branches of supported ledgers part, and no other: what insert splits, remove
\* merges again, in whatever order the calls come.
TrieIsCanonical ==
  LET live  == {l \in Abstract!History : Abstract!BranchOf(Support, l) > 0}
      forks == {l \in live : Cardinality({m \in live : seq(m) = seq(l) + 1 /\ IsPrefix(l, m)}) > 1}
      above(n) == {m \in DOMAIN trie.nodes : IsStrictPrefix(m, n)}
  IN  /\ DOMAIN trie.nodes = {Genesis} \cup forks \cup {l \in Ledgers : Support[l] > 0}
      /\ \A n \in DOMAIN trie.nodes \ {Genesis} :
           /\ trie.nodes[n].parent = CHOOSE m \in above(n) : \A o \in above(n) : seq(o) <= seq(m)
           /\ trie.nodes[n].start = seq(trie.nodes[n].parent) + 1

\* mismatch() gives the first ledger on which a ledger and one of the trie
\* differ when both carry the identifier of the last ledger they share, and
\* otherwise 1, so that the trie never files a ledger under a branch it is not
\* known to be on.
MismatchIsFirstDifference ==
  \A n \in DOMAIN trie.nodes, l \in Ledgers :
    LET shared == Max({i \in 0..Min({seq(n), seq(l)}) : SubSeq(n, 1, i) = SubSeq(l, 1, i)})
    IN  Short!mismatch(n, l) =
          IF shared >= Max({Short!minSeq(n), Short!minSeq(l)}) THEN shared + 1 ELSE 1

\* getPreferred() on the compressed trie picks the ledger that the free
\* validators could not vote down, whatever sequence was issued last.
PreferredIsSafe ==
  ~empty(trie) =>
    \A q \in 0..(Depth + 1) : getPreferred(trie, q) = Abstract!Preferred(Support, q)

\* Validations::getPreferred moves a server off its chain only to a branch that
\* has more support than its own where the two part (or as much, and the higher
\* hash), whichever sequence the server validated last and whatever it works on.
SwitchNeedsSupport ==
  \A curr \in Ledgers, largestIssued \in 0..(Depth + 1) :
    \A p \in preferredOver(trie, <<>>, curr, largestIssued) :
      LET at     == mismatch(p, curr)
          theirs == branchSupport(trie, SubSeq(p, 1, at))
          ours   == branchSupport(trie, SubSeq(curr, 1, at))
      IN  at <= seq(p) /\ at <= seq(curr) =>
            theirs > ours \/ (theirs = ours /\ Above(p, curr))

\* insert and remove change the support of their ledger by their count, and
\* of no other ledger.
CountsValidators == Abstract!Spec
================================================================================
