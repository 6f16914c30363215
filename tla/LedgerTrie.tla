------------------------------- MODULE LedgerTrie -------------------------------
(* The compressed trie of ledger ancestry that counts, for every branch of    *)
(* the ledger history, the validators that support it, and picks the branch   *)
(* they prefer (consensus/LedgerTrie.h).                                      *)
(*                                                                            *)
(* A node covers a span [start, end) of one ledger's ancestry.  It is named   *)
(* by the last ledger of the span, its tip, so end is seq(tip) + 1.  The      *)
(* children of a node are the nodes whose parent field names it; the order of *)
(* the children vector is left out, for no two children of a node agree with  *)
(* the same ledger beyond the node's end.                                     *)
(*                                                                            *)
(* A trie is [nodes |-> tip :> [start, tip, branch, parent], seqSupport].     *)
EXTENDS RCLValidatedLedger

NewNode(start, parent) == [start |-> start, tip |-> 0, branch |-> 0, parent |-> parent]

EmptyTrie == [nodes |-> (Genesis :> NewNode(0, Genesis)), seqSupport |-> <<>>]

--------------------------------------------------------------------------------
(* Span *)

end(n) == seq(n) + 1

clamp(nodes, n, s) == Min({Max({nodes[n].start, s}), end(n)})

diff(nodes, n, l) == clamp(nodes, n, mismatch(n, l))

(* Node *)

children(nodes, n) == {c \in DOMAIN nodes \ {Genesis} : nodes[c].parent = n}

startID(nodes, n) == ancestor(n, nodes[n].start)

\* The node and its parents up to the root.
lineage(nodes, n) ==
  LET Up[m \in DOMAIN nodes] ==
        {m} \cup IF m = Genesis THEN {} ELSE Up[nodes[m].parent]
  IN  Up[n]

\* branchSupport of a node and of all its parents changes by count.
withBranch(nodes, n, count) ==
  [m \in DOMAIN nodes |->
     IF m \in lineage(nodes, n) THEN [nodes[m] EXCEPT !.branch = @ + count]
                                ELSE nodes[m]]

--------------------------------------------------------------------------------
(* LedgerTrie *)

\* The deepest node that agrees with the ledger beyond its parent's span.
find(nodes, l) ==
  LET further(n) == {c \in children(nodes, n) : diff(nodes, c, l) > diff(nodes, n, l)}
      Down[n \in DOMAIN nodes] ==
        IF diff(nodes, n, l) = end(n) /\ further(n) # {}
          THEN Down[CHOOSE c \in further(n) : TRUE]
          ELSE n
  IN  Down[Genesis]

support(seqSupport, s) == IF s \in DOMAIN seqSupport THEN seqSupport[s] ELSE 0

\* A node whose span runs past the ledger's ancestry is split at the mismatch:
\* the suffix keeps the node's tip, support and children, the prefix takes its
\* place below the parent.
splitAt(nodes, loc, pos) ==
  LET prefix == SubSeq(loc, 1, pos - 1)
  IN  (prefix :> [nodes[loc] EXCEPT !.tip = 0])
      @@ [nodes EXCEPT ![loc].start = pos, ![loc].parent = prefix]

\* What the ledger has beyond the mismatch becomes a child of the prefix.
insert(t, l, count) ==
  LET loc    == find(t.nodes, l)
      pos    == diff(t.nodes, loc, l)
      prefix == SubSeq(loc, 1, pos - 1)
      split  == IF pos < end(loc) THEN splitAt(t.nodes, loc, pos) ELSE t.nodes
      grown  == IF pos <= seq(l) THEN (l :> NewNode(pos, prefix)) @@ split ELSE split
      inc    == IF pos <= seq(l) THEN l ELSE prefix
  IN  [nodes |-> withBranch([grown EXCEPT ![inc].tip = @ + count], inc, count),
       seqSupport |-> (seq(l) :> support(t.seqSupport, seq(l)) + count) @@ t.seqSupport]

Without(f, x) == Restrict(f, DOMAIN f \ {x})

prune_LeavesOnly(p) ==
  LET loc  == p.loc
      kids == children(p.nodes, loc)
      up   == p.nodes[loc].parent
  IN  IF loc = Genesis \/ p.nodes[loc].tip # 0 \/ kids # {} THEN p
      ELSE [nodes |-> Without(p.nodes, loc), loc |-> up]

\* One turn of remove's loop: an unsupported node with no child goes, one with
\* a single child is merged into it, and its parent is looked at next.
prune(p) ==
  LET loc  == p.loc
      kids == children(p.nodes, loc)
      up   == p.nodes[loc].parent
      kid  == CHOOSE k \in kids : TRUE
  IN  IF loc = Genesis \/ p.nodes[loc].tip # 0 \/ Cardinality(kids) > 1 THEN p
      ELSE [nodes |-> IF kids = {} THEN Without(p.nodes, loc)
                      ELSE Without([p.nodes EXCEPT ![kid].start = Min({@, p.nodes[loc].start}),
                                                   ![kid].parent = up], loc),
            loc |-> up]

removable(t, l) == l \in DOMAIN t.nodes /\ t.nodes[l].tip # 0

taken_All(t, l, count) == t.nodes[l].tip

taken(t, l, count) == Min({count, t.nodes[l].tip})

remove(t, l, count) ==
  LET c    == taken(t, l, count)
      left == t.seqSupport[seq(l)] - c
      cut  == withBranch([t.nodes EXCEPT ![l].tip = @ - c], l, -c)
      Loop[i \in 0..seq(l)] ==
        IF i = 0 THEN [nodes |-> cut, loc |-> l] ELSE prune(Loop[i - 1])
  IN  IF ~removable(t, l) THEN t
      ELSE [nodes |-> Loop[seq(l)].nodes,
            seqSupport |-> IF left = 0 THEN Without(t.seqSupport, seq(l))
                           ELSE [t.seqSupport EXCEPT ![seq(l)] = left]]

tipSupport(t, l) == IF l \in DOMAIN t.nodes THEN t.nodes[l].tip ELSE 0

branchSupport(t, l) ==
  LET loc == find(t.nodes, l)
  IN  IF l \in DOMAIN t.nodes THEN t.nodes[l].branch
      ELSE IF diff(t.nodes, loc, l) > seq(l) /\ seq(l) < end(loc)
           THEN t.nodes[loc].branch
           ELSE 0

empty(t) == t.nodes[Genesis].branch = 0

--------------------------------------------------------------------------------
(* getPreferred *)

\* The validators last seen below sequence q: their next validation may still
\* land on any branch that q is on.
uncommitted(t, q) ==
  SumFunctionOnSet(t.seqSupport, {s \in DOMAIN t.seqSupport : s < q})

\* How far the walk gets inside a node's span: it counts the uncommitted
\* support of one more sequence at a time, and stops when the support of the
\* branch no longer exceeds it.
nextSeq(t, n, largestIssued) ==
  LET first == Max({t.nodes[n].start + 1, largestIssued})
      marks == {first} \cup
               {s + 1 : s \in {s \in DOMAIN t.seqSupport : first <= s /\ s < end(n)}}
      stops == {q \in marks : t.nodes[n].branch <= uncommitted(t, q)}
  IN  CASE stops = {}         -> end(n)
        [] first \in stops    -> t.nodes[n].start + 1
        [] OTHER              -> Min(stops)

ahead_LowIDFirst(nodes, c, d) ==
  \/ nodes[c].branch > nodes[d].branch
  \/ nodes[c].branch = nodes[d].branch /\ Above(startID(nodes, d), startID(nodes, c))

\* The order of the partial_sort of the children.
ahead(nodes, c, d) ==
  \/ nodes[c].branch > nodes[d].branch
  \/ nodes[c].branch = nodes[d].branch /\ Above(startID(nodes, c), startID(nodes, d))

bestOf(nodes, kids) == CHOOSE c \in kids : \A d \in kids \ {c} : ahead(nodes, c, d)

margin_NoTieBreak(nodes, kids) ==
  LET best   == bestOf(nodes, kids)
      second == bestOf(nodes, kids \ {best})
  IN  IF Cardinality(kids) = 1 THEN nodes[best].branch
      ELSE nodes[best].branch - nodes[second].branch

\* The lead of the best child over the second.
margin(nodes, kids) ==
  LET best   == bestOf(nodes, kids)
      second == bestOf(nodes, kids \ {best})
  IN  IF Cardinality(kids) = 1 THEN nodes[best].branch
      ELSE nodes[best].branch - nodes[second].branch
           + IF Above(startID(nodes, best), startID(nodes, second)) THEN 1 ELSE 0

\* The tip of the preferred branch of a trie that is not empty.
getPreferred(t, largestIssued) ==
  LET Walk[n \in DOMAIN t.nodes] ==
        LET kids == children(t.nodes, n)
            free == uncommitted(t, Max({end(n), largestIssued}))
            next == nextSeq(t, n, largestIssued)
        IN  IF next < end(n) THEN ancestor(n, next - 1)
            ELSE IF kids # {} /\ (margin(t.nodes, kids) > free \/ free = 0)
                 THEN Walk[bestOf(t.nodes, kids)]
                 ELSE n
  IN  Walk[Genesis]

--------------------------------------------------------------------------------
\* The class's own consistency check.
checkInvariants(t) ==
  LET tips(s) == {n \in DOMAIN t.nodes : t.nodes[n].tip # 0 /\ seq(n) = s}
      tipOf   == [n \in DOMAIN t.nodes |-> t.nodes[n].tip]
      branchOf == [n \in DOMAIN t.nodes |-> t.nodes[n].branch]
  IN  /\ \A n \in DOMAIN t.nodes :
           LET kids == children(t.nodes, n)
           IN  /\ n = Genesis \/ t.nodes[n].tip # 0 \/ Cardinality(kids) >= 2
               /\ t.nodes[n].branch = t.nodes[n].tip + SumFunctionOnSet(branchOf, kids)
      /\ t.seqSupport = [s \in {seq(n) : n \in {n \in DOMAIN t.nodes : t.nodes[n].tip # 0}}
                           |-> SumFunctionOnSet(tipOf, tips(s))]
================================================================================
