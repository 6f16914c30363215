--------------------------- MODULE RCLValidatedLedger ---------------------------
(* A validated ledger as the validation code sees it: an identifier, a        *)
(* sequence number and the identifiers of its recent ancestors                *)
(* (app/consensus/RCLValidations.cpp, class RCLValidatedLedger).              *)
(*                                                                            *)
(* A ledger is written as the path that leads to it from the genesis ledger,  *)
(* one branch label per ledger closed, so two ledgers are the same exactly    *)
(* when their paths are, a ledger's sequence is the length of its path and    *)
(* its ancestors are the prefixes of the path.  The path stands for the hash; *)
(* the empty path stands for the all-zero hash, which the code uses both for  *)
(* the genesis ledger and for an ancestor it does not know.                   *)
EXTENDS Integers, Sequences, FiniteSetsExt, SequencesExt

CONSTANT Horizon        \* entries of the skip list a ledger carries (256)

ASSUME HorizonAssumption == Horizon \in Nat

Genesis == <<>>

seq(l) == Len(l)

minSeq(l) == seq(l) - Min({seq(l), Horizon})

\* operator[]: the ancestor at s, or the zero identifier when it is not known.
ancestor(l, s) ==
  IF s >= minSeq(l) /\ s <= seq(l) THEN SubSeq(l, 1, s) ELSE Genesis

\* The operator> of identifiers: any strict total order would do.
Above(a, b) ==
  \/ IsStrictPrefix(b, a)
  \/ \E i \in 1..Min({Len(a), Len(b)}) :
        SubSeq(a, 1, i - 1) = SubSeq(b, 1, i - 1) /\ a[i] > b[i]

--------------------------------------------------------------------------------
mismatch_NoHorizon(a, b) ==
  LET upper == Min({seq(a), seq(b)})
      Back[c \in 0..upper] ==
        IF c # 0 /\ ancestor(a, c) # ancestor(b, c) THEN Back[c - 1] ELSE c
  IN  Back[upper] + 1

\* The first sequence at which two ledgers have different ancestors, found by
\* walking back from the older tip; 1 when they share no ancestor both know.
mismatch(a, b) ==
  LET lower == Max({minSeq(a), minSeq(b)})
      upper == Min({seq(a), seq(b)})
      Back[c \in 0..upper] ==
        IF c # 0 /\ ancestor(a, c) # ancestor(b, c) /\ c >= lower
          THEN Back[c - 1]
          ELSE c
  IN  IF Back[upper] < lower THEN 1 ELSE Back[upper] + 1
================================================================================
