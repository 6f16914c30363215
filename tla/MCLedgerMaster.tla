----------------------------- MODULE MCLedgerMaster -----------------------------
(* Instances of LedgerMaster for TLC. *)
EXTENDS LedgerMaster, TLC

CONSTANTS v1, v2

\* The chain the validators sign some ledgers of, a ledger this server builds
\* instead of the second one, and a first ledger of another chain.
A(n) == [i \in 1..n |-> 1]
Ours == <<1, 2>>
Other == <<2>>

MCLedgers == {A(i) : i \in 1..4} \cup {Ours, Other}
MCSigned == {A(1), A(2), A(4)}
MCBuilt == {Ours}
MCStored == {A(1), Other}

\* The table was left by an earlier run that had followed the other chain.
MCRows == [s \in 0..4 |-> IF s = 1 THEN Other ELSE None]

Symmetry == Permutations(Validators)
================================================================================
