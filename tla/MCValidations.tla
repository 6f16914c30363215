----------------------------- MODULE MCValidations -----------------------------
EXTENDS Validations

\* A ledger, its successor, and a rival of the successor on another branch.
MCLedgers == {<<1>>, <<1, 1>>, <<2, 1>>}

\* Two ledgers of one sequence.
MCRivals == {<<1>>, <<2>>}

Symmetry == Permutations(Nodes)
================================================================================
