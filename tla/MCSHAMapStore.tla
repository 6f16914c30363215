----------------------------- MODULE MCSHAMapStore -----------------------------
(* Instances of SHAMapStore for TLC. *)
EXTENDS SHAMapStore, TLC

CONSTANTS root, leaf

\* One node stays from the first ledger to the last, the other comes and goes.
MCState == <<{root, leaf}, {root}, {root, leaf}>>

MCGrants == {0, 2}
================================================================================
