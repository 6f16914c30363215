---------------------------- MODULE MCLedgerNetwork ----------------------------
(* Instances of LedgerNetwork for TLC. *)
EXTENDS LedgerNetwork, TLC

CONSTANTS v1, v2, s1, s2

MCHost == (v1 :> s1) @@ (v2 :> s2)

\* Two ledgers of the first sequence, and a child of one of them.
MCLedgers == {<<1>>, <<2>>, <<1, 1>>}

MCLists == {{v1, v2}, {v2}}
MCFirstLists == (s1 :> {v1, v2}) @@ (s2 :> {v2})
================================================================================
