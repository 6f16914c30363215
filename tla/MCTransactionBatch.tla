------------------------- MODULE MCTransactionBatch -------------------------
(***************************************************************************)
(* TransactionBatch for TLC: the transactions t1 and t2 of one account     *)
(* follow each other, so that t2 may be held until t1 gets in.             *)
(***************************************************************************)
EXTENDS TransactionBatch, TLC

CONSTANTS t1, t2, alice

MCAccount == [t \in Txs |-> alice]
MCSequence == t1 :> 1 @@ t2 :> 2

=============================================================================
