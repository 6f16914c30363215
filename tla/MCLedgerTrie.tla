------------------------------ MODULE MCLedgerTrie ------------------------------
EXTENDS LedgerTrieUse

\* Two chains that part after their first ledger, a third root, and gaps that
\* leave spans longer than one ledger.
MCLedgers ==
  {<<1>>, <<1, 1>>, <<1, 2>>, <<1, 1, 1>>, <<1, 1, 2>>, <<1, 1, 2, 1>>,
   <<1, 2, 1>>, <<2>>, <<2, 1, 1>>, <<3, 1>>}
================================================================================
