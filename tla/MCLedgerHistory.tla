--------------------------- MODULE MCLedgerHistory --------------------------
\* One store, the scheduler and two interactive fetches.  The interactive
\* fetches of different stores never meet in the ledger, so one store shows
\* everything; two of them are what it takes to collide behind the scheduler.
EXTENDS LedgerHistory, TLC

Symmetry == Permutations(Interactive)
=============================================================================
