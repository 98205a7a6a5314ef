---------------------------- MODULE MCStoreBlock ----------------------------
\* Two interchangeable stores; cooldowns of 2, 4 and 5 ticks, so that the
\* ceiling cuts the last doubling and a third block saturates the count.
EXTENDS StoreBlockHistory, TLC

Symmetry == Permutations(Store)
=============================================================================
