------------------------------ MODULE MCDeals -------------------------------
\* One product, two links; windows of a day and of two, prices ten per cent apart.
EXTENDS Stats, TLC

MCPrice == {10, 11}
Links == Permutations(Link)
MCAmount == {1, 2}
OwnStore == [l \in Link |-> l]
=============================================================================
