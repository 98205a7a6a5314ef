----------------------------- MODULE MCLinkRow ------------------------------
\* The scheduler's check and two interactive ones on one link; two amounts, so
\* that a page can contradict the operator and another page, and two schedules.
EXTENDS LinkRow, TLC

Symmetry == Permutations(Interactive) \cup Permutations(Amount) \cup Permutations(Schedule)
=============================================================================
