---------------------------- MODULE MCScheduler ----------------------------
\* One store walls us for the scheduler and the user alike, and one link is due at
\* it again and again: what the two callers do to each other.  MCSchedulerHistory
\* has the second link, without the user.
EXTENDS Scheduler, TLC

CONSTANTS ica, l1

AllAtIca == [l \in Link |-> ica]
=============================================================================
