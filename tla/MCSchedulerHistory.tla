------------------------ MODULE MCSchedulerHistory ------------------------
\* One store walls the scheduler; a second link is what it takes to spread
\* deferrals and to queue behind one another.
EXTENDS SchedulerHistory, TLC

CONSTANTS ica, l1, l2

AllAtIca == [l \in Link |-> ica]
=============================================================================
