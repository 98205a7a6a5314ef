--------------------------- MODULE MCSummaryMail ----------------------------
\* Two instances, the leader and its successor.  Day 1 is a Friday with checks,
\* day 2 the Monday of the fallback.
EXTENDS SummaryMail
=============================================================================
