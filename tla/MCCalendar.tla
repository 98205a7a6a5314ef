----------------------------- MODULE MCCalendar -----------------------------
\* Two weeks from a Monday; the clocks go forward on the first Sunday and
\* back on the second.  The store checks on Mondays, and link 1 with it; link 2
\* may check on Mondays and Fridays, so that it comes to Monday from another day,
\* or every three days, or, since an import, twice a day.
EXTENDS Calendar

Mondays == [days |-> {0}, hours |-> 0]
Overrides ==
  [l \in Link |->
     IF l = 1 THEN {Inherit}
     ELSE {[days |-> {0, 4}, hours |-> 0], [days |-> {}, hours |-> 72],
           [days |-> {}, hours |-> 12]}]
=============================================================================
