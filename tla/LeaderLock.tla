----------------------------- MODULE LeaderLock -----------------------------
(***************************************************************************)
(* One scheduler per database: infra/leader_lock.py and the loop of        *)
(* domain/scheduler.py around it (_run_loop, _hold_leadership, stop).      *)
(* Several instances of the app share a database; each asks for the        *)
(* advisory lock at the start of a cycle, on a connection it keeps, and    *)
(* works only when it gets it.                                             *)
(*                                                                         *)
(* The lock belongs to a database SESSION, not to the instance: a          *)
(* connection may break while its instance works on, at once for the       *)
(* database or only when the database notices (holder = Orphan until       *)
(* then).  What a working instance does is left to SummaryMail.            *)
(***************************************************************************)
CONSTANTS Instance,
          Nobody,   \* no session holds the lock
          Orphan    \* a session no instance uses any more holds it

ASSUME LeaderLockAssumption ==
  /\ Nobody \notin Instance
  /\ Orphan \notin Instance
  /\ Nobody # Orphan

VARIABLES holder,   \* the database's view: whose session holds the lock
          conn,     \* self._conn: none, up, or broken without having been asked
          pc        \* down, asleep between two cycles, or in a cycle's work

vars == <<holder, conn, pc>>

Up(i) == pc[i] # "down"
Leads(i) == conn[i] = "up"
Works(i) == pc[i] = "cycle"

Init ==
  /\ holder = Nobody
  /\ conn = [i \in Instance |-> "none"]
  /\ pc = [i \in Instance |-> "down"]

\* What the database makes of a session whose client is gone.
SessionDies(i) ==
  IF holder = i THEN holder' \in {Nobody, Orphan} ELSE UNCHANGED holder

-----------------------------------------------------------------------------
Start(i) ==
  /\ pc[i] = "down"
  /\ pc' = [pc EXCEPT ![i] = "asleep"]
  /\ UNCHANGED <<holder, conn>>

\* Mutant of Keep: a kept connection is trusted without asking it.
KeepUnasked(i) ==
  /\ pc[i] = "asleep" /\ conn[i] # "none"
  /\ pc' = [pc EXCEPT ![i] = "cycle"]
  /\ UNCHANGED <<holder, conn>>

\* acquire(): the kept connection answers, so the lock is still ours.
Keep(i) ==
  /\ pc[i] = "asleep" /\ conn[i] = "up"
  /\ pc' = [pc EXCEPT ![i] = "cycle"]
  /\ UNCHANGED <<holder, conn>>

\* acquire(): no kept connection, or one that turns out broken and is
\* discarded; compete for the lock on a new one.
Win(i) ==
  /\ pc[i] = "asleep" /\ conn[i] # "up"
  /\ holder = Nobody
  /\ holder' = i
  /\ conn' = [conn EXCEPT ![i] = "up"]
  /\ pc' = [pc EXCEPT ![i] = "cycle"]

\* Mutant of StandBy: the connection is kept before its answer is read.
StandByKeepsConnection(i) ==
  /\ pc[i] = "asleep" /\ conn[i] # "up"
  /\ holder # Nobody
  /\ conn' = [conn EXCEPT ![i] = "up"]
  /\ UNCHANGED <<holder, pc>>

StandBy(i) ==
  /\ pc[i] = "asleep" /\ conn[i] # "up"
  /\ holder # Nobody
  /\ conn' = [conn EXCEPT ![i] = "none"]
  /\ UNCHANGED <<holder, pc>>

\* Mutant of AskFails: the work is done unguarded when the lock cannot be asked.
AskFailsWorksOn(i) ==
  /\ pc[i] = "asleep" /\ conn[i] # "up"
  /\ conn' = [conn EXCEPT ![i] = "none"]
  /\ pc' = [pc EXCEPT ![i] = "cycle"]
  /\ UNCHANGED holder

\* The database cannot be asked, or granted the lock on a connection that
\* broke before the answer arrived: standby for this cycle.
AskFails(i) ==
  /\ pc[i] = "asleep" /\ conn[i] # "up"
  /\ conn' = [conn EXCEPT ![i] = "none"]
  /\ \/ UNCHANGED holder
     \/ holder = Nobody /\ holder' = Orphan
  /\ UNCHANGED pc

\* Both jobs of the cycle returned or raised; the loop goes to sleep.
CycleDone(i) ==
  /\ pc[i] = "cycle"
  /\ pc' = [pc EXCEPT ![i] = "asleep"]
  /\ UNCHANGED <<holder, conn>>

\* stop(): the task is cancelled wherever it is and the lock released; a
\* cancelled acquire() may leave its grant on a connection nobody kept.
Stop(i) ==
  /\ Up(i)
  /\ pc' = [pc EXCEPT ![i] = "down"]
  /\ conn' = [conn EXCEPT ![i] = "none"]
  /\ \/ holder' = IF Leads(i) THEN Nobody ELSE holder
     \/ SessionDies(i)
     \/ pc[i] = "asleep" /\ ~Leads(i) /\ holder = Nobody /\ holder' = Orphan

Crash(i) ==
  /\ Up(i)
  /\ pc' = [pc EXCEPT ![i] = "down"]
  /\ conn' = [conn EXCEPT ![i] = "none"]
  /\ SessionDies(i)

\* The kept connection breaks; the instance learns of it when it next asks.
ConnectionBreaks(i) ==
  /\ conn[i] = "up"
  /\ conn' = [conn EXCEPT ![i] = "broken"]
  /\ SessionDies(i)
  /\ UNCHANGED pc

\* The database drops a session whose client is gone, and the lock with it.
Reap ==
  /\ holder = Orphan
  /\ holder' = Nobody
  /\ UNCHANGED <<conn, pc>>

Ask(i) == Keep(i) \/ Win(i) \/ StandBy(i)
Disturbance(i) == AskFails(i) \/ Stop(i) \/ Crash(i) \/ ConnectionBreaks(i)

Next ==
  \/ \E i \in Instance : Start(i) \/ Ask(i) \/ CycleDone(i) \/ Disturbance(i)
  \/ Reap

Spec == Init /\ [][Next]_vars

-----------------------------------------------------------------------------
TypeOK ==
  /\ holder \in Instance \cup {Nobody, Orphan}
  /\ conn \in [Instance -> {"none", "up", "broken"}]
  /\ pc \in [Instance -> {"down", "asleep", "cycle"}]

\* An instance whose kept connection is intact holds the lock in the
\* database's eyes: an orphaned grant, a release or a reconnection never
\* leaves two of them, or one that leads without the lock.
LeaderHoldsLock == \A i \in Instance : Leads(i) => holder = i

\* What the lock does guarantee about the work: two instances are at work at
\* once only while all but one of them finish a cycle during which their
\* connection broke; none of those begins another.
OverlapOnlyAfterALoss ==
  \A i, j \in Instance :
    (i # j /\ Works(i) /\ Works(j)) => conn[i] = "broken" \/ conn[j] = "broken"

\* A cycle is begun by the lock's holder and by nobody else, and never while
\* another instance leads.
OnlyTheLeaderBegins ==
  [][\A i \in Instance :
       (~Works(i) /\ Works(i)') =>
         /\ holder' = i
         /\ \A j \in Instance \ {i} : ~Leads(j)]_vars
=============================================================================
