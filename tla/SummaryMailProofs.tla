------------------------- MODULE SummaryMailProofs --------------------------
(***************************************************************************)
(* What TLAPS proves of the leader lock, for any set of instances, and of  *)
(* the buy-list mail over it, for any calendar.                            *)
(*                                                                         *)
(* One mail per mishap is not inductive: an instance on its way to a send  *)
(* counts already.  Budget counts the mails out and the instances that may *)
(* still send one against the mishaps, and one on the house: for the       *)
(* leader's own attempt, for a day on record, or for a day that is over.   *)
(***************************************************************************)
EXTENDS SummaryMail, TLAPS, FiniteSetTheorems

-----------------------------------------------------------------------------
(* The lock. *)

\* The inductive invariant: who leads holds the lock, and a cycle is worked on
\* a connection that was up when it began and may have broken since.
WorkNeedsConnection == \A i \in Instance : Works(i) => conn[i] \in {"up", "broken"}

LockInv == TypeOK /\ LeaderHoldsLock /\ WorkNeedsConnection

LEMMA LockInvInit == Init => LockInv
  BY DEF Init, LockInv, TypeOK, LeaderHoldsLock, WorkNeedsConnection, Leads, Works

\* An instance whose process or connection ends takes nobody else's lock.
LEMMA LossKeepsLockInv ==
  ASSUME LockInv, NEW i \in Instance, SessionDies(i),
         conn' \in {[conn EXCEPT ![i] = "none"], [conn EXCEPT ![i] = "broken"]},
         \/ pc' = [pc EXCEPT ![i] = "down"]
         \/ pc' = pc /\ conn' = [conn EXCEPT ![i] = "broken"]
  PROVE  LockInv'
<1> USE DEF LockInv
<1>1. holder' \in {holder, Nobody, Orphan} /\ (holder # i => holder' = holder)
  BY DEF SessionDies
<1>2. TypeOK'
  BY <1>1 DEF TypeOK
<1>3. \A j \in Instance : Leads(j)' => j # i /\ Leads(j)
  BY DEF TypeOK, Leads
<1>4. LeaderHoldsLock'
  BY <1>1, <1>3 DEF LeaderHoldsLock
<1>5. WorkNeedsConnection'
  BY DEF TypeOK, WorkNeedsConnection, Works
<1> QED
  BY <1>2, <1>4, <1>5

LEMMA LockInvStep ==
  ASSUME LockInv, [Next]_vars
  PROVE  LockInv'
<1> USE LeaderLockAssumption
    DEF LockInv, TypeOK, LeaderHoldsLock, WorkNeedsConnection, Leads, Works
<1>1. ASSUME NEW i \in Instance, Start(i) PROVE LockInv'
  BY <1>1 DEF Start
<1>2. ASSUME NEW i \in Instance, Keep(i) PROVE LockInv'
  BY <1>2 DEF Keep
<1>3. ASSUME NEW i \in Instance, Win(i) PROVE LockInv'
  BY <1>3 DEF Win
<1>4. ASSUME NEW i \in Instance, StandBy(i) PROVE LockInv'
  BY <1>4 DEF StandBy
<1>5. ASSUME NEW i \in Instance, AskFails(i) PROVE LockInv'
  BY <1>5 DEF AskFails
<1>6. ASSUME NEW i \in Instance, CycleDone(i) PROVE LockInv'
  BY <1>6 DEF CycleDone
<1>7. ASSUME NEW i \in Instance, Stop(i) PROVE LockInv'
  <2>1. CASE holder' = IF Leads(i) THEN Nobody ELSE holder
    BY <1>7, <2>1 DEF Stop
  <2>2. CASE SessionDies(i)
    BY <1>7, <2>2, LossKeepsLockInv DEF Stop
  <2>3. CASE holder = Nobody /\ holder' = Orphan
    BY <1>7, <2>3 DEF Stop
  <2> QED
    BY <1>7, <2>1, <2>2, <2>3 DEF Stop
<1>8. ASSUME NEW i \in Instance, Crash(i) PROVE LockInv'
  BY <1>8, LossKeepsLockInv DEF Crash
<1>9. ASSUME NEW i \in Instance, ConnectionBreaks(i) PROVE LockInv'
  BY <1>9, LossKeepsLockInv DEF ConnectionBreaks
<1>10. CASE Reap
  BY <1>10 DEF Reap
<1>11. CASE UNCHANGED vars
  BY <1>11 DEF vars
<1> QED
  BY <1>1, <1>2, <1>3, <1>4, <1>5, <1>6, <1>7, <1>8, <1>9, <1>10, <1>11
  DEF Next, Ask, Disturbance

\* Type correctness, and the fact everything else rests on.
THEOREM LockInvariant == Spec => []LockInv
  BY LockInvInit, LockInvStep, PTL DEF Spec

\* An instance with an intact connection holds the lock in the database's
\* eyes.
THEOREM LeadersHoldTheLock == Spec => []LeaderHoldsLock
  BY LockInvariant, PTL DEF LockInv

\* Two instances are at work at once only while one of them finishes a cycle
\* during which its connection broke.
THEOREM OverlapNeedsALoss == Spec => []OverlapOnlyAfterALoss
<1>1. LockInv => OverlapOnlyAfterALoss
  BY DEF LockInv, LeaderHoldsLock, WorkNeedsConnection, OverlapOnlyAfterALoss, Leads
<1> QED
  BY <1>1, LockInvariant, PTL

\* A cycle is begun by the lock's holder only, while nobody else leads.
THEOREM LeaderAloneBegins == Spec => OnlyTheLeaderBegins
<1>1. ASSUME LockInv, [Next]_vars, NEW i \in Instance, ~Works(i), Works(i)'
      PROVE  holder' = i /\ \A j \in Instance \ {i} : ~Leads(j)
  <2> USE <1>1 DEF LockInv, TypeOK, Works
  <2>1. Keep(i) \/ Win(i)
    BY DEF Next, Ask, Disturbance, Start, Keep, Win, StandBy, AskFails, CycleDone,
           Stop, Crash, ConnectionBreaks, Reap, vars
  <2>2. CASE Keep(i)
    BY <2>2 DEF Keep, LeaderHoldsLock, Leads
  <2>3. CASE Win(i)
    BY <2>3, LeaderLockAssumption DEF Win, LeaderHoldsLock
  <2> QED
    BY <2>1, <2>2, <2>3
<1>2. LockInv /\ [Next]_vars
        => [\A i \in Instance :
              (~Works(i) /\ Works(i)') =>
                /\ holder' = i
                /\ \A j \in Instance \ {i} : ~Leads(j)]_vars
  BY <1>1
<1> QED
  BY <1>2, LockInvariant, PTL DEF Spec, OnlyTheLeaderBegins

-----------------------------------------------------------------------------
(* What the mail's invariant speaks of. *)

\* In its checks, from where it comes to the mail of today or a later day.
Asked(d, i) == phase[i] = "checks" /\ today <= d

Recording(d, i) == phase[i] = "record" /\ mailDay[i] = d

\* The instances that may still send a mail of day d.
Threat(d) ==
  {i \in Instance :
     \/ mailDay[i] = d /\ phase[i] \in {"compose", "send"}
     \/ /\ d \notin receipts
        /\ Asked(d, i) \/ (mailDay[i] = d /\ phase[i] = "guard")}

\* The leader's own mail of day d is one of those counted.
Leading(d) ==
  \E i \in Instance : Leads(i) /\ (i \in Threat(d) \/ Recording(d, i))

OnTheHouse(d) == d < today \/ d \in receipts \/ Leading(d)

Allowed(d) == mishaps[d] + (IF OnTheHouse(d) THEN 1 ELSE 0)

Kept(d) == sent[d] + Cardinality(Threat(d)) <= Allowed(d)

Budget == \A d \in Day : Kept(d)

\* Where a cycle is decides which day it works on: one whose mail is due.
PhaseInv ==
  \A i \in Instance :
    /\ Works(i) <=> phase[i] # "rest"
    /\ phase[i] \in {"rest", "checks"} <=> mailDay[i] = NoDay
    /\ mailDay[i] # NoDay => /\ mailDay[i] \in CheckDays \cup FallbackDays
                             /\ \/ mailDay[i] < today
                                \/ mailDay[i] = today /\ noon
    /\ phase[i] = "record" => sent[mailDay[i]] > 0

PlainInv == MTypeOK /\ PhaseInv /\ ReceiptMeansSent /\ MailOnlyWhenDue

MailInv == LockInv /\ PlainInv /\ Budget

-----------------------------------------------------------------------------
(* The mail runs on the lock. *)

LEMMA MailStepsAreLockSteps == [MNext]_allVars => [Next]_vars
<1>1. ASSUME NEW i \in Instance, MailStep(i) PROVE [Next]_vars
  BY <1>1 DEF MailStep, Begin, WeekdaysRead, WeekdaysFallBack, StandDown, Compose,
     HasNews, NoNews, SendOk, SendFails, Record, RecordFails, SlotFound, Finish, Next, Ask
<1>2. ASSUME NEW i \in Instance, Dies(i) \/ LosesLock(i) \/ Idle(i) PROVE [Next]_vars
  BY <1>2 DEF Dies, LosesLock, Idle, Next, Ask, Disturbance
<1>3. CASE Reaped \/ Noon \/ Midnight \/ UNCHANGED allVars
  BY <1>3 DEF Reaped, Noon, Midnight, allVars, Next
<1> QED
  BY <1>1, <1>2, <1>3 DEF MNext

\* The mail job is run under the leader lock and nothing else touches it.
THEOREM MailKeepsTheLock == MSpec => Spec
<1>1. MInit => Init
  BY DEF MInit
<1> QED
  BY <1>1, MailStepsAreLockSteps, PTL DEF MSpec, Spec

-----------------------------------------------------------------------------
(* Everything but the budget. *)

LEMMA PlainInit == ASSUME MInit PROVE PlainInv
<1> USE SummaryMailAssumption DEF MInit, Init
<1>1. TypeOK
  BY LockInvInit DEF LockInv
<1>2. MTypeOK
  <2>1. today \in Day /\ receipts \subseteq Day
    BY DEF Day
  <2>3. noon \in BOOLEAN
    BY Zenon
  <2>2. sent \in [Day -> Nat] /\ mishaps \in [Day -> 0..MaxMishaps]
    BY DEF Day
  <2> QED
    BY <1>1, <2>1, <2>2, <2>3 DEF MTypeOK
<1>3. PhaseInv
  BY DEF PhaseInv, Works
<1>4. ReceiptMeansSent /\ MailOnlyWhenDue
  BY DEF ReceiptMeansSent, MailOnlyWhenDue, Day, NoDay
<1> QED
  BY <1>2, <1>3, <1>4 DEF PlainInv

\* A cycle that finds a day, or none.
LEMMA SlotKeepsPlain ==
  ASSUME PlainInv, TypeOK', NEW i \in Instance, NEW days \in SUBSET (CheckDays \cup FallbackDays),
         phase[i] = "checks", SlotFound(i, Slot(days)), UNCHANGED <<clockVars, stamp, mailVars, mishaps>>,
         known' \in {known, [known EXCEPT ![i] = today]}
  PROVE  PlainInv'
<1> USE SummaryMailAssumption DEF PlainInv, clockVars, mailVars
<1>1. CASE Slot(days) # NoDay
  <2>1. /\ Slot(days) = today /\ noon /\ today \in days
        /\ phase' = [phase EXCEPT ![i] = "guard"]
        /\ mailDay' = [mailDay EXCEPT ![i] = today]
        /\ UNCHANGED <<pc, conn>>
    BY <1>1 DEF SlotFound, Slot, Finish, Goto, vars
  <2>2. MTypeOK'
    BY <2>1 DEF MTypeOK
  <2>3. PhaseInv'
    BY <2>1 DEF MTypeOK, PhaseInv, Works, Day, NoDay
  <2> QED
    BY <2>1, <2>2, <2>3 DEF ReceiptMeansSent, MailOnlyWhenDue
<1>2. CASE Slot(days) = NoDay
  <2>1. Finish(i)
    BY <1>2 DEF SlotFound
  <2>2. MTypeOK'
    BY <2>1 DEF MTypeOK, Finish, Goto
  <2>3. PhaseInv'
    BY <2>1 DEF MTypeOK, PhaseInv, Works, Day, NoDay, Finish, Goto, CycleDone, TypeOK
  <2> QED
    BY <2>1, <2>2, <2>3 DEF ReceiptMeansSent, MailOnlyWhenDue
<1> QED
  BY <1>1, <1>2

\* A cycle that ends, whatever it sent or recorded before.
LEMMA EndKeepsPlain ==
  ASSUME PlainInv, TypeOK', NEW i \in Instance, mailDay[i] # NoDay,
         phase' = [phase EXCEPT ![i] = "rest"],
         mailDay' = [mailDay EXCEPT ![i] = NoDay],
         pc' = [pc EXCEPT ![i] = "asleep"] \/ pc' = [pc EXCEPT ![i] = "down"],
         \/ stamp' = stamp
         \/ stamp' = [stamp EXCEPT ![i] = NoDay]
         \/ /\ stamp' = [stamp EXCEPT ![i] = mailDay[i]]
            /\ Recipient => sent[mailDay[i]] > 0,
         known' = known \/ known' = [known EXCEPT ![i] = NoDay],
         \/ receipts' = receipts
         \/ receipts' = receipts \cup {mailDay[i]} /\ sent[mailDay[i]] > 0,
         sent' = sent \/ Deliver(i),
         mishaps' = mishaps \/ Mishap({mailDay[i]}),
         UNCHANGED clockVars
  PROVE  PlainInv'
<1> USE SummaryMailAssumption DEF PlainInv, clockVars
<1>0. mailDay[i] \in Day
  BY DEF MTypeOK
<1>1. /\ sent' \in [Day -> Nat]
      /\ \A d \in Day : sent[d] > 0 => sent'[d] > 0
      /\ \A d \in Day : sent'[d] > 0 => sent[d] > 0 \/ d = mailDay[i]
  BY <1>0 DEF MTypeOK, Deliver
<1>2. mishaps' \in [Day -> 0..MaxMishaps]
  BY <1>0 DEF MTypeOK, Mishap
<1>3. MTypeOK'
  BY <1>0, <1>1, <1>2 DEF MTypeOK
<1>7. /\ phase'[i] = "rest" /\ mailDay'[i] = NoDay /\ ~Works(i)'
      /\ \A j \in Instance \ {i} :
           /\ phase'[j] = phase[j] /\ mailDay'[j] = mailDay[j]
           /\ Works(j)' <=> Works(j)
           /\ stamp'[j] = stamp[j]
  BY DEF MTypeOK, TypeOK, Works
<1>8. ASSUME NEW j \in Instance, phase'[j] = "record" PROVE sent'[mailDay'[j]] > 0
  <2>1. j # i /\ phase[j] = "record" /\ mailDay'[j] = mailDay[j] /\ mailDay[j] # NoDay
    BY <1>7, <1>8 DEF PhaseInv
  <2>2. mailDay[j] \in Day /\ sent[mailDay[j]] > 0
    BY <2>1, <1>7, <1>8 DEF PhaseInv, MTypeOK
  <2>3. sent'[mailDay[j]] > 0
    BY <2>2, <1>1
  <2> QED
    BY <2>1, <2>3
<1>4. PhaseInv'
  BY <1>7, <1>8 DEF PhaseInv
<1>9. \A d \in Day : (Recipient /\ stamp'[i] = d) => sent[d] > 0
  BY <1>0 DEF MTypeOK, ReceiptMeansSent, Day, NoDay
<1>10. \A d \in Day : (Recipient /\ \E j \in Instance : stamp'[j] = d) => sent[d] > 0
  BY <1>7, <1>9 DEF ReceiptMeansSent
<1>11. \A d \in Day : d \in receipts' => sent[d] > 0
  BY <1>0 DEF ReceiptMeansSent
<1>5. ReceiptMeansSent'
  BY <1>1, <1>10, <1>11 DEF ReceiptMeansSent
<1>6. MailOnlyWhenDue'
  BY <1>0, <1>1 DEF MTypeOK, PhaseInv, MailOnlyWhenDue
<1> QED
  BY <1>3, <1>4, <1>5, <1>6

LEMMA PlainStep ==
  ASSUME LockInv, LockInv', PlainInv, [MNext]_allVars
  PROVE  PlainInv'
<1> USE SummaryMailAssumption DEF PlainInv, clockVars, memoryVars, mailVars
<1>0. TypeOK /\ TypeOK'
  BY DEF LockInv
<1>1. ASSUME NEW i \in Instance, Begin(i) PROVE PlainInv'
  <2>1. phase[i] = "rest" /\ pc' = [pc EXCEPT ![i] = "cycle"]
        /\ phase' = [phase EXCEPT ![i] = "checks"]
    BY <1>1 DEF Begin, Keep, Win, PhaseInv, Works, Goto
  <2>2. MTypeOK'
    BY <1>0, <1>1, <2>1 DEF MTypeOK, Begin
  <2>3. PhaseInv'
    BY <1>0, <1>1, <2>1 DEF PhaseInv, MTypeOK, TypeOK, Works, Begin
  <2> QED
    BY <1>1, <2>2, <2>3 DEF Begin, ReceiptMeansSent, MailOnlyWhenDue
<1>2. ASSUME NEW i \in Instance, WeekdaysRead(i) PROVE PlainInv'
  BY <1>0, <1>2, SlotKeepsPlain DEF WeekdaysRead
<1>3. ASSUME NEW i \in Instance, WeekdaysFallBack(i) PROVE PlainInv'
  BY <1>0, <1>3, SlotKeepsPlain DEF WeekdaysFallBack
<1>4. ASSUME NEW i \in Instance, StandDown(i) PROVE PlainInv'
  <2>1. mailDay[i] \in Day /\ mailDay[i] # NoDay
    BY <1>4 DEF StandDown, PhaseInv, MTypeOK
  <2>2. Recipient => sent[mailDay[i]] > 0
    BY <1>4, <2>1 DEF StandDown, ReceiptMeansSent
  <2> QED
    BY <1>0, <1>4, <2>1, <2>2, EndKeepsPlain DEF StandDown, Finish, Goto, CycleDone
<1>5. ASSUME NEW i \in Instance, Compose(i) PROVE PlainInv'
  <2>1. mailDay[i] \in Day
    BY <1>5 DEF Compose, PhaseInv, MTypeOK
  <2>2. MTypeOK'
    BY <1>0, <1>5, <2>1 DEF MTypeOK, Compose, Goto, Mishap
  <2>3. PhaseInv'
    BY <1>5 DEF PhaseInv, MTypeOK, Works, Compose, Goto, vars
  <2> QED
    BY <1>5, <2>2, <2>3 DEF Compose, ReceiptMeansSent, MailOnlyWhenDue
<1>6. ASSUME NEW i \in Instance, HasNews(i) PROVE PlainInv'
  <2>2. MTypeOK'
    BY <1>0, <1>6 DEF MTypeOK, HasNews, Goto
  <2>3. PhaseInv'
    BY <1>6 DEF PhaseInv, MTypeOK, Works, HasNews, Goto, vars
  <2> QED
    BY <1>6, <2>2, <2>3 DEF HasNews, ReceiptMeansSent, MailOnlyWhenDue
<1>7. ASSUME NEW i \in Instance, NoNews(i) PROVE PlainInv'
  <2>1. mailDay[i] # NoDay
    BY <1>7 DEF NoNews, PhaseInv
  <2> QED
    BY <1>0, <1>7, <2>1, EndKeepsPlain DEF NoNews, Finish, Goto, CycleDone
<1>8. ASSUME NEW i \in Instance, SendOk(i) PROVE PlainInv'
  <2>1. mailDay[i] \in Day /\ mailDay[i] # NoDay
    BY <1>8 DEF SendOk, PhaseInv, MTypeOK
  <2>2. sent' \in [Day -> Nat] /\ sent'[mailDay[i]] > 0
        /\ \A d \in Day : /\ sent[d] > 0 => sent'[d] > 0
                          /\ sent'[d] > 0 => sent[d] > 0 \/ d = mailDay[i]
    BY <1>8, <2>1 DEF MTypeOK, Deliver, SendOk
  <2>3. MTypeOK'
    BY <1>0, <1>8, <2>1, <2>2 DEF MTypeOK, SendOk, Goto
  <2>4. PhaseInv'
    BY <1>8, <2>1, <2>2 DEF PhaseInv, MTypeOK, Works, SendOk, Goto, vars
  <2>5. ReceiptMeansSent'
    BY <1>8, <2>1, <2>2 DEF ReceiptMeansSent, SendOk, MTypeOK
  <2>6. MailOnlyWhenDue'
    BY <1>8, <2>1, <2>2 DEF MailOnlyWhenDue, SendOk, PhaseInv
  <2> QED
    BY <2>3, <2>4, <2>5, <2>6
<1>9. ASSUME NEW i \in Instance, SendFails(i) PROVE PlainInv'
  <2>1. mailDay[i] # NoDay
    BY <1>9 DEF SendFails, PhaseInv
  <2> QED
    BY <1>0, <1>9, <2>1, EndKeepsPlain DEF SendFails, Finish, Goto, CycleDone
<1>10. ASSUME NEW i \in Instance, Record(i) PROVE PlainInv'
  BY <1>0, <1>10, EndKeepsPlain DEF Record, Finish, Goto, CycleDone, PhaseInv
<1>11. ASSUME NEW i \in Instance, RecordFails(i) PROVE PlainInv'
  BY <1>0, <1>11, EndKeepsPlain DEF RecordFails, Finish, Goto, CycleDone, PhaseInv
<1>12. ASSUME NEW i \in Instance, Dies(i) PROVE PlainInv'
  <2>1. pc' = [pc EXCEPT ![i] = "down"]
    BY <1>12 DEF Dies, Crash, Stop
  <2>2. CASE mailDay[i] # NoDay
    BY <1>0, <1>12, <2>1, <2>2, EndKeepsPlain DEF Dies, Goto
  <2>3. CASE mailDay[i] = NoDay
    <3>1. UNCHANGED <<sent, mishaps>> /\ phase[i] \in {"rest", "checks"}
      BY <1>12, <2>3 DEF Dies, PhaseInv
    <3>2. MTypeOK'
      BY <1>0, <1>12, <3>1 DEF Dies, Goto, MTypeOK
    <3>3. PhaseInv'
      BY <1>0, <1>12, <2>1, <3>1 DEF Dies, Goto, MTypeOK, TypeOK, PhaseInv, Works
    <3> QED
      BY <1>12, <3>1, <3>2, <3>3 DEF Dies, ReceiptMeansSent, MailOnlyWhenDue, MTypeOK, Day, NoDay
  <2> QED
    BY <2>2, <2>3
<1>13. ASSUME NEW i \in Instance, LosesLock(i) PROVE PlainInv'
  <2>1. mishaps' \in [Day -> 0..MaxMishaps]
    BY <1>13 DEF LosesLock, Mishap, MTypeOK
  <2> QED
    BY <1>0, <1>13, <2>1
    DEF LosesLock, ConnectionBreaks, MTypeOK, PhaseInv, Works, ReceiptMeansSent, MailOnlyWhenDue
<1>14. ASSUME NEW i \in Instance, Idle(i) PROVE PlainInv'
  <2>1. \A j \in Instance : Works(j)' <=> Works(j)
    BY <1>0, <1>14 DEF Idle, Start, StandBy, AskFails, TypeOK, Works
  <2> QED
    BY <1>0, <1>14, <2>1 DEF Idle, MTypeOK, PhaseInv, ReceiptMeansSent, MailOnlyWhenDue
<1>15. CASE Reaped
  BY <1>0, <1>15 DEF Reaped, Reap, MTypeOK, PhaseInv, Works, ReceiptMeansSent, MailOnlyWhenDue
<1>16. CASE Noon
  BY <1>0, <1>16 DEF Noon, vars, MTypeOK, PhaseInv, Works, ReceiptMeansSent, MailOnlyWhenDue
<1>17. CASE Midnight
  <2>0. today' \in Day /\ today' = today + 1
    BY <1>17 DEF Midnight, MTypeOK, Day
  <2>4. noon' \in BOOLEAN
    BY <1>17, Zenon DEF Midnight
  <2>1. MTypeOK'
    BY <1>0, <1>17, <2>0, <2>4 DEF Midnight, MTypeOK
  <2>5. \A d \in Day : d < today \/ d = today => d < today'
    BY <2>0 DEF Day, MTypeOK
  <2>6. UNCHANGED <<pc, phase, mailDay, sent>>
    BY <1>17 DEF Midnight, vars, mailVars
  <2>2. PhaseInv'
    BY <2>5, <2>6 DEF MTypeOK, PhaseInv, Works
  <2>3. ReceiptMeansSent' /\ MailOnlyWhenDue'
    BY <1>17 DEF Midnight, MTypeOK, ReceiptMeansSent, MailOnlyWhenDue, Day
  <2> QED
    BY <2>1, <2>2, <2>3
<1>18. CASE UNCHANGED allVars
  BY <1>0, <1>18 DEF allVars, vars, MTypeOK, PhaseInv, Works, ReceiptMeansSent, MailOnlyWhenDue
<1> QED
  BY <1>1, <1>2, <1>3, <1>4, <1>5, <1>6, <1>7, <1>8, <1>9, <1>10, <1>11, <1>12, <1>13,
     <1>14, <1>15, <1>16, <1>17, <1>18 DEF MNext, MailStep

-----------------------------------------------------------------------------
(* The budget. *)

LEMMA ThreatsCount ==
  ASSUME NEW S \in SUBSET Instance, NEW T \in SUBSET Instance, NEW i
  PROVE  /\ Cardinality(S) \in Nat /\ Cardinality(T) \in Nat
         /\ T \subseteq S => Cardinality(T) <= Cardinality(S)
         /\ (i \in S /\ T \subseteq S \ {i}) => Cardinality(T) + 1 <= Cardinality(S)
         /\ T \subseteq S \cup {i} => Cardinality(T) <= Cardinality(S) + 1
<1>1. IsFiniteSet(S) /\ IsFiniteSet(S \ {i}) /\ IsFiniteSet(S \cup {i}) /\ IsFiniteSet(T)
  BY SummaryMailAssumption, FS_Subset, FS_AddElement
<1>2. Cardinality(S) \in Nat /\ Cardinality(T) \in Nat
  BY <1>1, FS_CardinalityType
<1>3. T \subseteq S => Cardinality(T) <= Cardinality(S)
  BY <1>1, FS_Subset
<1>4. (i \in S /\ T \subseteq S \ {i}) => Cardinality(T) + 1 <= Cardinality(S)
  <2>1. i \in S => Cardinality(S \ {i}) = Cardinality(S) - 1
    BY <1>1, FS_RemoveElement
  <2>2. T \subseteq S \ {i} => Cardinality(T) <= Cardinality(S \ {i})
    BY <1>1, FS_Subset
  <2> QED
    BY <1>2, <2>1, <2>2
<1>5. T \subseteq S \cup {i} => Cardinality(T) <= Cardinality(S) + 1
  <2>1. Cardinality(S \cup {i}) <= Cardinality(S) + 1
    BY <1>1, <1>2, FS_AddElement
  <2>2. T \subseteq S \cup {i} => Cardinality(T) <= Cardinality(S \cup {i})
    BY <1>1, FS_Subset
  <2>3. Cardinality(S \cup {i}) \in Nat
    BY <1>1, FS_CardinalityType
  <2> QED
    BY <1>2, <2>1, <2>2, <2>3
<1> QED
  BY <1>2, <1>3, <1>4, <1>5

\* A step that costs day d nothing: nobody new threatens it, and the one on
\* the house is lost only along with a threat.
Calm(d, i) ==
  /\ sent'[d] = sent[d] /\ mishaps'[d] = mishaps[d]
  /\ Threat(d)' \subseteq Threat(d)
  /\ OnTheHouse(d) => OnTheHouse(d)' \/ i \in Threat(d) \ Threat(d)'

\* A step that pays with a mishap for what it adds or loses.
Paid(d, i) ==
  /\ mishaps'[d] = mishaps[d] + 1
  /\ \/ sent'[d] = sent[d] /\ Threat(d)' \subseteq Threat(d)
     \/ /\ sent'[d] = sent[d] /\ Threat(d)' \subseteq Threat(d) \cup {i}
        /\ OnTheHouse(d) => OnTheHouse(d)'
     \/ /\ sent'[d] = sent[d] + 1
        /\ i \in Threat(d) /\ Threat(d)' \subseteq Threat(d) \ {i}

\* The leader's own mail.
Free(d, i) ==
  /\ mishaps'[d] = mishaps[d]
  /\ \/ /\ sent'[d] = sent[d] /\ Threat(d)' \subseteq Threat(d) \cup {i}
        /\ ~OnTheHouse(d) /\ OnTheHouse(d)'
     \/ /\ sent'[d] = sent[d] + 1
        /\ i \in Threat(d) /\ Threat(d)' \subseteq Threat(d) \ {i}
        /\ OnTheHouse(d) => OnTheHouse(d)'

LEMMA KeptStep ==
  ASSUME MTypeOK, NEW d \in Day, NEW i, Kept(d),
         Calm(d, i) \/ Paid(d, i) \/ Free(d, i)
  PROVE  Kept(d)'
<1>1. Threat(d) \in SUBSET Instance /\ Threat(d)' \in SUBSET Instance
  BY DEF Threat
<1>2. sent[d] \in Nat /\ mishaps[d] \in Nat
  BY SummaryMailAssumption DEF MTypeOK
<1> DEFINE S == Threat(d)
           T == Threat(d)'
           house == OnTheHouse(d)
           house1 == OnTheHouse(d)'
           s == sent[d]
           m == mishaps[d]
<1>3. s + Cardinality(S) <= m + (IF house THEN 1 ELSE 0)
  BY DEF Kept, Allowed
<1> SUFFICES sent'[d] + Cardinality(T) <= mishaps'[d] + (IF house1 THEN 1 ELSE 0)
  BY DEF Kept, Allowed
<1>4. /\ Cardinality(S) \in Nat /\ Cardinality(T) \in Nat
      /\ T \subseteq S => Cardinality(T) <= Cardinality(S)
      /\ (i \in S /\ T \subseteq S \ {i}) => Cardinality(T) + 1 <= Cardinality(S)
      /\ T \subseteq S \cup {i} => Cardinality(T) <= Cardinality(S) + 1
  BY <1>1, ThreatsCount
<1> HIDE DEF S, T, house, house1, s, m
<1>5. CASE Calm(d, i)
  <2>1. /\ sent'[d] = s /\ mishaps'[d] = m /\ T \subseteq S
        /\ house => house1 \/ i \in S \ T
    BY <1>5 DEF Calm, S, T, house, house1, s, m
  <2>2. i \in S \ T => T \subseteq S \ {i}
    BY <2>1
  <2> QED
    BY <1>2, <1>3, <1>4, <2>1, <2>2 DEF s, m
<1>6. CASE Paid(d, i)
  <2>1. /\ mishaps'[d] = m + 1
        /\ \/ sent'[d] = s /\ T \subseteq S
           \/ /\ sent'[d] = s /\ T \subseteq S \cup {i}
              /\ house => house1
           \/ sent'[d] = s + 1 /\ i \in S /\ T \subseteq S \ {i}
    BY <1>6 DEF Paid, S, T, house, house1, s, m
  <2> QED
    BY <1>2, <1>3, <1>4, <2>1 DEF s, m
<1>7. CASE Free(d, i)
  <2>1. /\ mishaps'[d] = m
        /\ \/ sent'[d] = s /\ T \subseteq S \cup {i} /\ ~house /\ house1
           \/ sent'[d] = s + 1 /\ i \in S /\ T \subseteq S \ {i} /\ (house => house1)
    BY <1>7 DEF Free, S, T, house, house1, s, m
  <2> QED
    BY <1>2, <1>3, <1>4, <2>1 DEF s, m
<1> QED
  BY <1>5, <1>6, <1>7

\* What a step of one instance leaves of the others.
LEMMA OthersStay ==
  ASSUME NEW d \in Day, NEW i \in Instance, today' = today, receipts \subseteq receipts',
         \A j \in Instance \ {i} :
           phase'[j] = phase[j] /\ mailDay'[j] = mailDay[j] /\ conn'[j] = conn[j]
  PROVE  /\ Threat(d)' \subseteq Threat(d) \cup {i}
         /\ OnTheHouse(d) => \/ OnTheHouse(d)'
                             \/ Leads(i) /\ (i \in Threat(d) \/ Recording(d, i))
<1>1. Threat(d)' \subseteq Threat(d) \cup {i}
  BY DEF Threat, Asked
<1>2. ASSUME Leading(d), d \notin receipts', ~(Leads(i) /\ (i \in Threat(d) \/ Recording(d, i)))
      PROVE  Leading(d)'
  <2>1. PICK j \in Instance : Leads(j) /\ (j \in Threat(d) \/ Recording(d, j))
    BY <1>2 DEF Leading
  <2>2. j # i
    BY <1>2, <2>1
  <2>3. Leads(j)' /\ (Recording(d, j) => Recording(d, j)')
    BY <2>1, <2>2 DEF Leads, Recording
  <2>4. j \in Threat(d) => j \in Threat(d)'
    BY <1>2, <2>2 DEF Threat, Asked
  <2> QED
    BY <2>1, <2>3, <2>4 DEF Leading
<1> QED
  BY <1>1, <1>2 DEF OnTheHouse

\* An instance whose cycle ends is no threat any more.
LEMMA EndIsNoThreat ==
  ASSUME MTypeOK, NEW d \in Day, NEW i \in Instance, UNCHANGED clockVars, receipts \subseteq receipts',
         phase' = [phase EXCEPT ![i] = "rest"], mailDay' = [mailDay EXCEPT ![i] = NoDay],
         \A j \in Instance \ {i} : conn'[j] = conn[j]
  PROVE  /\ Threat(d)' \subseteq Threat(d) \ {i}
         /\ OnTheHouse(d) => OnTheHouse(d)' \/ i \in Threat(d) \/ Recording(d, i)
<1>1. phase'[i] = "rest"
      /\ \A j \in Instance \ {i} : phase'[j] = phase[j] /\ mailDay'[j] = mailDay[j]
  BY DEF MTypeOK
<1>2. i \notin Threat(d)'
  BY <1>1 DEF Threat, Asked
<1> QED
  BY <1>1, <1>2, OthersStay DEF clockVars

LEMMA SlotIsCalm ==
  ASSUME MTypeOK, PhaseInv, NEW i \in Instance, NEW days, NEW d \in Day, phase[i] = "checks",
         SlotFound(i, Slot(days)), UNCHANGED <<clockVars, mailVars, mishaps>>
  PROVE  Calm(d, i)
<1> USE DEF clockVars, mailVars
<1>1. ~Recording(d, i)
  BY DEF Recording
<1>2. CASE Slot(days) # NoDay
  <2>1. /\ phase' = [phase EXCEPT ![i] = "guard"]
        /\ mailDay' = [mailDay EXCEPT ![i] = today]
        /\ UNCHANGED <<pc, conn>>
    BY <1>2 DEF SlotFound, Slot, Finish, Goto, vars
  <2>2. /\ phase'[i] = "guard" /\ mailDay'[i] = today
        /\ \A j \in Instance \ {i} :
             phase'[j] = phase[j] /\ mailDay'[j] = mailDay[j] /\ conn'[j] = conn[j]
    BY <2>1 DEF MTypeOK
  <2>3. i \in Threat(d)' => i \in Threat(d)
    BY <2>2 DEF Threat, Asked, Day, MTypeOK
  <2>4. /\ Threat(d)' \subseteq Threat(d) \cup {i}
        /\ OnTheHouse(d) => OnTheHouse(d)' \/ (Leads(i) /\ i \in Threat(d))
    BY <1>1, <2>2, OthersStay
  <2>5. (Leads(i) /\ i \in Threat(d)') => OnTheHouse(d)'
    BY <2>1 DEF OnTheHouse, Leading, Leads
  <2> QED
    BY <2>3, <2>4, <2>5 DEF Calm
<1>3. CASE Slot(days) = NoDay
  BY <1>1, <1>3, EndIsNoThreat DEF SlotFound, Finish, Goto, CycleDone, Calm
<1> QED
  BY <1>2, <1>3

\* A cycle is begun by the leader, and nobody else leads then.
LEMMA BeginIsFree ==
  ASSUME LockInv, MTypeOK, PhaseInv, NEW i \in Instance, NEW d \in Day, Begin(i)
  PROVE  Calm(d, i) \/ Free(d, i)
<1> USE DEF clockVars, mailVars
<1>1. /\ phase[i] = "rest" /\ mailDay[i] = NoDay
      /\ conn'[i] = "up" /\ phase'[i] = "checks" /\ mailDay' = mailDay
      /\ \A j \in Instance \ {i} : conn'[j] = conn[j] /\ phase'[j] = phase[j]
  BY DEF Begin, Keep, Win, Goto, LockInv, TypeOK, MTypeOK, PhaseInv, Works
<1>2. \A j \in Instance \ {i} : ~Leads(j)
  BY LeaderLockAssumption DEF Begin, Keep, Win, LockInv, LeaderHoldsLock, Leads
<1>3. UNCHANGED <<today, receipts, sent, mishaps>>
  BY DEF Begin
<1>4. i \notin Threat(d) /\ ~Recording(d, i)
  BY <1>1 DEF Threat, Asked, Recording, NoDay, Day
<1>5. ~Leading(d)
  BY <1>2, <1>4 DEF Leading
<1>6. Threat(d)' \subseteq Threat(d) \cup {i}
  BY <1>1, <1>3, OthersStay
<1>7. CASE d < today \/ d \in receipts
  <2>1. i \notin Threat(d)'
    BY <1>1, <1>3, <1>7 DEF Threat, Asked, NoDay, Day, MTypeOK
  <2> QED
    BY <1>3, <1>6, <1>7, <2>1 DEF Calm, OnTheHouse
<1>8. CASE ~(d < today \/ d \in receipts)
  <2>1. i \in Threat(d)'
    BY <1>1, <1>3, <1>8 DEF Threat, Asked, Day, MTypeOK
  <2>2. OnTheHouse(d)' /\ ~OnTheHouse(d)
    BY <1>1, <1>5, <1>8, <2>1 DEF OnTheHouse, Leading, Leads
  <2> QED
    BY <1>3, <1>6, <2>2 DEF Free
<1> QED
  BY <1>7, <1>8

\* What a step of a cycle may do to a day.
Charged(d, i) == Calm(d, i) \/ Paid(d, i) \/ Free(d, i)

LEMMA MailStepCharged ==
  ASSUME LockInv, PlainInv, NEW i \in Instance, NEW d \in Day, MailStep(i)
  PROVE  Charged(d, i)
<1> USE DEF PlainInv, clockVars, mailVars, memoryVars
<1>0. sent \in [Day -> Nat] /\ mishaps \in [Day -> 0..MaxMishaps] /\ mishaps[d] \in Nat
  BY SummaryMailAssumption DEF MTypeOK
<1>1. CASE Begin(i)
  BY <1>1, BeginIsFree DEF Charged
<1>2. CASE WeekdaysRead(i)
  BY <1>2, SlotIsCalm DEF WeekdaysRead, Charged
<1>3. CASE WeekdaysFallBack(i)
  BY <1>3, SlotIsCalm DEF WeekdaysFallBack, Charged
<1>4. CASE StandDown(i) \/ NoNews(i)
  <2>1. /\ phase[i] \in {"guard", "compose"} /\ Finish(i)
        /\ UNCHANGED <<clockVars, mailVars, mishaps>>
    BY <1>4 DEF StandDown, NoNews
  <2>2. ~Recording(d, i)
    BY <2>1 DEF Recording
  <2> QED
    BY <2>1, <2>2, EndIsNoThreat DEF Finish, Goto, CycleDone, Charged, Calm
<1>5. CASE Compose(i)
  <2>1. /\ phase[i] = "guard" /\ phase'[i] = "compose"
        /\ \A j \in Instance \ {i} : phase'[j] = phase[j]
        /\ UNCHANGED <<conn, mailDay, clockVars, mailVars>>
    BY <1>5 DEF Compose, Goto, MTypeOK, vars
  <2>2. /\ Threat(d)' \subseteq Threat(d) \cup {i}
        /\ OnTheHouse(d) => OnTheHouse(d)' \/ (Leads(i) /\ i \in Threat(d))
    BY <2>1, OthersStay DEF Recording
  <2>3. i \in Threat(d) => i \in Threat(d)'
    BY <2>1 DEF Threat, Asked
  <2>4. OnTheHouse(d) => OnTheHouse(d)'
    BY <2>1, <2>2, <2>3 DEF OnTheHouse, Leading, Leads
  <2>5. CASE mailDay[i] = d /\ d \in receipts
    BY <1>0, <1>5, <2>1, <2>2, <2>4, <2>5 DEF Compose, Mishap, Charged, Paid
  <2>6. CASE ~(mailDay[i] = d /\ d \in receipts)
    <3>1. i \in Threat(d)' => i \in Threat(d)
      BY <2>1, <2>6 DEF Threat, Asked
    <3>2. mishaps'[d] = mishaps[d]
      BY <1>0, <1>5, <2>6 DEF Compose, Mishap
    <3> QED
      BY <2>1, <2>2, <2>4, <3>1, <3>2 DEF Charged, Calm
  <2> QED
    BY <2>5, <2>6
<1>6. CASE HasNews(i)
  <2>1. /\ phase[i] = "compose" /\ phase'[i] = "send"
        /\ \A j \in Instance \ {i} : phase'[j] = phase[j]
        /\ UNCHANGED <<conn, mailDay, clockVars, mailVars, mishaps>>
    BY <1>6 DEF HasNews, Goto, MTypeOK, vars
  <2>2. /\ Threat(d)' \subseteq Threat(d) \cup {i}
        /\ OnTheHouse(d) => OnTheHouse(d)' \/ (Leads(i) /\ i \in Threat(d))
    BY <2>1, OthersStay DEF Recording
  <2>3. i \in Threat(d) <=> i \in Threat(d)'
    BY <2>1 DEF Threat, Asked
  <2>4. OnTheHouse(d) => OnTheHouse(d)'
    BY <2>1, <2>2, <2>3 DEF OnTheHouse, Leading, Leads
  <2> QED
    BY <2>1, <2>2, <2>3, <2>4 DEF Charged, Calm
<1>7. CASE SendOk(i)
  <2>1. /\ phase[i] = "send" /\ phase'[i] = "record"
        /\ \A j \in Instance \ {i} : phase'[j] = phase[j]
        /\ UNCHANGED <<conn, mailDay, clockVars, receipts, mishaps>>
    BY <1>7 DEF SendOk, Goto, MTypeOK, vars
  <2>2. /\ Threat(d)' \subseteq Threat(d) \cup {i}
        /\ OnTheHouse(d) => OnTheHouse(d)' \/ (Leads(i) /\ i \in Threat(d))
    BY <2>1, OthersStay DEF Recording
  <2>3. i \notin Threat(d)' /\ (i \in Threat(d) => mailDay[i] = d)
    BY <2>1 DEF Threat, Asked
  <2>4. OnTheHouse(d) => OnTheHouse(d)'
    BY <2>1, <2>2, <2>3 DEF OnTheHouse, Leading, Leads, Recording
  <2>5. CASE mailDay[i] = d
    <3>1. i \in Threat(d) /\ sent'[d] = sent[d] + 1
      BY <1>0, <1>7, <2>1, <2>5 DEF Threat, SendOk, Deliver
    <3> QED
      BY <2>1, <2>2, <2>3, <2>4, <3>1 DEF Charged, Free
  <2>6. CASE mailDay[i] # d
    <3>1. sent'[d] = sent[d]
      BY <1>0, <1>7, <2>6 DEF SendOk, Deliver
    <3> QED
      BY <2>1, <2>2, <2>3, <2>4, <3>1 DEF Charged, Calm
  <2> QED
    BY <2>5, <2>6
<1>8. CASE SendFails(i)
  <2>1. /\ Threat(d)' \subseteq Threat(d) \ {i}
        /\ OnTheHouse(d) => OnTheHouse(d)' \/ i \in Threat(d)
        /\ mailDay[i] = d => i \in Threat(d)
    BY <1>8, EndIsNoThreat DEF SendFails, Finish, Goto, CycleDone, Recording, Threat
  <2>2. CASE mailDay[i] = d /\ sent'[d] = sent[d] + 1 /\ mishaps'[d] = mishaps[d] + 1
    BY <2>1, <2>2 DEF Charged, Paid
  <2>3. CASE sent'[d] = sent[d] /\ mishaps'[d] = mishaps[d]
    BY <2>1, <2>3 DEF Charged, Calm
  <2> QED
    BY <1>0, <1>8, <2>2, <2>3 DEF SendFails, Deliver, Mishap
<1>9. CASE Record(i)
  <2>1. /\ Threat(d)' \subseteq Threat(d) \ {i}
        /\ OnTheHouse(d) => OnTheHouse(d)' \/ i \in Threat(d) \/ Recording(d, i)
    BY <1>9, EndIsNoThreat DEF Record, Finish, Goto, CycleDone
  <2>2. Recording(d, i) => OnTheHouse(d)'
    BY <1>9 DEF Record, Recording, OnTheHouse
  <2> QED
    BY <1>9, <2>1, <2>2 DEF Record, Charged, Calm
<1>10. CASE RecordFails(i)
  <2>1. /\ Threat(d)' \subseteq Threat(d) \ {i}
        /\ OnTheHouse(d) => OnTheHouse(d)' \/ i \in Threat(d) \/ Recording(d, i)
    BY <1>10, EndIsNoThreat DEF RecordFails, Finish, Goto, CycleDone
  <2>2. CASE mailDay[i] = d
    BY <1>0, <1>10, <2>1, <2>2 DEF RecordFails, Mishap, Charged, Paid
  <2>3. CASE mailDay[i] # d
    BY <1>0, <1>10, <2>1, <2>3 DEF RecordFails, Mishap, Charged, Calm, Recording
  <2> QED
    BY <2>2, <2>3
<1> QED
  BY <1>1, <1>2, <1>3, <1>4, <1>5, <1>6, <1>7, <1>8, <1>9, <1>10 DEF MailStep

LEMMA DiesCharged ==
  ASSUME LockInv, PlainInv, NEW i \in Instance, NEW d \in Day, Dies(i)
  PROVE  Charged(d, i)
<1> USE DEF PlainInv
<1>0. sent \in [Day -> Nat] /\ mishaps \in [Day -> 0..MaxMishaps] /\ mishaps[d] \in Nat
  BY SummaryMailAssumption DEF MTypeOK
<1>1. conn' = [conn EXCEPT ![i] = "none"]
  BY DEF Dies, Crash, Stop
<1>2. \A j \in Instance \ {i} : conn'[j] = conn[j]
  BY <1>1 DEF MTypeOK, TypeOK
<1>3. /\ Threat(d)' \subseteq Threat(d) \ {i}
      /\ OnTheHouse(d) => OnTheHouse(d)' \/ i \in Threat(d) \/ Recording(d, i)
  BY <1>2, EndIsNoThreat DEF Dies, Goto
<1>4. CASE phase[i] # "record" /\ UNCHANGED <<sent, mishaps>>
  BY <1>3, <1>4 DEF Charged, Calm, Recording
<1>5. CASE phase[i] = "send" /\ Deliver(i) /\ Mishap({mailDay[i]})
  <2>1. CASE mailDay[i] = d
    <3>1. i \in Threat(d) /\ sent'[d] = sent[d] + 1 /\ mishaps'[d] = mishaps[d] + 1
      BY <1>0, <1>5, <2>1 DEF Threat, Deliver, Mishap
    <3> QED
      BY <1>3, <3>1 DEF Charged, Paid
  <2>2. CASE mailDay[i] # d
    BY <1>0, <1>3, <1>5, <2>2 DEF Deliver, Mishap, Charged, Calm, Recording
  <2> QED
    BY <2>1, <2>2
<1>6. CASE phase[i] = "record" /\ Mishap({mailDay[i]}) /\ UNCHANGED sent
  <2>1. CASE mailDay[i] = d
    BY <1>0, <1>3, <1>6, <2>1 DEF Mishap, Charged, Paid
  <2>2. CASE mailDay[i] # d
    BY <1>0, <1>3, <1>6, <2>2 DEF Mishap, Charged, Calm, Recording
  <2> QED
    BY <2>1, <2>2
<1> QED
  BY <1>4, <1>5, <1>6 DEF Dies

\* The lock is lost between two cycles, or in one that may send beside the
\* successor's.
LEMMA LosesLockCharged ==
  ASSUME LockInv, PlainInv, NEW i \in Instance, NEW d \in Day, LosesLock(i)
  PROVE  Charged(d, i)
<1> USE DEF PlainInv, clockVars, mailVars
<1>0. mishaps \in [Day -> 0..MaxMishaps] /\ mishaps[d] \in Nat
  BY SummaryMailAssumption DEF MTypeOK
<1>1. UNCHANGED <<today, receipts, phase, mailDay, sent>>
  BY DEF LosesLock
<1>2. \A j \in Instance \ {i} : conn'[j] = conn[j]
  BY DEF LosesLock, ConnectionBreaks, MTypeOK, TypeOK
<1>3. Threat(d)' = Threat(d)
  BY <1>1 DEF Threat, Asked
<1>4. OnTheHouse(d) => \/ OnTheHouse(d)'
                       \/ i \in Threat(d) \/ Recording(d, i)
  BY <1>1, <1>2, OthersStay
<1>5. CASE Works(i) /\ d >= today
  <2>1. mishaps'[d] = mishaps[d] + 1
    BY <1>0, <1>5 DEF LosesLock, Mishap
  <2> QED
    BY <1>1, <1>3, <2>1 DEF Charged, Paid
<1>6. CASE Works(i) /\ ~(d >= today)
  <2>1. mishaps'[d] = mishaps[d]
    BY <1>0, <1>6 DEF LosesLock, Mishap
  <2>2. OnTheHouse(d)'
    BY <1>1, <1>6 DEF OnTheHouse, Day, MTypeOK
  <2> QED
    BY <1>1, <1>3, <2>1, <2>2 DEF Charged, Calm
<1>7. CASE ~Works(i)
  <2>1. phase[i] = "rest"
    BY <1>7 DEF PhaseInv
  <2>2. i \notin Threat(d) /\ ~Recording(d, i)
    BY <2>1 DEF Threat, Asked, Recording
  <2> QED
    BY <1>1, <1>3, <1>4, <1>7, <2>2 DEF LosesLock, Charged, Calm
<1> QED
  BY <1>5, <1>6, <1>7

LEMMA IdleCharged ==
  ASSUME LockInv, PlainInv, NEW i \in Instance, NEW d \in Day, Idle(i)
  PROVE  Charged(d, i)
<1> USE DEF PlainInv, clockVars, mailVars
<1>1. UNCHANGED <<today, receipts, phase, mailDay, sent, mishaps>>
  BY DEF Idle
<1>2. /\ ~Works(i)
      /\ \A j \in Instance \ {i} : conn'[j] = conn[j]
  BY DEF Idle, Start, StandBy, AskFails, Works, MTypeOK, TypeOK
<1>3. i \notin Threat(d) /\ ~Recording(d, i)
  BY <1>2 DEF PhaseInv, Threat, Asked, Recording
<1>4. Threat(d)' = Threat(d)
  BY <1>1 DEF Threat, Asked
<1>5. OnTheHouse(d) => OnTheHouse(d)'
  BY <1>1, <1>2, <1>3, OthersStay
<1> QED
  BY <1>1, <1>4, <1>5 DEF Charged, Calm

\* What no instance does: the database, the clock.
LEMMA WorldCalm ==
  ASSUME PlainInv, NEW i, NEW d \in Day,
         Reaped \/ Noon \/ Midnight \/ UNCHANGED allVars
  PROVE  Calm(d, i)
<1>1. UNCHANGED <<conn, phase, mailDay, sent, receipts, mishaps>>
  BY DEF Reaped, Reap, Noon, Midnight, allVars, vars, mailVars
<1>2. today' = today \/ today' = today + 1
  BY DEF Reaped, Noon, Midnight, allVars, clockVars
<1>3. today \in Int /\ d \in Int
  BY DEF PlainInv, MTypeOK, Day
<1>4. Threat(d)' \subseteq Threat(d)
  BY <1>1, <1>2, <1>3 DEF Threat, Asked
<1>5. OnTheHouse(d) => OnTheHouse(d)'
  <2>1. CASE d < today \/ d \in receipts
    BY <1>1, <1>2, <1>3, <2>1 DEF OnTheHouse
  <2>2. CASE Leading(d) /\ ~(d < today')
    <3>1. PICK j \in Instance : Leads(j) /\ (j \in Threat(d) \/ Recording(d, j))
      BY <2>2 DEF Leading
    <3>2. j \in Threat(d) => j \in Threat(d)'
      BY <1>1, <1>2, <1>3, <2>2 DEF Threat, Asked
    <3> QED
      BY <1>1, <3>1, <3>2 DEF OnTheHouse, Leading, Leads, Recording
  <2> QED
    BY <2>1, <2>2 DEF OnTheHouse
<1> QED
  BY <1>1, <1>4, <1>5 DEF Calm

LEMMA BudgetInit == ASSUME MInit PROVE Budget
<1> SUFFICES ASSUME NEW d \in Day PROVE Kept(d)
  BY DEF Budget
<1>1. Threat(d) = {}
  BY DEF MInit, Threat, Asked
<1>2. Cardinality(Threat(d)) = 0
  BY <1>1, FS_EmptySet
<1>3. sent[d] = 0 /\ mishaps[d] = 0
  BY DEF MInit
<1> QED
  BY <1>2, <1>3 DEF Kept, Allowed

LEMMA BudgetStep ==
  ASSUME LockInv, PlainInv, Budget, [MNext]_allVars
  PROVE  Budget'
<1> SUFFICES ASSUME NEW d \in Day PROVE Kept(d)'
  BY DEF Budget
<1>1. MTypeOK /\ Kept(d)
  BY DEF PlainInv, Budget
<1>2. ASSUME NEW i \in Instance, MailStep(i) \/ Dies(i) \/ LosesLock(i) \/ Idle(i)
      PROVE  Kept(d)'
  <2>1. Charged(d, i)
    BY <1>2, MailStepCharged, DiesCharged, LosesLockCharged, IdleCharged
  <2> QED
    BY <1>1, <2>1, KeptStep DEF Charged
<1>3. CASE Reaped \/ Noon \/ Midnight \/ UNCHANGED allVars
  <2>1. Calm(d, Nobody)
    BY <1>3, WorldCalm
  <2> QED
    BY <1>1, <2>1, KeptStep
<1> QED
  BY <1>2, <1>3 DEF MNext

-----------------------------------------------------------------------------
(* The theorems. *)

THEOREM MailInvariant == MSpec => []MailInv
<1>1. MInit => MailInv
  BY LockInvInit, PlainInit, BudgetInit DEF MailInv, MInit
<1>2. MailInv /\ [MNext]_allVars => MailInv'
  BY MailStepsAreLockSteps, LockInvStep, PlainStep, BudgetStep DEF MailInv
<1> QED
  BY <1>1, <1>2, PTL DEF MSpec

\* A day's mail goes out once, and once more at most for every mishap.
THEOREM OneMailEachDay == MSpec => []OneMailPerMishap
<1>1. MailInv => OneMailPerMishap
  <2> SUFFICES ASSUME MailInv, NEW d \in Day PROVE sent[d] <= 1 + mishaps[d]
    BY DEF OneMailPerMishap
  <2>1. sent[d] + Cardinality(Threat(d)) <= mishaps[d] + (IF OnTheHouse(d) THEN 1 ELSE 0)
    BY DEF MailInv, Budget, Kept, Allowed
  <2>2. Threat(d) \in SUBSET Instance
    BY DEF Threat
  <2>3. Cardinality(Threat(d)) \in Nat
    BY <2>2, SummaryMailAssumption, FS_Subset, FS_CardinalityType
  <2>4. sent[d] \in Nat /\ mishaps[d] \in Nat
    BY SummaryMailAssumption DEF MailInv, PlainInv, MTypeOK
  <2> QED
    BY <2>1, <2>3, <2>4
<1> QED
  BY <1>1, MailInvariant, PTL

\* A receipt, and a memory of the day, is left by a mail that went out.
THEOREM ReceiptsAreTrue == MSpec => []ReceiptMeansSent
  BY MailInvariant, PTL DEF MailInv, PlainInv

\* No mail before its noon, or of a day that has none.
THEOREM MailIsDue == MSpec => []MailOnlyWhenDue
  BY MailInvariant, PTL DEF MailInv, PlainInv
=============================================================================
