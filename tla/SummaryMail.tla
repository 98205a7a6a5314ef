---------------------------- MODULE SummaryMail -----------------------------
(***************************************************************************)
(* THE buy-list mail of a check day, over the leader lock: the second job  *)
(* of a cycle, _check_summary_due of domain/scheduler.py with its helpers  *)
(* _summary_weekdays_today, _summary_already_sent, _record_summary_sent.   *)
(*                                                                         *)
(* The mail is guarded twice: by _last_summary_date, which a restart       *)
(* forgets, and by the summary_sends row, which is written only after the  *)
(* mail is out and may fail to be.  Each phase below ends at an await, so  *)
(* a crash, a stop, midnight, a broken lock connection and the other       *)
(* instances may come in between any two of them.                          *)
(*                                                                         *)
(* mishaps counts, per day, what may cost a second copy of its mail; it    *)
(* is history and guards nothing but its own bound MaxMishaps.             *)
(***************************************************************************)
EXTENDS LeaderLock, Integers, FiniteSets

CONSTANTS LastDay,       \* bound on the calendar: the days 1..LastDay
          CheckDays,     \* the days on whose weekday some link is checked
          FallbackDays,  \* the Mondays: SUMMARY_FALLBACK_WEEKDAYS
          Recipient,     \* is SUMMARY_EMAIL configured?
          MaxMishaps

Day == 1..LastDay
NoDay == 0

ASSUME SummaryMailAssumption ==
  /\ IsFiniteSet(Instance)
  /\ LastDay \in Nat \ {0}
  /\ CheckDays \subseteq Day /\ FallbackDays \subseteq Day
  /\ Recipient \in BOOLEAN
  /\ MaxMishaps \in Nat

VARIABLES today, noon,   \* the local date, and whether MORNING_END_HOUR has passed
          phase,         \* where an instance is in its cycle
          mailDay,       \* slot: the day whose mail it is working on
          stamp,         \* _last_summary_date
          known,         \* the day _summary_weekdays was read for
          receipts,      \* summary_sends: the days that have a row
          sent,          \* mails delivered for a day
          mishaps

clockVars == <<today, noon>>
memoryVars == <<stamp, known>>
mailVars == <<receipts, sent>>
allVars == <<vars, clockVars, phase, mailDay, memoryVars, mailVars, mishaps>>

MInit ==
  /\ Init
  /\ today = 1 /\ noon = FALSE
  /\ phase = [i \in Instance |-> "rest"]
  /\ mailDay = [i \in Instance |-> NoDay]
  /\ stamp = [i \in Instance |-> NoDay]
  /\ known = [i \in Instance |-> NoDay]
  /\ receipts = {}
  /\ sent = [d \in Day |-> 0]
  /\ mishaps = [d \in Day |-> 0]

Mishap(D) ==
  /\ \A d \in D : mishaps[d] < MaxMishaps
  /\ mishaps' = [d \in Day |-> IF d \in D THEN mishaps[d] + 1 ELSE mishaps[d]]

-----------------------------------------------------------------------------
(* One instance's cycle. *)

Goto(i, p) == phase' = [phase EXCEPT ![i] = p]

\* The job returns or raises, and the cycle is over.
Finish(i) ==
  /\ CycleDone(i)
  /\ Goto(i, "rest")
  /\ mailDay' = [mailDay EXCEPT ![i] = NoDay]

Begin(i) ==
  /\ Keep(i) \/ Win(i)
  /\ Goto(i, "checks")
  /\ UNCHANGED <<clockVars, mailDay, memoryVars, mailVars, mishaps>>

\* Mutant of Slot: due from midnight on.
SlotAllDay(days) == IF today \in days THEN today ELSE NoDay

\* summary_slot: today, from noon on one of the given days.
Slot(days) == IF noon /\ today \in days THEN today ELSE NoDay

SlotFound(i, d) ==
  \/ /\ d # NoDay
     /\ Goto(i, "guard")
     /\ mailDay' = [mailDay EXCEPT ![i] = d]
     /\ UNCHANGED vars
  \/ d = NoDay /\ Finish(i)

\* The checks are done; the weekdays are known for today, or are read now.
WeekdaysRead(i) ==
  /\ phase[i] = "checks"
  /\ known' = [known EXCEPT ![i] = today]
  /\ SlotFound(i, Slot(CheckDays))
  /\ UNCHANGED <<clockVars, stamp, mailVars, mishaps>>

\* They cannot be read: the fallback, which is not remembered.
WeekdaysFallBack(i) ==
  /\ phase[i] = "checks"
  /\ known[i] # today
  /\ SlotFound(i, Slot(FallbackDays))
  /\ UNCHANGED <<clockVars, memoryVars, mailVars, mishaps>>

\* The day's mail is known to be out, or there is nobody to send it to: stamp
\* the day, so that the rest of it costs no query.
StandDown(i) ==
  /\ phase[i] = "guard"
  /\ \/ stamp[i] = mailDay[i]
     \/ mailDay[i] \in receipts
     \/ ~Recipient
  /\ stamp' = [stamp EXCEPT ![i] = mailDay[i]]
  /\ Finish(i)
  /\ UNCHANGED <<clockVars, known, mailVars, mishaps>>

\* Mutant of Compose: memory is the only guard.
ComposeFromMemory(i) ==
  /\ phase[i] = "guard"
  /\ stamp[i] # mailDay[i]
  /\ Recipient
  /\ Goto(i, "compose")
  /\ UNCHANGED <<vars, clockVars, mailDay, memoryVars, mailVars, mishaps>>

\* No row, or one that could not be read: "sending rather than going quiet".
Compose(i) ==
  /\ phase[i] = "guard"
  /\ stamp[i] # mailDay[i]
  /\ Recipient
  /\ \/ mailDay[i] \notin receipts /\ UNCHANGED mishaps
     \/ mailDay[i] \in receipts /\ Mishap({mailDay[i]})
  /\ Goto(i, "compose")
  /\ UNCHANGED <<vars, clockVars, mailDay, memoryVars, mailVars>>

HasNews(i) ==
  /\ phase[i] = "compose"
  /\ Goto(i, "send")
  /\ UNCHANGED <<vars, clockVars, mailDay, memoryVars, mailVars, mishaps>>

\* Mutant of NoNews: nothing to send counts as sent.
NoNewsStamps(i) ==
  /\ phase[i] = "compose"
  /\ stamp' = [stamp EXCEPT ![i] = mailDay[i]]
  /\ Finish(i)
  /\ UNCHANGED <<clockVars, known, mailVars, mishaps>>

\* Nothing to send yet, or the deals could not be read: deliberately not
\* stamped, the next cycle looks again.
NoNews(i) ==
  /\ phase[i] = "compose"
  /\ Finish(i)
  /\ UNCHANGED <<clockVars, memoryVars, mailVars, mishaps>>

Deliver(i) == sent' = [sent EXCEPT ![mailDay[i]] = @ + 1]

SendOk(i) ==
  /\ phase[i] = "send"
  /\ Deliver(i)
  /\ stamp' = [stamp EXCEPT ![i] = mailDay[i]]
  /\ Goto(i, "record")
  /\ UNCHANGED <<vars, clockVars, mailDay, known, receipts, mishaps>>

\* Mutant of SendFails: the return value of the send is not looked at.
SendFailsUnnoticed(i) ==
  /\ phase[i] = "send"
  /\ stamp' = [stamp EXCEPT ![i] = mailDay[i]]
  /\ Finish(i)
  /\ UNCHANGED <<clockVars, known, mailVars, mishaps>>

\* A send that reports failure stamps nothing; the provider may have taken
\* the mail all the same.
SendFails(i) ==
  /\ phase[i] = "send"
  /\ \/ UNCHANGED <<sent, mishaps>>
     \/ Deliver(i) /\ Mishap({mailDay[i]})
  /\ Finish(i)
  /\ UNCHANGED <<clockVars, memoryVars, receipts>>

Record(i) ==
  /\ phase[i] = "record"
  /\ receipts' = receipts \cup {mailDay[i]}
  /\ Finish(i)
  /\ UNCHANGED <<clockVars, memoryVars, sent, mishaps>>

RecordFails(i) ==
  /\ phase[i] = "record"
  /\ Mishap({mailDay[i]})
  /\ Finish(i)
  /\ UNCHANGED <<clockVars, memoryVars, mailVars>>

MailStep(i) ==
  \/ Begin(i) \/ WeekdaysRead(i) \/ WeekdaysFallBack(i) \/ StandDown(i)
  \/ Compose(i) \/ HasNews(i) \/ NoNews(i) \/ SendOk(i) \/ SendFails(i)
  \/ Record(i) \/ RecordFails(i)

-----------------------------------------------------------------------------
(* What happens to an instance. *)

\* A process that ends takes its memory along.  The mail it was sending may
\* have gone out, the one it had sent is not on record.
Dies(i) ==
  /\ Crash(i) \/ Stop(i)
  /\ Goto(i, "rest")
  /\ mailDay' = [mailDay EXCEPT ![i] = NoDay]
  /\ stamp' = [stamp EXCEPT ![i] = NoDay]
  /\ known' = [known EXCEPT ![i] = NoDay]
  /\ \/ phase[i] # "record" /\ UNCHANGED <<sent, mishaps>>
     \/ phase[i] = "send" /\ Deliver(i) /\ Mishap({mailDay[i]})
     \/ phase[i] = "record" /\ Mishap({mailDay[i]}) /\ UNCHANGED sent
  /\ UNCHANGED <<clockVars, receipts>>

\* An instance that loses the lock in the middle of a cycle finishes it
\* beside its successor.
LosesLock(i) ==
  /\ ConnectionBreaks(i)
  /\ IF Works(i) THEN Mishap({d \in Day : d >= today}) ELSE UNCHANGED mishaps
  /\ UNCHANGED <<clockVars, phase, mailDay, memoryVars, mailVars>>

Idle(i) ==
  /\ Start(i) \/ StandBy(i) \/ AskFails(i)
  /\ UNCHANGED <<clockVars, phase, mailDay, memoryVars, mailVars, mishaps>>

Reaped ==
  /\ Reap
  /\ UNCHANGED <<clockVars, phase, mailDay, memoryVars, mailVars, mishaps>>

Noon ==
  /\ ~noon
  /\ noon' = TRUE
  /\ UNCHANGED <<vars, today, phase, mailDay, memoryVars, mailVars, mishaps>>

Midnight ==
  /\ noon /\ today < LastDay
  /\ noon' = FALSE /\ today' = today + 1
  /\ UNCHANGED <<vars, phase, mailDay, memoryVars, mailVars, mishaps>>

MNext ==
  \/ \E i \in Instance : MailStep(i) \/ Dies(i) \/ LosesLock(i) \/ Idle(i)
  \/ Reaped \/ Noon \/ Midnight

MSpec == MInit /\ [][MNext]_allVars

\* The loop goes on, and whatever is tried again every five minutes works in
\* the end: the lock, the queries, a day's deals, the mail provider.
MFairSpec ==
  /\ MSpec
  /\ WF_allVars(Reaped)
  /\ \A i \in Instance :
       /\ WF_allVars(MailStep(i))
       /\ SF_allVars(Begin(i)) /\ SF_allVars(WeekdaysRead(i))
       /\ SF_allVars(HasNews(i)) /\ SF_allVars(SendOk(i))

-----------------------------------------------------------------------------
MTypeOK ==
  /\ TypeOK
  /\ today \in Day /\ noon \in BOOLEAN
  /\ phase \in [Instance -> {"rest", "checks", "guard", "compose", "send", "record"}]
  /\ mailDay \in [Instance -> Day \cup {NoDay}]
  /\ stamp \in [Instance -> Day \cup {NoDay}]
  /\ known \in [Instance -> Day \cup {NoDay}]
  /\ receipts \subseteq Day
  /\ sent \in [Day -> Nat]
  /\ mishaps \in [Day -> 0..MaxMishaps]

\* A day's mail goes out once, and once more at most for every mishap that
\* touched it: a process that ended, or a database that failed, between the
\* send and its receipt; a receipt that could not be read; a delivery the
\* provider did not confirm; a lock lost in mid-cycle.  Nothing else, in
\* particular no restart, takeover or midnight at any other moment, costs the
\* operator a second copy.
OneMailPerMishap == \A d \in Day : sent[d] <= 1 + mishaps[d]

\* "No row" must mean "not sent" and a row must mean sent: a receipt, and a
\* memory of the day where there is a recipient, is only ever left by a mail
\* that did go out.
ReceiptMeansSent ==
  \A d \in Day :
    (d \in receipts \/ (Recipient /\ \E i \in Instance : stamp[i] = d)) => sent[d] > 0

\* The mail of a day is sent from its noon on, and only on a day something is
\* checked, or on a Monday when the schedule could not be read; a midnight in
\* mid-cycle makes it late, never early.
MailOnlyWhenDue ==
  \A d \in Day :
    sent[d] > 0 => /\ d \in CheckDays \cup FallbackDays
                   /\ d < today \/ (d = today /\ noon)

\* A check day's mail is never lost while the day lasts: whatever failed
\* before, an afternoon with an instance that stays up sees it go out, though
\* another instance may have led the morning, lost its connection, died, or
\* left an orphaned lock behind.
MailGoesOut ==
  \A i \in Instance, d \in CheckDays :
    <>[](today = d /\ noon /\ Up(i)) => <>(sent[d] > 0)
=============================================================================
