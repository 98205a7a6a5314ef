---------------------------- MODULE AlertsProofs ----------------------------
(***************************************************************************)
(* What TLAPS proves of the alerts, for every set of watches, wishes and   *)
(* pages, every cooldown and any number of mishaps.                        *)
(***************************************************************************)
EXTENDS Alerts, TLAPS

\* A row with another cooldown is a row.
LEMMA RowUpdate ==
  ASSUME NEW r \in [is : {"absent", "live", "gone"}, wish : Wish, cooling : 0..Cooldown],
         NEW t \in 0..Cooldown
  PROVE  [r EXCEPT !.cooling = t]
           \in [is : {"absent", "live", "gone"}, wish : Wish, cooling : 0..Cooldown]
  OBVIOUS

\* A step keeps the types.
LEMMA TypeStep ==
  ASSUME TypeOK, [Next]_vars
  PROVE  TypeOK'
<1> USE AlertsAssumption DEF TypeOK, rows, check, history, vars
<1> DEFINE Rows == [is : {"absent", "live", "gone"}, wish : Wish, cooling : 0..Cooldown]
<1>0. AnyWish \in Wish
  BY DEF AnyWish
<1>1. CASE Begin
  BY <1>1 DEF Begin
<1>2. CASE AllSeen
  BY <1>2 DEF AllSeen
<1>3. CASE Commit
  <2>1. \A w \in Watch : [watch[w] EXCEPT !.cooling = Cooldown] \in Rows
    <3> SUFFICES ASSUME NEW w \in Watch
                 PROVE  [watch[w] EXCEPT !.cooling = Cooldown] \in Rows
      OBVIOUS
    <3>1. watch[w] \in Rows /\ Cooldown \in 0..Cooldown
      OBVIOUS
    <3> QED
      BY <3>1, RowUpdate
  <2>2. watch' \in [Watch -> Rows]
    BY <1>3, <2>1 DEF Commit
  <2> QED
    BY <1>3, <2>2 DEF Commit
<1>4. CASE CommitStale
  BY <1>4 DEF CommitStale
<1>5. CASE Abandon
  BY <1>5 DEF Abandon, Mishap
<1>6. ASSUME NEW w \in Watch, PassOver(w) PROVE TypeOK'
  BY <1>6 DEF PassOver
<1>7. ASSUME NEW w \in Watch, SendOk(w) PROVE TypeOK'
  BY <1>7 DEF SendOk
<1>8. ASSUME NEW w \in Watch, SendFails(w) PROVE TypeOK'
  BY <1>8 DEF SendFails, Mishap
<1>9. ASSUME NEW w \in Watch, NEW wish \in Wish, CreateWatch(w, wish) PROVE TypeOK'
  BY <1>9 DEF CreateWatch, Row
<1>10. ASSUME NEW w \in Watch, NEW wish \in Wish, UpdateWatch(w, wish) PROVE TypeOK'
  BY <1>10 DEF UpdateWatch
<1>11. ASSUME NEW w \in Watch, DeleteWatch(w) PROVE TypeOK'
  BY <1>0, <1>11 DEF DeleteWatch, Row
<1>12. CASE Reprice
  BY <1>12 DEF Reprice
<1>13. CASE Tick
  <2>1. \A t \in 0..Cooldown : Closer(t) \in 0..Cooldown
    BY DEF Closer
  <2>2. \A w \in Watch : [watch[w] EXCEPT !.cooling = Closer(@)] \in Rows
    BY <2>1, RowUpdate
  <2>3. watch' \in [Watch -> Rows]
    BY <1>13, <2>2 DEF Tick
  <2>4. recent' \in [Watch -> 0..Cooldown]
    BY <1>13, <2>1 DEF Tick
  <2> QED
    BY <1>13, <2>3, <2>4 DEF Tick
<1>14. CASE UNCHANGED vars
  BY <1>14
<1> QED
  BY <1>1, <1>2, <1>3, <1>4, <1>5, <1>6, <1>7, <1>8, <1>9, <1>10, <1>11, <1>12, <1>13, <1>14
  DEF Next, CheckStep, OperatorStep

LEMMA TypeInit == Init => TypeOK
<1>1. AnyWish \in Wish
  BY AlertsAssumption DEF AnyWish
<1> QED
  BY <1>1, AlertsAssumption DEF Init, TypeOK, Row

\* Rows, copies and histories keep their types.
THEOREM TypeCorrect == Spec => []TypeOK
<1>1. TypeOK /\ [Next]_vars => TypeOK'
  BY TypeStep
<1> QED
  BY <1>1, TypeInit, PTL DEF Spec

-----------------------------------------------------------------------------
\* What a running check knows: the rows it loaded still carry the stamps they
\* had, unless they are gone, and the watches it stamps have had their mail.
Loaded ==
  phase # "idle" =>
    /\ todo \cap stamped = {}
    /\ \A w \in todo \cup stamped :
         watch[w].cooling = IF Live(w) THEN loaded[w].cooling ELSE 0
    /\ \A w \in todo \cup stamped : watch[w].is # "absent"
    /\ \A w \in stamped : recent[w] = Cooldown

\* Only live rows are cooling.
AtRest == \A w \in Watch : ~Live(w) => watch[w].cooling = 0

LoadedInv == TypeOK /\ Loaded /\ AtRest /\ StampMeansMail

LEMMA LoadedStep ==
  ASSUME LoadedInv, [Next]_vars
  PROVE  LoadedInv'
<1>1. TypeOK'
  BY TypeStep DEF LoadedInv
<1> USE AlertsAssumption DEF LoadedInv, TypeOK, Loaded, AtRest, StampMeansMail, rows, check, history, vars, Live
<1>2. CASE Begin
  BY <1>1, <1>2 DEF Begin
<1>3. CASE AllSeen
  BY <1>1, <1>3 DEF AllSeen
<1>4. CASE Commit
  BY <1>1, <1>4 DEF Commit
<1>5. CASE CommitStale
  BY <1>1, <1>5 DEF CommitStale
<1>6. CASE Abandon
  BY <1>1, <1>6 DEF Abandon
<1>7. ASSUME NEW w \in Watch, PassOver(w) PROVE LoadedInv'
  BY <1>1, <1>7 DEF PassOver
<1>8. ASSUME NEW w \in Watch, SendOk(w) PROVE LoadedInv'
  BY <1>1, <1>8 DEF SendOk
<1>9. ASSUME NEW w \in Watch, SendFails(w) PROVE LoadedInv'
  BY <1>1, <1>9 DEF SendFails
<1>10. ASSUME NEW w \in Watch, NEW wish \in Wish, CreateWatch(w, wish) PROVE LoadedInv'
  BY <1>1, <1>10 DEF CreateWatch, Row
<1>11. ASSUME NEW w \in Watch, NEW wish \in Wish, UpdateWatch(w, wish) PROVE LoadedInv'
  BY <1>1, <1>11 DEF UpdateWatch
<1>12. ASSUME NEW w \in Watch, DeleteWatch(w) PROVE LoadedInv'
  BY <1>1, <1>12 DEF DeleteWatch, Row
<1>13. CASE Reprice
  BY <1>1, <1>13 DEF Reprice
<1>14. CASE Tick
  <2>1. phase' = "idle"
    BY <1>14 DEF Tick
  <2>2. ASSUME NEW w \in Watch
        PROVE  /\ watch'[w].is = watch[w].is
               /\ watch'[w].cooling = Closer(watch[w].cooling)
               /\ recent'[w] = Closer(recent[w])
    BY <1>14 DEF Tick
  <2>3. AtRest' /\ StampMeansMail'
    BY <2>2 DEF Closer
  <2> QED
    BY <1>1, <2>1, <2>3
<1>15. CASE UNCHANGED vars
  BY <1>1, <1>15
<1> QED
  BY <1>2, <1>3, <1>4, <1>5, <1>6, <1>7, <1>8, <1>9, <1>10, <1>11, <1>12, <1>13, <1>14, <1>15
  DEF Next, CheckStep, OperatorStep

LEMMA LoadedAlways == Spec => []LoadedInv
<1>1. Init => LoadedInv
  BY TypeInit, AlertsAssumption DEF Init, LoadedInv, TypeOK, Loaded, AtRest, StampMeansMail, Row
<1>2. LoadedInv /\ [Next]_vars => LoadedInv'
  BY LoadedStep
<1> QED
  BY <1>1, <1>2, PTL DEF Spec

\* No watch is silenced by a stamp for a mail that did not leave.
THEOREM StampsStandForMails == Spec => []StampMeansMail
<1>1. LoadedInv => StampMeansMail
  BY DEF LoadedInv
<1> QED
  BY <1>1, LoadedAlways, PTL

-----------------------------------------------------------------------------
\* The budget behind OneAlertPerMishap.  A watch is in debt when it has had a
\* mail its row does not know of and no running check will write down.  A
\* check is in peril when one of the watches it stamps, or is about to, has
\* been deleted: its commit will fail and leave debts.  Every debt and every
\* peril has been paid for, by a mishap or a deletion, and a second mail
\* within the cooldown settles the debt of its watch.
InHand(w) == phase # "idle" /\ w \in stamped
Debt(w) == IF recent[w] > watch[w].cooling /\ ~InHand(w) THEN 1 ELSE 0
InPeril ==
  /\ phase # "idle"
  /\ \E w \in stamped \cup {t \in todo : Due(t)} : ~Live(w)
Peril == IF InPeril THEN 1 ELSE 0

Budget == \A w \in Watch : again[w] + Debt(w) + Peril <= mishaps + deletions

BudgetInv == LoadedInv /\ Budget

\* The arithmetic of a step: a is what a watch has had, d its debt, p the
\* peril, b what has been paid.
LEMMA Balance ==
  ASSUME NEW a \in Nat, NEW a2 \in Nat, NEW b \in Nat, NEW b2 \in Nat,
         NEW d \in {0, 1}, NEW d2 \in {0, 1}, NEW p \in {0, 1}, NEW p2 \in {0, 1},
         a + d + p <= b, a2 + d2 + p2 + b <= a + d + p + b2
  PROVE  a2 + d2 + p2 <= b2
  OBVIOUS

LEMMA BudgetTypes ==
  ASSUME TypeOK, TypeOK', NEW x \in Watch
  PROVE  /\ Debt(x) \in {0, 1} /\ Debt(x)' \in {0, 1}
         /\ Peril \in {0, 1} /\ Peril' \in {0, 1}
         /\ again[x] \in Nat /\ again'[x] \in Nat
         /\ mishaps \in Nat /\ mishaps' \in Nat
         /\ deletions \in Nat /\ deletions' \in Nat
<1>1. /\ Debt(x) \in {0, 1} /\ Debt(x)' \in {0, 1}
      /\ Peril \in {0, 1} /\ Peril' \in {0, 1}
  BY DEF Debt, Peril
<1>2. again \in [Watch -> Nat] /\ mishaps \in Nat /\ deletions \in Nat
  BY DEF TypeOK
<1>3. again' \in [Watch -> Nat] /\ mishaps' \in Nat /\ deletions' \in Nat
  BY DEF TypeOK
<1> QED
  BY <1>1, <1>2, <1>3

\* A step keeps the budget of a watch if it pays for what it adds.
LEMMA BudgetOfOne ==
  ASSUME TypeOK, TypeOK', Budget, NEW x \in Watch,
         again'[x] + Debt(x)' + Peril' + (mishaps + deletions)
           <= again[x] + Debt(x) + Peril + (mishaps' + deletions')
  PROVE  again'[x] + Debt(x)' + Peril' <= mishaps' + deletions'
<1>1. again[x] + Debt(x) + Peril <= mishaps + deletions
  BY DEF Budget
<1>2. mishaps + deletions \in Nat /\ mishaps' + deletions' \in Nat
  BY BudgetTypes
<1> QED
  BY <1>1, <1>2, BudgetTypes, Balance

\* A check that ends without a commit leaves at most one debt per watch.
LEMMA AbandonBudget ==
  ASSUME BudgetInv, TypeOK', Abandon \/ CommitStale
  PROVE  Budget'
<1> SUFFICES ASSUME NEW x \in Watch
             PROVE  again'[x] + Debt(x)' + Peril' <= mishaps' + deletions'
  BY DEF Budget
<1> USE DEF BudgetInv, LoadedInv, rows, history, check
<1>1. Peril' = 0 /\ again'[x] = again[x]
  BY DEF Abandon, CommitStale, Peril, InPeril
<1>2. Debt(x) \in {0, 1} /\ Debt(x)' \in {0, 1} /\ Peril \in {0, 1}
  BY DEF Debt, Peril
<1>3. CASE Abandon
  <2>1. mishaps' = mishaps + 1 /\ deletions' = deletions
    BY <1>3 DEF Abandon, Mishap
  <2> QED
    BY <1>1, <1>2, <2>1, BudgetTypes, BudgetOfOne
<1>4. CASE CommitStale
  <2>1. Peril = 1 /\ mishaps' = mishaps /\ deletions' = deletions
    BY <1>4 DEF CommitStale, Peril, InPeril
  <2> QED
    BY <1>1, <1>2, <2>1, BudgetTypes, BudgetOfOne
<1> QED
  BY <1>3, <1>4

\* A commit pays every stamp in.
LEMMA CommitBudget ==
  ASSUME BudgetInv, TypeOK', Commit
  PROVE  Budget'
<1> SUFFICES ASSUME NEW x \in Watch
             PROVE  again'[x] + Debt(x)' + Peril' <= mishaps' + deletions'
  BY DEF Budget
<1> USE DEF BudgetInv, LoadedInv, history, check
<1>1. /\ Peril' = 0 /\ again'[x] = again[x]
      /\ mishaps' = mishaps /\ deletions' = deletions
  BY DEF Commit, Peril, InPeril
<1>2. Peril \in {0, 1} /\ Debt(x) \in {0, 1}
  BY DEF Peril, Debt
<1>3. Debt(x)' <= Debt(x)
  <2>1. CASE x \in stamped
    <3>1. recent'[x] = Cooldown /\ watch'[x].cooling = Cooldown
      BY <2>1 DEF Commit, Loaded, TypeOK
    <3> QED
      BY <3>1, <1>2, AlertsAssumption DEF Debt
  <2>2. CASE x \notin stamped
    <3>1. recent'[x] = recent[x] /\ watch'[x] = watch[x]
      BY <2>2 DEF Commit
    <3> QED
      BY <2>2, <3>1 DEF Debt, InHand
  <2> QED
    BY <2>1, <2>2
<1> QED
  BY <1>1, <1>2, <1>3, BudgetTypes, BudgetOfOne

\* A mail to w settles its debt, or contracts none.
LEMMA SendBudget ==
  ASSUME BudgetInv, TypeOK', NEW w \in Watch, SendOk(w)
  PROVE  Budget'
<1> SUFFICES ASSUME NEW x \in Watch
             PROVE  again'[x] + Debt(x)' + Peril' <= mishaps' + deletions'
  BY DEF Budget
<1> USE DEF BudgetInv, LoadedInv, rows
<1>1. /\ mishaps' = mishaps /\ deletions' = deletions
      /\ phase = "alerting" /\ phase' = phase /\ UNCHANGED <<watch, loaded, page>>
      /\ w \in todo /\ Due(w) /\ stamped' = stamped \cup {w} /\ todo' = todo \ {w}
  BY DEF SendOk
<1>2. \A t : Due(t)' <=> Due(t)
  BY <1>1 DEF Due
<1>3. Peril' = Peril
  <2>1. stamped' \cup {t \in todo' : Due(t)'} = stamped \cup {t \in todo : Due(t)}
    BY <1>1, <1>2
  <2>2. InPeril' <=> InPeril
    BY <1>1, <2>1 DEF InPeril, Live
  <2> QED
    BY <2>2 DEF Peril
<1>4. CASE x # w
  <2>1. again'[x] = again[x] /\ recent'[x] = recent[x]
    BY <1>4 DEF SendOk, TypeOK
  <2>2. Debt(x)' = Debt(x)
    BY <1>1, <1>4, <2>1 DEF Debt, InHand
  <2>3. Peril \in {0, 1} /\ Debt(x) \in {0, 1}
    BY DEF Peril, Debt
  <2> QED
    BY <1>1, <1>3, <2>1, <2>2, <2>3, BudgetTypes, BudgetOfOne
<1>5. CASE x = w
  <2>1. w \notin stamped /\ watch[w].cooling = 0
    BY <1>1 DEF Loaded, Due
  <2>2. Debt(w)' = 0
    BY <1>1 DEF Debt, InHand
  <2>3. Debt(w) = IF recent[w] > 0 THEN 1 ELSE 0
    BY <2>1 DEF Debt, InHand
  <2>4. again'[w] = IF recent[w] > 0 THEN again[w] + 1 ELSE again[w]
    BY DEF SendOk, TypeOK
  <2>5. Peril \in {0, 1} /\ again[w] \in Nat /\ recent[w] \in Nat
    BY DEF Peril, TypeOK
  <2>6. CASE recent[w] > 0
    BY <1>1, <1>3, <1>5, <2>2, <2>3, <2>4, <2>5, <2>6, BudgetTypes, BudgetOfOne
  <2>7. CASE ~(recent[w] > 0)
    BY <1>1, <1>3, <1>5, <2>2, <2>3, <2>4, <2>5, <2>7, BudgetTypes, BudgetOfOne
  <2> QED
    BY <2>6, <2>7
<1> QED
  BY <1>4, <1>5

\* A deletion puts a check in peril, or its own watch in debt, never both.
LEMMA DeleteBudget ==
  ASSUME BudgetInv, TypeOK', NEW w \in Watch, DeleteWatch(w)
  PROVE  Budget'
<1> SUFFICES ASSUME NEW x \in Watch
             PROVE  again'[x] + Debt(x)' + Peril' <= mishaps' + deletions'
  BY DEF Budget
<1> USE DEF BudgetInv, LoadedInv, check, history
<1>1. /\ mishaps' = mishaps /\ deletions' = deletions + 1
      /\ Live(w) /\ UNCHANGED <<phase, todo, loaded, page, stamped, recent, again>>
      /\ watch'[w].cooling = 0 /\ ~Live(w)'
      /\ \A v \in Watch \ {w} : watch'[v] = watch[v]
  BY DEF DeleteWatch, Row, Live, TypeOK
<1>2. \A t : Due(t)' <=> Due(t)
  BY <1>1 DEF Due
<1>3. Peril \in {0, 1} /\ Peril' \in {0, 1} /\ Debt(x) \in {0, 1} /\ Debt(x)' \in {0, 1}
  BY DEF Peril, Debt
<1> DEFINE Perilous == phase # "idle" /\ w \in stamped \cup {t \in todo : Due(t)}
<1>4. CASE Perilous
  <2>1. Debt(x)' = Debt(x)
    <3>1. CASE x # w
      BY <1>1, <3>1 DEF Debt, InHand
    <3>2. CASE x = w /\ w \in stamped
      BY <1>1, <1>4, <3>2 DEF Debt, InHand
    <3>3. CASE x = w /\ w \in todo /\ Due(w)
      <4>1. watch[w].cooling = 0
        BY <1>1, <1>4, <3>3 DEF Loaded, Due
      <4> QED
        BY <1>1, <3>3, <4>1 DEF Debt, InHand
    <3> QED
      BY <1>4, <3>1, <3>2, <3>3
  <2> QED
    BY <1>1, <1>3, <2>1, BudgetTypes, BudgetOfOne
<1>5. CASE ~Perilous
  <2>1. InPeril' <=> InPeril
    BY <1>1, <1>2, <1>5 DEF InPeril, Live, TypeOK
  <2>2. Peril' = Peril
    BY <2>1 DEF Peril
  <2> QED
    BY <1>1, <1>3, <2>2, BudgetTypes, BudgetOfOne
<1> QED
  BY <1>4, <1>5

\* The remaining steps leave every debt and every peril, or remove some.
LEMMA QuietBudget ==
  ASSUME BudgetInv, TypeOK',
         \/ Begin \/ AllSeen \/ Reprice \/ Tick \/ UNCHANGED vars
         \/ \E w \in Watch : PassOver(w) \/ SendFails(w)
         \/ \E w \in Watch, wish \in Wish : CreateWatch(w, wish) \/ UpdateWatch(w, wish)
  PROVE  Budget'
<1> SUFFICES ASSUME NEW x \in Watch
             PROVE  again'[x] + Debt(x)' + Peril' <= mishaps' + deletions'
  BY DEF Budget
<1> USE DEF BudgetInv, LoadedInv, rows, check, history, vars
<1>1. again'[x] = again[x]
  BY DEF Begin, AllSeen, Reprice, Tick, PassOver, SendFails, CreateWatch, UpdateWatch
<1>2. mishaps' + deletions' >= mishaps + deletions
  BY DEF Begin, AllSeen, Reprice, Tick, PassOver, SendFails, CreateWatch, UpdateWatch,
         Mishap, TypeOK
<1>3. Debt(x)' <= Debt(x)
  <2>1. CASE Begin
    BY <2>1 DEF Begin, Debt, InHand
  <2>2. CASE Tick
    <3>1. recent'[x] > watch'[x].cooling => recent[x] > watch[x].cooling
      BY <2>2 DEF Tick, Closer, TypeOK
    <3> QED
      BY <2>2, <3>1 DEF Tick, Debt, InHand
  <2>3. CASE AllSeen \/ Reprice \/ UNCHANGED vars
    BY <2>3 DEF AllSeen, Reprice, Debt, InHand
  <2>4. CASE \E w \in Watch : PassOver(w) \/ SendFails(w)
    BY <2>4 DEF PassOver, SendFails, Debt, InHand
  <2>5. CASE \E w \in Watch, wish \in Wish : CreateWatch(w, wish)
    <3> PICK w \in Watch, wish \in Wish : CreateWatch(w, wish)
      BY <2>5
    <3>1. /\ UNCHANGED <<recent, phase, stamped>> /\ ~Live(w)
          /\ watch' = [watch EXCEPT ![w] = Row("live", wish, 0)]
      BY DEF CreateWatch, Live
    <3>2. watch'[x].cooling = watch[x].cooling
      BY <3>1 DEF TypeOK, AtRest, Row
    <3> QED
      BY <3>1, <3>2 DEF Debt, InHand
  <2>6. CASE \E w \in Watch, wish \in Wish : UpdateWatch(w, wish)
    BY <2>6 DEF UpdateWatch, Debt, InHand, TypeOK
  <2> QED
    BY <2>1, <2>2, <2>3, <2>4, <2>5, <2>6
<1>4. Peril' <= Peril
  <2>1. CASE Begin
    BY <2>1 DEF Begin, Peril, InPeril, Live
  <2>2. CASE Tick
    BY <2>2 DEF Tick, Peril, InPeril
  <2>3. CASE AllSeen \/ Reprice \/ UNCHANGED vars
    BY <2>3 DEF AllSeen, Reprice, Peril, InPeril, Live, Due
  <2>4. CASE \E w \in Watch : PassOver(w) \/ SendFails(w)
    BY <2>4 DEF PassOver, SendFails, Peril, InPeril, Live, Due
  <2>5. CASE \E w \in Watch, wish \in Wish : CreateWatch(w, wish) \/ UpdateWatch(w, wish)
    <3>1. \A v \in Watch : Live(v) => Live(v)'
      BY <2>5 DEF CreateWatch, UpdateWatch, Row, Live, TypeOK
    <3>2. UNCHANGED <<phase, stamped, todo, loaded, page>>
      BY <2>5 DEF CreateWatch, UpdateWatch
    <3> QED
      BY <3>1, <3>2 DEF Peril, InPeril, Due, TypeOK
  <2> QED
    BY <2>1, <2>2, <2>3, <2>4, <2>5
<1> QED
  BY <1>1, <1>2, <1>3, <1>4, BudgetTypes, BudgetOfOne

\* A second mail within the cooldown is paid for by a mishap or a deletion.
THEOREM AlertsAreBudgeted == Spec => []OneAlertPerMishap
<1>1. Init => BudgetInv
  <2> SUFFICES ASSUME Init PROVE LoadedInv /\ Budget
    BY DEF BudgetInv
  <2>1. LoadedInv
    BY TypeInit, AlertsAssumption DEF Init, LoadedInv, TypeOK, Loaded, AtRest, StampMeansMail, Row
  <2>2. ASSUME NEW w \in Watch PROVE again[w] + Debt(w) + Peril <= mishaps + deletions
    <3>1. again[w] = 0 /\ mishaps = 0 /\ deletions = 0 /\ Peril = 0
      BY DEF Init, Peril, InPeril
    <3>2. recent[w] = 0 /\ watch[w].cooling = 0
      BY DEF Init, Row
    <3>3. Debt(w) = 0
      BY <3>2 DEF Debt
    <3> QED
      BY <3>1, <3>3
  <2> QED
    BY <2>1, <2>2 DEF Budget
<1>2. BudgetInv /\ [Next]_vars => BudgetInv'
  <2> SUFFICES ASSUME BudgetInv, [Next]_vars PROVE BudgetInv'
    OBVIOUS
  <2>1. LoadedInv' /\ TypeOK'
    BY LoadedStep DEF BudgetInv, LoadedInv
  <2> QED
    BY <2>1, AbandonBudget, CommitBudget, SendBudget, DeleteBudget, QuietBudget
    DEF BudgetInv, Next, CheckStep, OperatorStep
<1>3. BudgetInv => OneAlertPerMishap
  <2> SUFFICES ASSUME BudgetInv, NEW w \in Watch
               PROVE  again[w] <= mishaps + deletions
    BY DEF OneAlertPerMishap
  <2>1. again[w] + Debt(w) + Peril <= mishaps + deletions
    BY DEF BudgetInv, Budget
  <2>2. Debt(w) \in {0, 1} /\ Peril \in {0, 1} /\ again[w] \in Nat
        /\ mishaps \in Nat /\ deletions \in Nat
    BY DEF Debt, Peril, BudgetInv, LoadedInv, TypeOK
  <2> QED
    BY <2>1, <2>2
<1> QED
  BY <1>1, <1>2, <1>3, PTL DEF Spec
=============================================================================
