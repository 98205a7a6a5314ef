------------------------------ MODULE OneCheck -------------------------------
(***************************************************************************)
(* What a price check is to everything around it, however many requests,   *)
(* tiers and retries it takes: it begins, hears at most one last word of   *)
(* the store, and ends once, with one row in the log of its link or, when  *)
(* that is lost or the request is cancelled, none.  "ONE ROW PER CHECK,    *)
(* not per HTTP request" (domain/models.py).                               *)
(*                                                                         *)
(* PriceCheck implements it.                                               *)
(***************************************************************************)
EXTENDS Sequences

CONSTANTS Check, Link

VARIABLES on,      \* the link that a check is about; none when it is not under way
          word,    \* the store's last word to it
          log      \* the rows of a link, newest first

vars == <<on, word, log>>

Outcome == {"ok", "blocked", "fetch_failed", "no_price", "error"}

Init ==
  /\ on = [c \in Check |-> {}]
  /\ word = [c \in Check |-> "none"]
  /\ log = [l \in Link |-> <<>>]

Starts(c, l) ==
  /\ on[c] = {}
  /\ on' = [on EXCEPT ![c] = {l}]
  /\ UNCHANGED <<word, log>>

\* A wall, or the product is gone: nothing the store says after that counts.
Says(c, w) ==
  /\ on[c] # {} /\ word[c] = "none"
  /\ word' = [word EXCEPT ![c] = w]
  /\ UNCHANGED <<on, log>>

\* The outcome is the store's last word, if it had one.
Heeds(outcome, w) == (w = "wall" <=> outcome = "blocked") /\ (w = "gone" => outcome = "no_price")

\* The row may be lost, and a request that is cancelled has none.
Recorded(c) ==
  \E l \in on[c], outcome \in Outcome :
    /\ log' = [log EXCEPT ![l] = <<outcome>> \o @]
    /\ Heeds(outcome, word[c])

Ends(c) ==
  /\ on[c] # {}
  /\ on' = [on EXCEPT ![c] = {}]
  /\ word' = [word EXCEPT ![c] = "none"]
  /\ Recorded(c) \/ UNCHANGED log

Next ==
  \E c \in Check :
    \/ Ends(c)
    \/ \E l \in Link : Starts(c, l)
    \/ \E w \in {"wall", "gone"} : Says(c, w)

Spec == Init /\ [][Next]_vars
=============================================================================
