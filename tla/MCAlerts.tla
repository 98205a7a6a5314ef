------------------------------ MODULE MCAlerts ------------------------------
\* Two watches that may ask for a target price or for a drop of a fifth per
\* unit, and a page with and without an offer that fulfils both.
EXTENDS Alerts, TLC

Nothing == [target |-> None, anyOffer |-> FALSE, drop |-> None,
            unitTarget |-> None, unitDrop |-> None]
Wishes == {[Nothing EXCEPT !.target = 8], [Nothing EXCEPT !.unitDrop = 20]}
Regular == [price |-> 10, offer |-> None, campaign |-> FALSE, quantity |-> 2]
Pages == {Regular, [Regular EXCEPT !.offer = 8, !.campaign = TRUE]}
=============================================================================
