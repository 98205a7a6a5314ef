--------------------------- MODULE LedgerHistory ----------------------------
(***************************************************************************)
(* The ledger together with a record of every reservation it has granted,  *)
(* in order: what one caller was promised because of all earlier ones.     *)
(***************************************************************************)
EXTENDS RateLimiter

CONSTANT MaxGrants   \* bound on the number of reservations recorded

ASSUME LedgerHistoryAssumption == MaxGrants \in Nat

VARIABLES grants,   \* reservations: serial number, caller, store, slot, interval
          issued    \* how many there are

allVars == <<now, nextFree, slot, grants, issued>>

Grant == [no : Nat, by : Caller, store : Store, at : Nat, interval : Nat]

HInit == Init /\ grants = {} /\ issued = 0

HReserve ==
  \E c \in Caller, k \in Store :
    \E i \in Intervals(c) :
      /\ issued < MaxGrants
      /\ Acquire(c, k, i)
      /\ grants' = grants \cup {[no |-> issued, by |-> c, store |-> k,
                                 at |-> SlotFor(c, k), interval |-> i]}
      /\ issued' = issued + 1
      /\ UNCHANGED now

HNext == HReserve \/ ((Awake \/ Tick) /\ UNCHANGED <<grants, issued>>)

HSpec == HInit /\ [][HNext]_allVars

\* e was granted before g, on the same store.
Earlier(e, g) == e.store = g.store /\ e.no < g.no

\* "Cutting in never lets a later request fire sooner than the ledger
\* intended": a scheduler slot lies a full interval behind EVERY earlier
\* reservation of the store, those of capped callers that jumped the queue
\* included.
BackgroundKeepsIntervals ==
  \A e, g \in grants :
    (Earlier(e, g) /\ g.by = Background) => g.at >= e.at + e.interval
=============================================================================
