------------------------- MODULE StoreBlockHistory --------------------------
(***************************************************************************)
(* The breaker together with what the stores have actually answered: how   *)
(* often a store has walled us since its last real page, and when it did   *)
(* so last.  The two dictionaries are cleared in different places, one of  *)
(* them lazily by whoever asks; they must still say what the answers say.  *)
(***************************************************************************)
EXTENDS StoreBlock

CONSTANT MaxWalls   \* bound on the walls in a row

ASSUME StoreBlockHistoryAssumption == MaxWalls \in Nat

VARIABLES walls,     \* walls since the last answer
          lastWall   \* when the last of them was met

history == <<walls, lastWall>>

HInit ==
  /\ Init
  /\ walls = [k \in Store |-> 0]
  /\ lastWall = [k \in Store |-> 0]

HBlock ==
  \E k \in Store :
    /\ walls[k] < MaxWalls
    /\ RecordBlock(k) /\ UNCHANGED now
    /\ walls' = [walls EXCEPT ![k] = @ + 1]
    /\ lastWall' = [lastWall EXCEPT ![k] = now]

HAnswer ==
  \E k \in Store :
    /\ RecordSuccess(k) /\ UNCHANGED now
    /\ walls' = [walls EXCEPT ![k] = 0]
    /\ UNCHANGED lastWall

HNext == HBlock \/ HAnswer \/ ((Ask \/ Status \/ Tick) /\ UNCHANGED history)

HSpec == HInit /\ [][HNext]_<<vars, history>>

-----------------------------------------------------------------------------
Saturated(n) == IF n < MaxStrikes THEN n ELSE MaxStrikes

\* The end of the cooldown the answers of store k have earned it.
EarnedUntil(k) == lastWall[k] + Cooldown(Saturated(walls[k]))

\* The strike count is "cleared only by a success" and nothing else opens a
\* cooled store: the strikes are the walls since the last answer, and requests
\* are held back from the last wall for exactly the time it has earned,
\* however often anybody looks at the breaker in between.
OnlyAnAnswerForgives ==
  \A k \in Store :
    /\ strikes[k] = Saturated(walls[k])
    /\ Open(k) <=> (walls[k] > 0 /\ now < EarnedUntil(k))
    /\ Open(k) => until[k] = EarnedUntil(k)
=============================================================================
