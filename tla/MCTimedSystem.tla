----------------------------- MODULE MCTimedSystem -----------------------------
(* Two cores with a task each: one shares its core with the interrupt.     *)
EXTENDS TimedSystem, TLC

CONSTANTS c0, c3, t1, t2

HomeOf == t1 :> c0 @@ t2 :> c3

HomeOfOne == t1 :> c0 @@ t2 :> c0

DeadlineSet == {1, Horizon}
=============================================================================
