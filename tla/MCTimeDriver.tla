----------------------------- MODULE MCTimeDriver -----------------------------
(* Small instances of the time driver: a 3-bit low word would wrap once,   *)
(* the clamp cuts the later deadlines, and a deadline may come due while   *)
(* the driver is arming it.                                                *)
EXTENDS TimeDriver, TLC

DeadlineSet == {1, 3, Horizon}

TaskSymmetry == Permutations(Tasks)
=============================================================================
