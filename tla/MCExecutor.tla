------------------------------ MODULE MCExecutor ------------------------------
(* Two cores, three tasks -- two of them share a core, so that one may     *)
(* join the other in the queue -- and two contexts that wake at once.      *)
EXTENDS Executor, TLC

CONSTANTS c1, c2, t1, t2, t3

HomeOf == t1 :> c1 @@ t2 :> c1 @@ t3 :> c2

(* Tasks of one core are interchangeable, and so are the wakers.           *)
Symmetry == Permutations({t1, t2}) \cup Permutations(Wakers)
=============================================================================
