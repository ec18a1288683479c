------------------------- MODULE MCThreadScheduler -------------------------
(* Small instances of the scheduler: named CPUs and threads.               *)
EXTENDS ThreadScheduler, TLC

CONSTANTS c1, c2, i1, i2, m1, m2

Idle2 == (c1 :> i1) @@ (c2 :> i2)
Main2 == (c1 :> m1) @@ (c2 :> m2)
=============================================================================
