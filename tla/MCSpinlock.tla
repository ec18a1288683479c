----------------------------- MODULE MCSpinlock -----------------------------
(* Three CPUs, with MONITOR/MWAIT and callers of TryAcquire.               *)
EXTENDS Spinlock
=============================================================================
