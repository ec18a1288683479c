------------------------------ MODULE MCMutex ------------------------------
(* The mutex for a small number of threads and a small recursion limit.    *)
EXTENDS Mutex
=============================================================================
