------------------------------ MODULE FifoLock ------------------------------
(***************************************************************************)
(* What a mutex promises: threads own it one at a time, in the order in    *)
(* which they asked for it, and the owner may enter it again.  The head of *)
(* the queue is the owner.                                                 *)
(***************************************************************************)
EXTENDS Naturals, Sequences, Functions

CONSTANTS Threads, MaxDepth

VARIABLES
  queue,    \* the owner, then those that wait
  depth     \* how many times the owner has entered

vars == <<queue, depth>>

Init ==
  /\ queue = <<>>
  /\ depth = 0

Request(t) ==
  /\ t \notin Range(queue)
  /\ queue' = Append(queue, t)
  /\ depth' = IF queue = <<>> THEN 1 ELSE depth

Owns(t) == queue # <<>> /\ Head(queue) = t

Reenter(t) ==
  /\ Owns(t)
  /\ depth < MaxDepth
  /\ depth' = depth + 1
  /\ UNCHANGED queue

Leave(t) ==
  /\ Owns(t)
  /\ IF depth > 1
     THEN depth' = depth - 1 /\ UNCHANGED queue
     ELSE /\ queue' = Tail(queue)
          /\ depth' = IF Len(queue) = 1 THEN 0 ELSE 1

Next == \E t \in Threads : Request(t) \/ Reenter(t) \/ Leave(t)

Spec == Init /\ [][Next]_vars
=============================================================================
