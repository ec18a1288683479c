-------------------------------- MODULE Mutex --------------------------------
(***************************************************************************)
(* The blocking mutex of the kernel (mutex.c), built on the scheduler:     *)
(* MutexRelease hands the mutex to the first thread of the WaitingList     *)
(* before it wakes that thread.                                            *)
(*                                                                         *)
(* The actors are the threads that use one mutex.  MutexLock protects      *)
(* Holder and WaitingList, and is held while MutexRelease waits, inside    *)
(* ThreadUnblock, for the BlockLock of the thread it wakes; a waiter owns  *)
(* its BlockLock from the moment it is linked until it is off its CPU      *)
(* (ThreadScheduler).  Recursive entries and exits touch only              *)
(* CurrentRecursivityDepth and take no lock.                               *)
(***************************************************************************)
EXTENDS Naturals, Sequences, Functions

CONSTANTS
  Threads,
  MaxRecursivityDepth,   \* 1, or 255 for a recursive mutex
  Nobody

ASSUME MutexAssumption ==
  /\ MaxRecursivityDepth \in Nat \ {0}
  /\ Nobody \notin Threads

VARIABLES
  Holder,
  CurrentRecursivityDepth,
  WaitingList,
  MutexLock,    \* the thread that keeps the lock across ThreadUnblock
  pThread,      \* whom it wakes: the local variable of MutexRelease
  pc

vars == <<Holder, CurrentRecursivityDepth, WaitingList, MutexLock, pThread, pc>>

Locations == { "out",       \* neither owns nor wants the mutex
               "enter",     \* in MutexAcquire, wants MutexLock
               "linked",    \* on the WaitingList, not yet off its CPU
               "blocked",   \* switched out
               "woken",     \* made ready again, wants MutexLock
               "own",       \* MutexAcquire has returned
               "unblock" }  \* in ThreadUnblock, called by MutexRelease

Goto(t, from, to) ==
  /\ pc[t] = from
  /\ pc' = [pc EXCEPT ![t] = to]

Init ==
  /\ Holder = Nobody
  /\ CurrentRecursivityDepth = 0
  /\ WaitingList = <<>>
  /\ MutexLock = Nobody
  /\ pThread = Nobody
  /\ pc = [t \in Threads |-> "out"]

-----------------------------------------------------------------------------
\* MutexAcquire by the holder.  Behind ASSERT(CurrentRecursivityDepth <
\* MaxRecursivityDepth): the caller must not nest deeper.
AcquireRecursive(t) ==
  /\ pc[t] = "own"
  /\ Holder = t
  /\ CurrentRecursivityDepth < MaxRecursivityDepth
  /\ CurrentRecursivityDepth' = CurrentRecursivityDepth + 1
  /\ UNCHANGED <<Holder, WaitingList, MutexLock, pThread, pc>>

\* Holder is read without MutexLock: only the thread itself can be surprised
\* by its own name there.
ReadHolder(t) ==
  /\ Goto(t, "out", "enter")
  /\ Holder # t
  /\ UNCHANGED <<Holder, CurrentRecursivityDepth, WaitingList, MutexLock,
                 pThread>>

\* The thread links itself, takes its BlockLock and releases MutexLock.
Link(t, from) ==
  /\ Goto(t, from, "linked")
  /\ WaitingList' = Append(WaitingList, t)
  /\ UNCHANGED <<Holder, CurrentRecursivityDepth, MutexLock, pThread>>

\* Under MutexLock: the mutex is free.
TakeFree(t) ==
  /\ Goto(t, "enter", "own")
  /\ MutexLock = Nobody
  /\ Holder = Nobody
  /\ Holder' = t
  /\ CurrentRecursivityDepth' = 1
  /\ UNCHANGED <<WaitingList, MutexLock, pThread>>

\* Under MutexLock: the mutex is owned, wait for it.
WaitForOwner(t) ==
  /\ MutexLock = Nobody
  /\ Holder # Nobody
  /\ Link(t, "enter")

\* ThreadBlock: the scheduler switches the thread out and then releases its
\* BlockLock.
Block(t) ==
  /\ Goto(t, "linked", "blocked")
  /\ UNCHANGED <<Holder, CurrentRecursivityDepth, WaitingList, MutexLock,
                 pThread>>

\* Back from ThreadBlock, under MutexLock: the condition of the loop.
Recheck(t) ==
  /\ MutexLock = Nobody
  /\ IF Holder = t
     THEN /\ Goto(t, "woken", "own")
          /\ UNCHANGED <<Holder, CurrentRecursivityDepth, WaitingList,
                         MutexLock, pThread>>
     ELSE Link(t, "woken")

-----------------------------------------------------------------------------
ReleaseRecursive(t) ==
  /\ pc[t] = "own"
  /\ CurrentRecursivityDepth > 1
  /\ CurrentRecursivityDepth' = CurrentRecursivityDepth - 1
  /\ UNCHANGED <<Holder, WaitingList, MutexLock, pThread, pc>>

\* Nobody waits.
ReleaseFree(t) ==
  /\ Goto(t, "own", "out")
  /\ CurrentRecursivityDepth <= 1
  /\ MutexLock = Nobody
  /\ WaitingList = <<>>
  /\ Holder' = Nobody
  /\ UNCHANGED <<CurrentRecursivityDepth, WaitingList, MutexLock, pThread>>

\* Mutant: the first waiter is woken but the mutex is left free.
HandOff_NoHolder(t) ==
  /\ Goto(t, "own", "unblock")
  /\ CurrentRecursivityDepth <= 1
  /\ MutexLock = Nobody
  /\ WaitingList # <<>>
  /\ Holder' = Nobody
  /\ pThread' = Head(WaitingList)
  /\ WaitingList' = Tail(WaitingList)
  /\ MutexLock' = t
  /\ UNCHANGED CurrentRecursivityDepth

\* Mutant: the last waiter is served first.
HandOff_Lifo(t) ==
  /\ Goto(t, "own", "unblock")
  /\ CurrentRecursivityDepth <= 1
  /\ MutexLock = Nobody
  /\ WaitingList # <<>>
  /\ Holder' = WaitingList[Len(WaitingList)]
  /\ pThread' = WaitingList[Len(WaitingList)]
  /\ WaitingList' = SubSeq(WaitingList, 1, Len(WaitingList) - 1)
  /\ CurrentRecursivityDepth' = 1
  /\ MutexLock' = t

\* The first waiter becomes the holder; ThreadUnblock follows, under
\* MutexLock.
HandOff(t) ==
  /\ Goto(t, "own", "unblock")
  /\ CurrentRecursivityDepth <= 1
  /\ MutexLock = Nobody
  /\ WaitingList # <<>>
  /\ Holder' = Head(WaitingList)
  /\ pThread' = Head(WaitingList)
  /\ WaitingList' = Tail(WaitingList)
  /\ CurrentRecursivityDepth' = 1
  /\ MutexLock' = t

\* ThreadUnblock obtains the BlockLock once its thread is switched out and
\* makes it ready; MutexRelease then releases MutexLock.
Unblock(t) ==
  LET w == pThread IN
  /\ pc[t] = "unblock"
  /\ pc[w] = "blocked"
  /\ pc' = [pc EXCEPT ![t] = "out", ![w] = "woken"]
  /\ MutexLock' = Nobody
  /\ pThread' = Nobody
  /\ UNCHANGED <<Holder, CurrentRecursivityDepth, WaitingList>>

-----------------------------------------------------------------------------
\* The steps of a thread inside mutex.c.
KernelStep(t) ==
  \/ TakeFree(t)
  \/ WaitForOwner(t)
  \/ Block(t)
  \/ Recheck(t)
  \/ Unblock(t)

Release(t) == ReleaseRecursive(t) \/ ReleaseFree(t) \/ HandOff(t)

Next ==
  \E t \in Threads :
    \/ AcquireRecursive(t)
    \/ ReadHolder(t)
    \/ KernelStep(t)
    \/ Release(t)

Spec == Init /\ [][Next]_vars

\* Threads are scheduled, and a section under the mutex ends: a thread does
\* not stay at a nesting depth for ever, be it by entering and leaving deeper
\* sections (hence strong fairness).  Weak fairness is enough inside mutex.c
\* although MutexLock is a spinlock and favours nobody: while some thread
\* waits on the list the mutex is never free, so each other thread takes
\* MutexLock at most once before it waits on the list too.
FairSpec ==
  /\ Spec
  /\ \A t \in Threads :
       /\ WF_vars(KernelStep(t))
       /\ \A d \in 1 .. MaxRecursivityDepth :
            SF_vars(CurrentRecursivityDepth = d /\ Release(t))

-----------------------------------------------------------------------------
Waiting == Range(WaitingList)

\* The variables have their types.
TypeOK ==
  /\ Holder \in Threads \cup {Nobody}
  /\ CurrentRecursivityDepth \in 0 .. MaxRecursivityDepth
  /\ WaitingList \in Seq(Threads)
  /\ MutexLock \in Threads \cup {Nobody}
  /\ pThread \in Threads \cup {Nobody}
  /\ pc \in [Threads -> Locations]

\* One thread at a time is past MutexAcquire, and it is the one Holder names.
MutualExclusion ==
  \A t, u \in Threads :
    (pc[t] = "own" /\ pc[u] = "own") => t = u /\ Holder = t

\* A woken thread was made the holder before it was woken: the loop of
\* MutexAcquire never goes round again and nobody overtakes a woken thread.
WokenOwns == \A t \in Threads : pc[t] = "woken" => Holder = t

\* No waiter is lost: a thread that is switched out, or about to be, is on
\* the WaitingList, or is the one MutexRelease is waking.
NoLostWaiter ==
  \A t \in Threads :
    pc[t] \in {"linked", "blocked"} <=> t \in Waiting \/ t = pThread

\* Every thread is on the WaitingList at most once, the holder never; the
\* list is empty when the mutex is free.
ListSound ==
  /\ IsInjective(WaitingList)
  /\ Holder \notin Waiting
  /\ Holder = Nobody => WaitingList = <<>>

\* Holder is a thread that owns the mutex, or to which it was handed over.
HolderSound ==
  /\ \A t \in Threads :
       Holder = t <=> pc[t] \in {"own", "woken"} \/ t = pThread
  /\ MutexLock = Nobody <=> pThread = Nobody
  /\ \A t \in Threads : pc[t] = "unblock" <=> MutexLock = t
  /\ Holder # Nobody => CurrentRecursivityDepth >= 1

\* The inductive invariant.
MutexInv ==
  /\ TypeOK
  /\ NoLostWaiter
  /\ ListSound
  /\ HolderSound

\* A thread on the list gets the mutex, however many others keep asking,
\* provided owners release it.
WaiterServed ==
  \A t \in Threads : pc[t] = "linked" ~> pc[t] = "own"

\* The mutex implements the abstract lock: the holder and those behind it are
\* one queue, in order of arrival under MutexLock.
Fifo ==
  INSTANCE FifoLock WITH
    queue <- IF Holder = Nobody THEN <<>> ELSE <<Holder>> \o WaitingList,
    depth <- IF Holder = Nobody THEN 0 ELSE CurrentRecursivityDepth,
    MaxDepth <- MaxRecursivityDepth

\* Mutual exclusion in order of arrival, with recursion (FifoLock).
FifoSpec == Fifo!Spec
=============================================================================
