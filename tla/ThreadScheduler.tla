--------------------------- MODULE ThreadScheduler ---------------------------
(***************************************************************************)
(* The kernel scheduler of HAL9000 (thread.c): thread creation, yield,     *)
(* block, unblock, exit, forced termination, the switch to the next thread *)
(* and the clean-up that the next thread performs for the previous one.    *)
(*                                                                         *)
(* The actors are the CPUs.  pc[c] is where CPU c is in the code of        *)
(* thread.c, run by its current thread; outside it ("run") interrupts are  *)
(* enabled and the timer may preempt it.  The scheduler runs with          *)
(* interrupts off and its steps are separated exactly where another CPU    *)
(* can interfere: at the acquisition and release of ReadyThreadsLock and   *)
(* of the threads' BlockLocks.                                             *)
(*                                                                         *)
(* Who waits for what is the callers' business (mutex.c, ex_event.c).      *)
(* They all follow one protocol: under the lock of the object a thread     *)
(* links itself on the object's WaitingList and takes its BlockLock, then  *)
(* calls ThreadBlock; a waker unlinks it under the same lock and calls     *)
(* ThreadUnblock.  The variable waiters is the union of those lists.       *)
(*                                                                         *)
(* A failing ASSERT stops the kernel: the action it guards is disabled,    *)
(* and the assertion is an invariant below.                                *)
(***************************************************************************)
EXTENDS Integers, Sequences, Functions

CONSTANTS
  CPUs,       \* the processors
  Threads,    \* every THREAD structure, the idle threads included
  Idle,       \* Idle[c]: the idle thread of CPU c (ThreadData.IdleThread)
  Main,       \* Main[c]: the thread CPU c booted with
  Victims,    \* threads some other thread may ask to terminate
  Nobody      \* NULL, and the holder of a free lock

ASSUME ThreadsAssumption ==
  /\ Idle \in [CPUs -> Threads]
  /\ Main \in [CPUs -> Threads]
  /\ \A c, d \in CPUs : Idle[c] # Main[d]
  /\ \A c, d \in CPUs : c # d => Idle[c] # Idle[d] /\ Main[c] # Main[d]
  /\ Victims \subseteq Threads
  /\ Nobody \notin CPUs \cup Threads

VARIABLES
  State,              \* THREAD.State
  Flags,              \* THREAD.Flags
  BlockLock,          \* THREAD.BlockLock: the CPU that holds it
  ReferenceCount,     \* THREAD.RefCnt.ReferenceCount
  freed,              \* threads whose structure and stack were returned
  handles,            \* threads whose creator has not closed its handle
  ReadyThreadsList,   \* the ready queue
  ReadyThreadsLock,   \* the CPU that holds it
  CurrentThread,      \* ThreadData.CurrentThread: whose stack the CPU is on
  PreviousThread,     \* ThreadData.PreviousThread
  pc,                 \* where each CPU is
  next,               \* pNextThread of _ThreadSchedule
  target,             \* the argument of ThreadUnblock
  waiters             \* threads linked on some object's WaitingList

threadVars == <<State, Flags, BlockLock, ReferenceCount, freed, handles>>
cpuVars    == <<CurrentThread, PreviousThread, next, target>>
vars       == <<threadVars, ReadyThreadsList, ReadyThreadsLock, cpuVars, pc,
                waiters>>

\* THREAD_STATE, and the value of a structure not yet allocated.
ThreadStates == {"Unborn", "Running", "Ready", "Blocked", "Dying"}

\* THREAD_FLAG_FORCE_TERMINATE_PENDING and THREAD_FLAG_FORCE_TERMINATED.
Pending    == 1
Terminated == 2

Locations == { "run",        \* outside thread.c, or in the idle loop
               "block",      \* holds its BlockLock, about to ThreadBlock
               "schedule",   \* in _ThreadSchedule, wants ReadyThreadsLock
               "switch",     \* holds it and has chosen pNextThread
               "release",    \* on the stack of pNextThread
               "cleanup",    \* has released ReadyThreadsLock
               "unblock",    \* in ThreadUnblock, wants the BlockLock
               "enqueue",    \* holds it, wants ReadyThreadsLock
               "unlock",     \* has queued the thread
               "dying" }     \* in ThreadExit

Goto(c, from, to) ==
  /\ pc[c] = from
  /\ pc' = [pc EXCEPT ![c] = to]

IdleThreads == { Idle[c] : c \in CPUs }

\* Every CPU has run ThreadSystemInitMainForCurrentCPU and has created its
\* idle thread: the main thread executes, the idle thread is not queued.
Init ==
  /\ State = [t \in Threads |->
                IF \E c \in CPUs : t = Main[c] THEN "Running"
                ELSE IF t \in IdleThreads THEN "Ready" ELSE "Unborn"]
  /\ Flags = [t \in Threads |-> 0]
  /\ BlockLock = [t \in Threads |-> Nobody]
  /\ ReferenceCount = [t \in Threads |->
                         IF State[t] = "Unborn" THEN 0 ELSE 1]
  /\ freed = {}
  /\ handles = {}
  /\ ReadyThreadsList = <<>>
  /\ ReadyThreadsLock = Nobody
  /\ CurrentThread = Main
  /\ PreviousThread = [c \in CPUs |-> Nobody]
  /\ pc = [c \in CPUs |-> "run"]
  /\ next = [c \in CPUs |-> Nobody]
  /\ target = [c \in CPUs |-> Nobody]
  /\ waiters = {}

-----------------------------------------------------------------------------
(***************************************************************************)
(* Reference counts (ref_cnt.c).  _ThreadDestroy frees the stack and the   *)
(* structure.  Behind ASSERT("Object reference count reached -1").         *)
(***************************************************************************)
Dereference(t) ==
  /\ ReferenceCount[t] > 0
  /\ ReferenceCount' = [ReferenceCount EXCEPT ![t] = @ - 1]
  /\ freed' = IF ReferenceCount[t] = 1 THEN freed \cup {t} ELSE freed

\* ThreadCreate: _ThreadInit gives one reference, the handle the second; the
\* thread is made ready by ThreadUnblock.
ThreadCreate(c, t) ==
  /\ Goto(c, "run", "unblock")
  /\ State[t] = "Unborn"
  /\ State' = [State EXCEPT ![t] = "Blocked"]
  /\ ReferenceCount' = [ReferenceCount EXCEPT ![t] = 2]
  /\ handles' = handles \cup {t}
  /\ target' = [target EXCEPT ![c] = t]
  /\ UNCHANGED <<Flags, BlockLock, freed, ReadyThreadsList, ReadyThreadsLock,
                 CurrentThread, PreviousThread, next, waiters>>

ThreadCloseHandle(c, t) ==
  /\ pc[c] = "run"
  /\ t \in handles
  /\ handles' = handles \ {t}
  /\ Dereference(t)
  /\ UNCHANGED <<State, Flags, BlockLock, ReadyThreadsList, ReadyThreadsLock,
                 cpuVars, pc, waiters>>

\* _InterlockedOr of the pending bit.
ThreadTerminate(c, t) ==
  /\ pc[c] = "run"
  /\ t \in Victims \cap handles
  /\ Flags[t] \in {0, Terminated}
  /\ Flags' = [Flags EXCEPT ![t] = @ + Pending]
  /\ UNCHANGED <<State, BlockLock, ReferenceCount, freed, handles,
                 ReadyThreadsList, ReadyThreadsLock, cpuVars, pc, waiters>>

-----------------------------------------------------------------------------
(***************************************************************************)
(* Giving up the CPU                                                       *)
(***************************************************************************)

\* The entry of ThreadExit, reached voluntarily, or by _ThreadForcedExit
\* from ThreadYield and ThreadBlock.  A thread that was about to block gives
\* its BlockLock back; nothing unlinks it from the WaitingList it is on.
EnterExit(c, from, flags) ==
  LET t == CurrentThread[c] IN
  /\ Goto(c, from, "dying")
  /\ t \notin IdleThreads
  /\ Flags' = [Flags EXCEPT ![t] = flags]
  /\ BlockLock' = [BlockLock EXCEPT ![t] = IF @ = c THEN Nobody ELSE @]
  /\ UNCHANGED <<State, ReferenceCount, freed, handles, ReadyThreadsList,
                 ReadyThreadsLock, cpuVars, waiters>>

ThreadExit(c) == EnterExit(c, "run", Flags[CurrentThread[c]])

\* The test is for equality: a thread whose exit is already forced is not
\* forced again.
MustExit(t) == Flags[t] = Pending

ForcedExit(c) ==
  /\ MustExit(CurrentThread[c])
  /\ \E from \in {"run", "block"} : EnterExit(c, from, Pending + Terminated)

\* The last part of ThreadExit, then _ThreadSchedule.  The waiters of
\* TerminationEvt are woken like all others, by Wake, before this step; what
\* the event and the counters of the process hold is modelled in ExEvent and
\* ProcessLifetime.
Die(c) ==
  LET t == CurrentThread[c] IN
  /\ Goto(c, "dying", "schedule")
  /\ State' = [State EXCEPT ![t] = "Dying"]
  /\ PreviousThread' = [PreviousThread EXCEPT ![c] = t]
  /\ UNCHANGED <<Flags, BlockLock, ReferenceCount, freed, handles,
                 ReadyThreadsList, ReadyThreadsLock, CurrentThread, next,
                 target, waiters>>

\* ThreadYield, called by the thread or on return from the timer interrupt
\* (ThreadTick sets YieldOnInterruptReturn on every tick).
ThreadYield(c) ==
  LET t == CurrentThread[c] IN
  /\ Goto(c, "run", "schedule")
  /\ ~MustExit(t)
  /\ State' = [State EXCEPT ![t] = "Ready"]
  /\ PreviousThread' = [PreviousThread EXCEPT ![c] = t]
  /\ UNCHANGED <<Flags, BlockLock, ReferenceCount, freed, handles,
                 ReadyThreadsList, ReadyThreadsLock, CurrentThread, next,
                 target, waiters>>

\* Mutant: the waiter is linked before it owns its BlockLock.
ThreadTakeBlockLock_LinkOnly(c) ==
  LET t == CurrentThread[c] IN
  /\ Goto(c, "run", "block")
  /\ BlockLock[t] = Nobody
  /\ waiters' = IF t \in IdleThreads THEN waiters ELSE waiters \cup {t}
  /\ UNCHANGED <<threadVars, ReadyThreadsList, ReadyThreadsLock, cpuVars>>

\* A thread links itself on a WaitingList and takes its BlockLock, both under
\* the lock of the object (MutexAcquire, ExEventWaitForSignal): no waker sees
\* the one without the other.  The idle thread only takes the lock.
ThreadTakeBlockLock(c) ==
  LET t == CurrentThread[c] IN
  /\ Goto(c, "run", "block")
  /\ BlockLock[t] = Nobody
  /\ BlockLock' = [BlockLock EXCEPT ![t] = c]
  /\ waiters' = IF t \in IdleThreads THEN waiters ELSE waiters \cup {t}
  /\ UNCHANGED <<State, Flags, ReferenceCount, freed, handles,
                 ReadyThreadsList, ReadyThreadsLock, cpuVars>>

ThreadBlock(c) ==
  LET t == CurrentThread[c] IN
  /\ Goto(c, "block", "schedule")
  /\ ~MustExit(t)
  /\ State' = [State EXCEPT ![t] = "Blocked"]
  /\ PreviousThread' = [PreviousThread EXCEPT ![c] = t]
  /\ UNCHANGED <<Flags, BlockLock, ReferenceCount, freed, handles,
                 ReadyThreadsList, ReadyThreadsLock, CurrentThread, next,
                 target, waiters>>

-----------------------------------------------------------------------------
(***************************************************************************)
(* _ThreadSchedule, ThreadCleanupPostSchedule                              *)
(***************************************************************************)

\* _ThreadGetReadyThread: the head of the ready queue, else the idle thread.
Candidate(c) ==
  IF ReadyThreadsList = <<>> THEN Idle[c] ELSE Head(ReadyThreadsList)
Remaining ==
  IF ReadyThreadsList = <<>> THEN <<>> ELSE Tail(ReadyThreadsList)

\* Mutant: ReadyThreadsLock is released as soon as the queue is updated.
Pick_EarlyRelease(c) ==
  LET t == CurrentThread[c]
      stillReady == State[t] = "Ready"
      idleNext == Candidate(c) = Idle[c]
  IN
  /\ Goto(c, "schedule", "switch")
  /\ ReadyThreadsLock = Nobody
  /\ State[Candidate(c)] = "Ready" \/ idleNext
  /\ next' = [next EXCEPT ![c] =
                IF stillReady /\ idleNext THEN t ELSE Candidate(c)]
  /\ ReadyThreadsList' =
       IF stillReady /\ ~idleNext /\ t # Idle[c]
       THEN Append(Remaining, t) ELSE Remaining
  /\ UNCHANGED <<threadVars, ReadyThreadsLock, CurrentThread, PreviousThread,
                 target, waiters>>

\* Mutant: a thread that is still ready goes on whoever could replace it; the
\* thread taken from the queue is forgotten.
Pick_KeepsRunning(c) ==
  LET t == CurrentThread[c]
      stillReady == State[t] = "Ready"
  IN
  /\ Goto(c, "schedule", "switch")
  /\ ReadyThreadsLock = Nobody
  /\ ReadyThreadsLock' = c
  /\ next' = [next EXCEPT ![c] = IF stillReady THEN t ELSE Candidate(c)]
  /\ ReadyThreadsList' = Remaining
  /\ UNCHANGED <<threadVars, CurrentThread, PreviousThread, target, waiters>>

\* Under ReadyThreadsLock: choose the next thread; a thread that is still
\* ready goes on if only the idle thread could replace it, and is queued
\* otherwise (the idle thread never is).  Behind ASSERT(State == Ready).
Pick(c) ==
  LET t == CurrentThread[c]
      stillReady == State[t] = "Ready"
      idleNext == Candidate(c) = Idle[c]
  IN
  /\ Goto(c, "schedule", "switch")
  /\ ReadyThreadsLock = Nobody
  /\ State[Candidate(c)] = "Ready" \/ idleNext
  /\ ReadyThreadsLock' = c
  /\ next' = [next EXCEPT ![c] =
                IF stillReady /\ idleNext THEN t ELSE Candidate(c)]
  /\ ReadyThreadsList' =
       IF stillReady /\ ~idleNext /\ t # Idle[c]
       THEN Append(Remaining, t) ELSE Remaining
  /\ UNCHANGED <<threadVars, CurrentThread, PreviousThread, target, waiters>>

\* SetCurrentThread and ThreadSwitch; nothing if the thread goes on.
ThreadSwitch(c) ==
  /\ Goto(c, "switch", "release")
  /\ CurrentThread' = [CurrentThread EXCEPT ![c] = next[c]]
  /\ next' = [next EXCEPT ![c] = Nobody]
  /\ UNCHANGED <<threadVars, ReadyThreadsList, ReadyThreadsLock,
                 PreviousThread, target, waiters>>

ReleaseReadyLock(c) ==
  /\ Goto(c, "release", "cleanup")
  /\ ReadyThreadsLock' = Nobody
  /\ UNCHANGED <<threadVars, ReadyThreadsList, cpuVars, waiters>>

\* The previous thread blocked on this CPU: release its BlockLock.
ReleasePrevious(c) ==
  LET t == PreviousThread[c] IN
  /\ Goto(c, "cleanup", "run")
  /\ t # Nobody
  /\ BlockLock[t] = c
  /\ State[t] = "Blocked" \/ t = Idle[c]
  /\ BlockLock' = [BlockLock EXCEPT ![t] = Nobody]
  /\ UNCHANGED <<State, Flags, ReferenceCount, freed, handles,
                 ReadyThreadsList, ReadyThreadsLock, cpuVars, waiters>>

\* The previous thread is dying: drop the reference it had on itself.  State
\* is read after ReadyThreadsLock was released.
DropPrevious(c) ==
  LET t == PreviousThread[c] IN
  /\ Goto(c, "cleanup", "run")
  /\ t # Nobody
  /\ BlockLock[t] # c
  /\ State[t] = "Dying"
  /\ Dereference(t)
  /\ PreviousThread' = [PreviousThread EXCEPT ![c] = Nobody]
  /\ UNCHANGED <<State, Flags, BlockLock, handles, ReadyThreadsList,
                 ReadyThreadsLock, CurrentThread, next, target, waiters>>

\* Nothing to do for the previous thread.  If its memory was freed, what is
\* read there is arbitrary, and this is one of the outcomes.
KeepPrevious(c) ==
  LET t == PreviousThread[c] IN
  /\ Goto(c, "cleanup", "run")
  /\ \/ t = Nobody
     \/ t \in freed
     \/ BlockLock[t] # c /\ State[t] # "Dying"
  /\ UNCHANGED <<threadVars, ReadyThreadsList, ReadyThreadsLock, cpuVars,
                 waiters>>

-----------------------------------------------------------------------------
(***************************************************************************)
(* ThreadUnblock                                                           *)
(***************************************************************************)

\* A waker (MutexRelease, ExEventSignal) unlinks a waiter.
Wake(c, t) ==
  /\ Goto(c, "run", "unblock")
  /\ t \in waiters
  /\ waiters' = waiters \ {t}
  /\ target' = [target EXCEPT ![c] = t]
  /\ UNCHANGED <<threadVars, ReadyThreadsList, ReadyThreadsLock,
                 CurrentThread, PreviousThread, next>>

\* Behind ASSERT(ThreadStateBlocked == Thread->State).
LockTarget(c) ==
  LET t == target[c] IN
  /\ Goto(c, "unblock", "enqueue")
  /\ BlockLock[t] = Nobody
  /\ State[t] = "Blocked"
  /\ BlockLock' = [BlockLock EXCEPT ![t] = c]
  /\ State' = [State EXCEPT ![t] = "Ready"]
  /\ UNCHANGED <<Flags, ReferenceCount, freed, handles, ReadyThreadsList,
                 ReadyThreadsLock, cpuVars, waiters>>

\* ReadyThreadsLock is taken and released around the insertion.
EnqueueTarget(c) ==
  /\ Goto(c, "enqueue", "unlock")
  /\ ReadyThreadsLock = Nobody
  /\ ReadyThreadsList' = Append(ReadyThreadsList, target[c])
  /\ UNCHANGED <<threadVars, ReadyThreadsLock, cpuVars, waiters>>

UnlockTarget(c) ==
  LET t == target[c] IN
  /\ Goto(c, "unlock", "run")
  /\ BlockLock' = [BlockLock EXCEPT ![t] = Nobody]
  /\ target' = [target EXCEPT ![c] = Nobody]
  /\ UNCHANGED <<State, Flags, ReferenceCount, freed, handles,
                 ReadyThreadsList, ReadyThreadsLock, CurrentThread,
                 PreviousThread, next, waiters>>

-----------------------------------------------------------------------------
\* The steps of a CPU inside thread.c, where interrupts are off.
KernelStep(c) ==
  \/ ThreadBlock(c)
  \/ Die(c)
  \/ Pick(c)
  \/ ThreadSwitch(c)
  \/ ReleaseReadyLock(c)
  \/ ReleasePrevious(c)
  \/ DropPrevious(c)
  \/ KeepPrevious(c)
  \/ LockTarget(c)
  \/ EnqueueTarget(c)
  \/ UnlockTarget(c)

\* What the current thread may call.
Call(c) ==
  \/ ThreadYield(c)
  \/ ThreadTakeBlockLock(c)
  \/ ThreadExit(c)
  \/ ForcedExit(c)
  \/ \E t \in Threads : \/ ThreadCreate(c, t)
                        \/ ThreadCloseHandle(c, t)
                        \/ ThreadTerminate(c, t)
                        \/ Wake(c, t)

Next == \E c \in CPUs : KernelStep(c) \/ Call(c)

Spec == Init /\ [][Next]_vars

\* A CPU does not stop inside the scheduler, and the timer interrupt, once
\* pending, is taken the next time interrupts are enabled: a thread cannot
\* avoid the yield by entering and leaving the kernel.
FairSpec ==
  /\ Spec
  /\ \A c \in CPUs : /\ WF_vars(KernelStep(c) \/ ForcedExit(c))
                     /\ SF_vars(ThreadYield(c))

-----------------------------------------------------------------------------
\* The threads in the ready queue.
Queued == Range(ReadyThreadsList)

\* The variables have their types.
TypeOK ==
  /\ State \in [Threads -> ThreadStates]
  /\ Flags \in [Threads -> 0 .. 3]
  /\ BlockLock \in [Threads -> CPUs \cup {Nobody}]
  /\ ReferenceCount \in [Threads -> Nat]
  /\ freed \subseteq Threads
  /\ handles \subseteq Threads
  /\ ReadyThreadsList \in Seq(Threads)
  /\ ReadyThreadsLock \in CPUs \cup {Nobody}
  /\ CurrentThread \in [CPUs -> Threads]
  /\ PreviousThread \in [CPUs -> Threads \cup {Nobody}]
  /\ pc \in [CPUs -> Locations]
  /\ next \in [CPUs -> Threads \cup {Nobody}]
  /\ target \in [CPUs -> Threads \cup {Nobody}]
  /\ waiters \subseteq Threads

\* No two CPUs execute on the stack of the same thread: the reason for which
\* _ThreadSchedule keeps ReadyThreadsLock across ThreadSwitch.
StackExclusive ==
  \A c, d \in CPUs : c # d => CurrentThread[c] # CurrentThread[d]

\* The ready queue holds each thread once, only threads that are Ready, and
\* no thread some CPU is still executing, except the one that is giving up
\* its CPU under ReadyThreadsLock.  ReadyList links a thread on the ready
\* queue and on a WaitingList: it is never on both.
ReadyQueueSound ==
  /\ IsInjective(ReadyThreadsList)
  /\ \A t \in Queued :
       /\ State[t] = "Ready"
       /\ t \notin waiters \cup IdleThreads
       /\ \A c \in CPUs : CurrentThread[c] = t => pc[c] = "switch"

\* ASSERT(ThreadStateBlocked == Thread->State) of ThreadUnblock (thread.c)
\* holds whenever the waker gets the BlockLock of a thread that nobody told
\* to terminate.  A thread that ThreadBlock forces to exit is left on its
\* WaitingList, and its waker does run into the ASSERT.
UnblockAssert ==
  \A c \in CPUs :
    (pc[c] = "unblock" /\ BlockLock[target[c]] = Nobody /\ Flags[target[c]] = 0)
      => State[target[c]] = "Blocked"

\* The ASSERT of ThreadCleanupPostSchedule: a previous thread whose BlockLock
\* this CPU owns is blocked, or is the idle thread.
CleanupAssert ==
  \A c \in CPUs :
    (pc[c] = "cleanup" /\ PreviousThread[c] # Nobody) =>
      LET t == PreviousThread[c] IN
        BlockLock[t] = c => State[t] = "Blocked" \/ t = Idle[c]

\* "The thread may terminate at any time, but its data structure will not be
\* un-allocated until the handle receive in Thread is closed" (thread.h).
HandleKeepsThread == handles \cap freed = {}

\* A queued thread runs: the queue is a FIFO that every CPU serves at least
\* once per tick.
QueuedThreadRuns ==
  \A t \in Threads : t \in Queued ~> \E c \in CPUs : CurrentThread[c] = t

-----------------------------------------------------------------------------
(***************************************************************************)
(* The inductive invariant behind the properties above: who may touch a    *)
(* thread, and which lock lets it.                                         *)
(***************************************************************************)

\* A waker has unlinked t and has not queued it yet.
Woken(t) ==
  \E c \in CPUs : pc[c] \in {"unblock", "enqueue"} /\ target[c] = t

ReadyLockOwned ==
  \A c \in CPUs : pc[c] \in {"switch", "release"} <=> ReadyThreadsLock = c

\* A BlockLock belongs to the CPU that is blocking, has just blocked, or is
\* unblocking the thread.
BlockLockOwned ==
  /\ \A t \in Threads, c \in CPUs :
       BlockLock[t] = c =>
         \/ pc[c] = "block" /\ t = CurrentThread[c]
         \/ /\ pc[c] \in {"schedule", "switch", "release", "cleanup"}
            /\ t = PreviousThread[c]
            /\ State[t] = "Blocked"
         \/ pc[c] \in {"enqueue", "unlock"} /\ t = target[c]
  /\ \A c \in CPUs : pc[c] \in {"enqueue", "unlock"} =>
       target[c] \in Threads /\ BlockLock[target[c]] = c

\* Idle threads stay on their CPU and off every list.
IdleApart ==
  /\ \A c \in CPUs :
       /\ CurrentThread[c] \in IdleThreads => CurrentThread[c] = Idle[c]
       /\ next[c] \in IdleThreads => next[c] = Idle[c]
       /\ PreviousThread[c] \in IdleThreads => PreviousThread[c] = Idle[c]
  /\ \A t \in IdleThreads :
       /\ t \notin waiters
       /\ ~Woken(t)
       /\ State[t] \in {"Ready", "Blocked"}

\* What a CPU's own thread can be, by where the CPU is.
CurrentSound ==
  \A c \in CPUs : LET t == CurrentThread[c] IN
    /\ pc[c] = "block" => BlockLock[t] = c
    /\ pc[c] = "dying" => t \notin IdleThreads
    /\ pc[c] \in {"schedule", "switch"} =>
         /\ State[t] \in {"Ready", "Blocked", "Dying"}
         /\ PreviousThread[c] = t
         /\ State[t] = "Blocked" => BlockLock[t] = c
         /\ State[t] = "Ready" => t \notin waiters /\ ~Woken(t)
    /\ pc[c] \notin {"schedule", "switch"} /\ t \notin IdleThreads =>
         State[t] \in {"Running", "Ready"}
    /\ pc[c] \notin {"schedule", "switch", "block", "dying"} =>
         t \notin waiters /\ ~Woken(t)

\* The thread being switched to is in nobody else's hands.
NextSound ==
  \A c \in CPUs : pc[c] = "switch" => LET t == next[c] IN
    /\ t \in Threads
    /\ \A d \in CPUs \ {c} : CurrentThread[d] # t
    /\ t = CurrentThread[c] => State[t] = "Ready" \/ t = Idle[c]
    /\ t \notin Queued \cup waiters
    /\ ~Woken(t)
    /\ t \notin IdleThreads => State[t] = "Ready"

\* A woken thread is in one waker's hands, off the queue and the lists; once
\* its BlockLock was taken, no CPU runs it or is about to.
WokenSound ==
  \A c \in CPUs : pc[c] \in {"unblock", "enqueue"} => LET t == target[c] IN
    /\ t \in Threads
    /\ t \notin Queued \cup waiters
    /\ \A d \in CPUs : (d # c /\ pc[d] \in {"unblock", "enqueue"}) =>
                           target[d] # t
    /\ pc[c] = "unblock" => State[t] # "Unborn"
    /\ pc[c] = "enqueue" => /\ State[t] = "Ready"
                             /\ \A d \in CPUs : CurrentThread[d] # t

\* An unborn thread is nowhere.
UnbornApart ==
  \A t \in Threads :
    State[t] = "Unborn" => t \notin waiters \cup handles \cup freed

\* A thread that has not begun to die has its own reference and that of its
\* handle, and is not freed: whatever goes wrong with the references of dying
\* threads, no other thread loses its memory.
ReferencesSound ==
  \A t \in Threads : State[t] \notin {"Unborn", "Dying"} =>
    /\ t \notin freed
    /\ ReferenceCount[t] = IF t \in handles THEN 2 ELSE 1

\* The inductive invariant of the scheduler.
SchedulerInv ==
  /\ TypeOK
  /\ StackExclusive
  /\ ReadyQueueSound
  /\ ReadyLockOwned
  /\ BlockLockOwned
  /\ IdleApart
  /\ CurrentSound
  /\ NextSound
  /\ WokenSound
  /\ UnbornApart
  /\ ReferencesSound

=============================================================================
