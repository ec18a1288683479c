--------------------------- MODULE ProcessLifetime ---------------------------
(***************************************************************************)
(* The life of a user process (process.c, um_application.c and the calls   *)
(* thread.c makes to them): ProcessCreate, the threads that join and leave *)
(* the process, the termination event, the reference count that decides    *)
(* when the object is freed, and the process identifier, which is also the *)
(* tag (PCID) under which CPUs cache the address translations of the       *)
(* process.                                                                *)
(*                                                                         *)
(* The actors are kernel threads that create a process and later close its *)
(* handle, the threads of the processes, and whoever drops the last        *)
(* reference of a thread or process and so runs its destructor.  A thread  *)
(* of a process runs on any CPU; how it is chosen is ThreadScheduler's     *)
(* matter.  System calls are not implemented in this kernel, so a process  *)
(* has one thread today; Spawns adds callers of ThreadCreateEx for the     *)
(* process of the calling thread, which that function provides for.        *)
(* Threads are killed only between calls into the kernel.                  *)
(***************************************************************************)
EXTENDS Integers, FiniteSets, FiniteSetsExt

CONSTANTS
  Processes,     \* process objects, each allocated at most once
  Threads,       \* thread objects, each allocated at most once
  Creators,      \* kernel threads that call ProcessCreate, once each
  CPUs,
  MaxPid,        \* PCID_TOTAL_NO_OF_VALUES - 1
  Spawns,        \* whether threads create siblings
  SetupFails,    \* whether the user stack of a thread may not be allocated
  None

SystemPid == 1   \* the System process takes the first identifier after 0

ASSUME ProcessLifetimeAssumption ==
  /\ MaxPid \in Nat /\ MaxPid > SystemPid
  /\ {Spawns, SetupFails} \subseteq BOOLEAN
  /\ None \notin Processes \union Threads
  /\ IsFiniteSet(Threads) /\ IsFiniteSet(Creators)
  /\ Threads \intersect Creators = {}

VARIABLES
  state,           \* where each process object is in its life
  RefCnt,          \* PROCESS.RefCnt
  Id,              \* PROCESS.Id
  ThreadList,      \* PROCESS.ThreadList
  NumberOfThreads, ActiveThreads,
  TerminationEvt,  \* whether it is signalled
  TerminationStatus, \* the thread whose ExitStatus was stored
  thread,          \* where each thread is in its life
  threadRefs,      \* THREAD.RefCnt
  owner,           \* THREAD.Process
  killed,          \* THREAD_FLAG_FORCE_TERMINATE_PENDING
  pc,              \* where each caller of the functions below is
  child,           \* pThread in ThreadCreateEx and UmApplicationRun
  process,         \* pProcess in ProcessCreate, then the handle
  PidBitmap,       \* the identifiers in use
  ProcessList,
  tlb              \* tlb[c]: <<tag, process translated for>> cached by CPU c

procVars   == <<state, RefCnt, Id, ThreadList, NumberOfThreads, ActiveThreads,
                TerminationEvt, TerminationStatus>>
threadVars == <<thread, threadRefs, owner, killed>>
callVars   == <<pc, child, process>>
vars       == <<procVars, threadVars, callVars, PidBitmap, ProcessList, tlb>>

Actors == Creators \union Threads

(* The order of a destructor: _ProcessDestroy, _ThreadDestroy.             *)
Numbered    == {"live", "destroy", "unlisted", "flushed"}
Destroying  == {"destroy", "unlisted", "flushed", "unnumbered"}

Init ==
  /\ state = [p \in Processes |-> "none"]
  /\ RefCnt = [p \in Processes |-> 0]
  /\ Id = [p \in Processes |-> 0]
  /\ ThreadList = [p \in Processes |-> {}]
  /\ NumberOfThreads = [p \in Processes |-> 0]
  /\ ActiveThreads = [p \in Processes |-> 0]
  /\ TerminationEvt = [p \in Processes |-> FALSE]
  /\ TerminationStatus = [p \in Processes |-> None]
  /\ thread = [t \in Threads |-> "none"]
  /\ threadRefs = [t \in Threads |-> 0]
  /\ owner = [t \in Threads |-> None]
  /\ killed = [t \in Threads |-> FALSE]
  /\ pc = [a \in Actors |-> "start"]
  /\ child = [a \in Actors |-> None]
  /\ process = [c \in Creators |-> None]
  /\ PidBitmap = {0, SystemPid}
  /\ ProcessList = {}
  /\ tlb = [c \in CPUs |-> {}]

(***************************************************************************)
(* Reference counts.  A count that reaches zero starts the destructor.     *)
(***************************************************************************)
_ProcessReference(p) == RefCnt' = [RefCnt EXCEPT ![p] = @ + 1]

_ProcessDereference(p) ==
  /\ RefCnt' = [RefCnt EXCEPT ![p] = @ - 1]
  /\ state' = IF RefCnt[p] = 1 THEN [state EXCEPT ![p] = "destroy"] ELSE state

\* ThreadListLock is held over one atomic step, or until LockRelease in
\* ProcessRemoveThreadFromList.
ThreadListLockFree(p) ==
  \A t \in Threads : owner[t] = p => thread[t] \notin {"unlock", "unlockLast"}

(***************************************************************************)
(* ProcessCreate.                                                          *)
(***************************************************************************)

\* _ProcessInit: the object with one reference, the first free identifier,
\* the global list.
_ProcessInit(c) ==
  /\ pc[c] = "start"
  /\ 0 .. MaxPid \ PidBitmap # {}     \* ASSERT(PCID_IS_VALID(idx))
  /\ \E p \in Processes :
       LET pid == Min(0 .. MaxPid \ PidBitmap) IN
       /\ state[p] = "none"
       /\ state' = [state EXCEPT ![p] = "live"]
       /\ RefCnt' = [RefCnt EXCEPT ![p] = 1]
       /\ Id' = [Id EXCEPT ![p] = pid]
       /\ PidBitmap' = PidBitmap \union {pid}
       /\ ProcessList' = ProcessList \union {p}
       /\ process' = [process EXCEPT ![c] = p]
  /\ pc' = [pc EXCEPT ![c] = "load"]
  /\ UNCHANGED <<ThreadList, NumberOfThreads, ActiveThreads, TerminationEvt,
                 TerminationStatus, threadVars, child, tlb>>

\* An allocation of _ProcessInit fails: the half-built object has neither
\* an identifier nor a place in a list, and is freed.
_ProcessInitFails(c) ==
  /\ pc[c] = "start"
  /\ pc' = [pc EXCEPT ![c] = "failed"]
  /\ UNCHANGED <<procVars, threadVars, child, process, PidBitmap, ProcessList, tlb>>

\* The __finally block on failure.
ProcessCreateFails(c) ==
  /\ _ProcessDereference(process[c])
  /\ pc' = [pc EXCEPT ![c] = "failed"]
  /\ UNCHANGED <<Id, ThreadList, NumberOfThreads, ActiveThreads, TerminationEvt,
                 TerminationStatus, threadVars, child, process, PidBitmap,
                 ProcessList, tlb>>

\* UmApplicationRetrieveHeader, MmuCreateAddressSpaceForProcess and
\* MmuLoadPe, and _ThreadInit: they fail, or leave the objects here alone.
LoadApplication(c) ==
  /\ pc[c] = "load"
  /\ \/ /\ pc' = [pc EXCEPT ![c] = "create"]
        /\ UNCHANGED <<procVars, threadVars, child, process, PidBitmap, ProcessList, tlb>>
     \/ ProcessCreateFails(c)

\* Under ThreadListLock.
ProcessInsertThreadInList(p, t) ==
  /\ ThreadListLockFree(p)
  /\ owner' = [owner EXCEPT ![t] = p]
  /\ NumberOfThreads' = [NumberOfThreads EXCEPT ![p] = @ + 1]
  /\ ActiveThreads' = [ActiveThreads EXCEPT ![p] = @ + 1]
  /\ ThreadList' = [ThreadList EXCEPT ![p] = @ \union {t}]
  /\ _ProcessReference(p)

\* The process a caller of ThreadCreateEx names.
TargetProcess(a) == IF a \in Creators THEN process[a] ELSE owner[a]

MayCreateThread(a) ==
  IF a \in Creators THEN pc[a] = "create"
                    ELSE Spawns /\ thread[a] = "running" /\ pc[a] = "start"

\* ThreadCreateEx, up to _ThreadReference: one reference is the thread's
\* own, the other the handle of its creator.
ThreadCreateEx(a) ==
  /\ MayCreateThread(a)
  /\ \E t \in Threads :
       /\ thread[t] = "none"
       /\ thread' = [thread EXCEPT ![t] = "setup"]
       /\ threadRefs' = [threadRefs EXCEPT ![t] = 2]
       /\ child' = [child EXCEPT ![a] = t]
       /\ ProcessInsertThreadInList(TargetProcess(a), t)
  /\ pc' = [pc EXCEPT ![a] = "setup"]
  /\ UNCHANGED <<state, Id, TerminationEvt, TerminationStatus, killed, process,
                 PidBitmap, ProcessList, tlb>>

\* The rest of ThreadCreateEx, up to ThreadUnblock.
SetupThread(a) ==
  /\ pc[a] = "setup"
  /\ thread' = [thread EXCEPT ![child[a]] = "running"]
  /\ pc' = [pc EXCEPT ![a] = "close"]
  /\ UNCHANGED <<procVars, threadRefs, owner, killed, child, process, PidBitmap,
                 ProcessList, tlb>>

\* MmuAllocStack fails: ThreadCreateEx returns without storing the thread
\* or undoing the insertion, so its caller has no handle to close.
SetupThreadFails(a) ==
  /\ SetupFails
  /\ pc[a] = "setup"
  /\ IF a \in Creators
     THEN ProcessCreateFails(a)
     ELSE /\ pc' = [pc EXCEPT ![a] = "start"]
          /\ UNCHANGED <<procVars, threadVars, child, process, PidBitmap,
                         ProcessList, tlb>>

\* What the caller of ThreadCreateEx does next: ProcessCreate takes the
\* reference of the handle it returns, a sibling goes on.
AfterClose(a) == IF a \in Creators THEN "reference" ELSE "start"

\* ThreadCloseHandle, in UmApplicationRun.  If the thread is already dead
\* this is the last reference and the caller destroys it.
ThreadCloseHandle(a) ==
  /\ pc[a] = "close"
  /\ LET t == child[a] IN
     /\ threadRefs' = [threadRefs EXCEPT ![t] = @ - 1]
     /\ IF threadRefs[t] = 1
        THEN /\ thread' = [thread EXCEPT ![t] = "destroy"]
             /\ pc' = [pc EXCEPT ![a] = "destroying"]
        ELSE /\ pc' = [pc EXCEPT ![a] = AfterClose(a)]
             /\ UNCHANGED thread
  /\ UNCHANGED <<procVars, owner, killed, child, process, PidBitmap,
                 ProcessList, tlb>>

ThreadDestroyed(a) ==
  /\ pc[a] = "destroying"
  /\ thread[child[a]] = "freed"
  /\ pc' = [pc EXCEPT ![a] = AfterClose(a)]
  /\ UNCHANGED <<procVars, threadVars, child, process, PidBitmap, ProcessList, tlb>>

\* The end of ProcessCreate: the reference of the handle.
ReferenceHandle(c) ==
  /\ pc[c] = "reference"
  /\ state[process[c]] = "live"
  /\ _ProcessReference(process[c])
  /\ pc' = [pc EXCEPT ![c] = "open"]
  /\ UNCHANGED <<state, Id, ThreadList, NumberOfThreads, ActiveThreads,
                 TerminationEvt, TerminationStatus, threadVars, child, process,
                 PidBitmap, ProcessList, tlb>>

\* The object is no longer there: what the caller does with the pointer is
\* not followed further.
ReferenceFreedProcess(c) ==
  /\ pc[c] = "reference"
  /\ state[process[c]] # "live"
  /\ pc' = [pc EXCEPT ![c] = "wild"]
  /\ UNCHANGED <<procVars, threadVars, child, process, PidBitmap, ProcessList, tlb>>

(***************************************************************************)
(* The holder of a handle.                                                 *)
(***************************************************************************)

\* ProcessTerminate by a thread of another process, under ThreadListLock.
ProcessTerminate(c) ==
  /\ pc[c] = "open"
  /\ ThreadListLockFree(process[c])
  /\ killed' = [t \in Threads |-> killed[t] \/ t \in ThreadList[process[c]]]
  /\ pc' = [pc EXCEPT ![c] = "wait"]
  /\ UNCHANGED <<procVars, thread, threadRefs, owner, child, process, PidBitmap,
                 ProcessList, tlb>>

\* TerminationEvt is a notification event.
ProcessWaitForTermination(c) ==
  /\ pc[c] \in {"open", "wait"}
  /\ TerminationEvt[process[c]]
  /\ pc' = [pc EXCEPT ![c] = "waited"]
  /\ UNCHANGED <<procVars, threadVars, child, process, PidBitmap, ProcessList, tlb>>

ProcessCloseHandle(c) ==
  /\ pc[c] \in {"open", "waited"}
  /\ _ProcessDereference(process[c])
  /\ pc' = [pc EXCEPT ![c] = "closed"]
  /\ UNCHANGED <<Id, ThreadList, NumberOfThreads, ActiveThreads, TerminationEvt,
                 TerminationStatus, threadVars, child, process, PidBitmap,
                 ProcessList, tlb>>

(***************************************************************************)
(* The threads of a process.                                               *)
(***************************************************************************)

\* Thread t executes on CPU c, which caches translations under the tag.
Execute(t, c) ==
  /\ thread[t] = "running"
  /\ tlb' = [tlb EXCEPT ![c] = @ \union {<<Id[owner[t]], owner[t]>>}]
  /\ UNCHANGED <<procVars, threadVars, callVars, PidBitmap, ProcessList>>

\* ThreadExit, by its own will or forced.
ThreadExit(t) ==
  /\ thread[t] = "running"
  /\ pc[t] = "start"
  /\ thread' = [thread EXCEPT ![t] = "exiting"]
  /\ UNCHANGED <<procVars, threadRefs, owner, killed, callVars, PidBitmap,
                 ProcessList, tlb>>

\* ProcessTerminate by a thread of the process itself: the others are
\* flagged, then it exits.
ProcessTerminateSelf(t) ==
  /\ thread[t] = "running"
  /\ pc[t] = "start"
  /\ ThreadListLockFree(owner[t])
  /\ killed' = [u \in Threads |->
                  killed[u] \/ u \in ThreadList[owner[t]] \ {t}]
  /\ thread' = [thread EXCEPT ![t] = "exiting"]
  /\ UNCHANGED <<procVars, threadRefs, owner, callVars, PidBitmap, ProcessList, tlb>>

(* Mutant: the termination of the last but one thread is taken for the last. *)
NotifyDecrement_OffByOne(t) ==
  /\ thread[t] = "exiting"
  /\ ActiveThreads' = [ActiveThreads EXCEPT ![owner[t]] = @ - 1]
  /\ thread' = [thread EXCEPT ![t] = IF ActiveThreads[owner[t]] <= 2
                                     THEN "status" ELSE "dying"]
  /\ UNCHANGED <<state, RefCnt, Id, ThreadList, NumberOfThreads, TerminationEvt,
                 TerminationStatus, threadRefs, owner, killed, callVars,
                 PidBitmap, ProcessList, tlb>>

\* ProcessNotifyThreadTermination: the interlocked decrement.
NotifyDecrement(t) ==
  /\ thread[t] = "exiting"
  /\ ActiveThreads' = [ActiveThreads EXCEPT ![owner[t]] = @ - 1]
  /\ thread' = [thread EXCEPT ![t] = IF ActiveThreads[owner[t]] = 1
                                     THEN "status" ELSE "dying"]
  /\ UNCHANGED <<state, RefCnt, Id, ThreadList, NumberOfThreads, TerminationEvt,
                 TerminationStatus, threadRefs, owner, killed, callVars,
                 PidBitmap, ProcessList, tlb>>

\* Then, if it was the last one, the status and the event.
NotifyStatus(t) ==
  /\ thread[t] = "status"
  /\ TerminationStatus' = [TerminationStatus EXCEPT ![owner[t]] = t]
  /\ thread' = [thread EXCEPT ![t] = "signal"]
  /\ UNCHANGED <<state, RefCnt, Id, ThreadList, NumberOfThreads, ActiveThreads,
                 TerminationEvt, threadRefs, owner, killed, callVars, PidBitmap,
                 ProcessList, tlb>>

NotifySignal(t) ==
  /\ thread[t] = "signal"
  /\ TerminationEvt' = [TerminationEvt EXCEPT ![owner[t]] = TRUE]
  /\ thread' = [thread EXCEPT ![t] = "dying"]
  /\ UNCHANGED <<state, RefCnt, Id, ThreadList, NumberOfThreads, ActiveThreads,
                 TerminationStatus, threadRefs, owner, killed, callVars,
                 PidBitmap, ProcessList, tlb>>

\* ThreadCleanupPostSchedule of the thread that runs next drops the
\* reference the dying thread had on itself.
ThreadCleanupPostSchedule(t) ==
  /\ thread[t] = "dying"
  /\ threadRefs' = [threadRefs EXCEPT ![t] = @ - 1]
  /\ thread' = [thread EXCEPT ![t] = IF threadRefs[t] = 1 THEN "destroy" ELSE "dead"]
  /\ UNCHANGED <<procVars, owner, killed, callVars, PidBitmap, ProcessList, tlb>>

(***************************************************************************)
(* _ThreadDestroy and ProcessRemoveThreadFromList.                         *)
(***************************************************************************)

(* Mutant: the thread list is left before the reference is dropped, and    *)
(* whether it was the last is read again afterwards.                       *)
RemoveThread_LateCount(t) ==
  /\ thread[t] = "destroy"
  /\ LET p == owner[t] IN
     /\ ThreadListLockFree(p)
     /\ NumberOfThreads' = [NumberOfThreads EXCEPT ![p] = @ - 1]
     /\ ThreadList' = [ThreadList EXCEPT ![p] = @ \ {t}]
     /\ _ProcessDereference(p)
     /\ thread' = [thread EXCEPT ![t] = "unlockLast"]
  /\ UNCHANGED <<Id, ActiveThreads, TerminationEvt, TerminationStatus,
                 threadRefs, owner, killed, callVars, PidBitmap, ProcessList, tlb>>

(* Mutant: the reference taken by ProcessInsertThreadInList is not dropped. *)
RemoveThread_NoDereference(t) ==
  /\ thread[t] = "destroy"
  /\ LET p == owner[t] IN
     /\ ThreadListLockFree(p)
     /\ NumberOfThreads' = [NumberOfThreads EXCEPT ![p] = @ - 1]
     /\ ThreadList' = [ThreadList EXCEPT ![p] = @ \ {t}]
     /\ UNCHANGED <<state, RefCnt>>
     /\ thread' = [thread EXCEPT ![t] = IF NumberOfThreads[p] = 1
                                        THEN "unlockLast" ELSE "unlock"]
  /\ UNCHANGED <<Id, ActiveThreads, TerminationEvt, TerminationStatus,
                 threadRefs, owner, killed, callVars, PidBitmap, ProcessList, tlb>>

\* MmuFreeStack in the address space of the process; then, with
\* ThreadListLock held, the thread leaves the list and drops its reference.
RemoveThread(t) ==
  /\ thread[t] = "destroy"
  /\ LET p == owner[t] IN
     /\ ThreadListLockFree(p)
     /\ NumberOfThreads' = [NumberOfThreads EXCEPT ![p] = @ - 1]
     /\ ThreadList' = [ThreadList EXCEPT ![p] = @ \ {t}]
     /\ _ProcessDereference(p)
     /\ thread' = [thread EXCEPT ![t] = IF NumberOfThreads[p] = 1
                                        THEN "unlockLast" ELSE "unlock"]
  /\ UNCHANGED <<Id, ActiveThreads, TerminationEvt, TerminationStatus,
                 threadRefs, owner, killed, callVars, PidBitmap, ProcessList, tlb>>

\* LockRelease of the lock inside the process just dereferenced.
ReleaseThreadListLock(t) ==
  /\ thread[t] \in {"unlock", "unlockLast"}
  /\ thread' = [thread EXCEPT ![t] = IF @ = "unlockLast" THEN "last" ELSE "tail"]
  /\ UNCHANGED <<procVars, threadRefs, owner, killed, callVars, PidBitmap,
                 ProcessList, tlb>>

\* The last thread drops the reference of _ProcessInit.
DereferenceLast(t) ==
  /\ thread[t] = "last"
  /\ _ProcessDereference(owner[t])
  /\ thread' = [thread EXCEPT ![t] = "tail"]
  /\ UNCHANGED <<Id, ThreadList, NumberOfThreads, ActiveThreads, TerminationEvt,
                 TerminationStatus, threadRefs, owner, killed, callVars,
                 PidBitmap, ProcessList, tlb>>

\* The thread is freed after the destructor of its process, if it ran it.
FreeThread(t) ==
  /\ thread[t] = "tail"
  /\ state[owner[t]] \notin Destroying
  /\ thread' = [thread EXCEPT ![t] = "freed"]
  /\ UNCHANGED <<procVars, threadRefs, owner, killed, callVars, PidBitmap,
                 ProcessList, tlb>>

(***************************************************************************)
(* _ProcessDestroy, run by whoever dropped the last reference.             *)
(***************************************************************************)

Step(p, from, to) ==
  /\ state[p] = from
  /\ state' = [state EXCEPT ![p] = to]
  /\ UNCHANGED <<RefCnt, Id, ThreadList, NumberOfThreads, ActiveThreads,
                 TerminationEvt, TerminationStatus, threadVars, callVars>>

RemoveFromProcessList(p) ==
  /\ Step(p, "destroy", "unlisted")
  /\ ProcessList' = ProcessList \ {p}
  /\ UNCHANGED <<PidBitmap, tlb>>

(* Mutant: the translations cached for the process are not invalidated. *)
DestroyAddressSpace_NoInvalidate(p, c) ==
  /\ Step(p, "unlisted", "flushed")
  /\ UNCHANGED <<PidBitmap, ProcessList, tlb>>

\* MmuDestroyAddressSpaceForProcess on CPU c: CR3 is written with the tag
\* and the invalidating form, which drops what this CPU has cached for it.
DestroyAddressSpace(p, c) ==
  /\ Step(p, "unlisted", "flushed")
  /\ tlb' = [tlb EXCEPT ![c] = {e \in @ : e[1] # Id[p]}]
  /\ UNCHANGED <<PidBitmap, ProcessList>>

\* Only now may another process be given the identifier.
_ProcessSystemFreePid(p) ==
  /\ Step(p, "flushed", "unnumbered")
  /\ PidBitmap' = PidBitmap \ {Id[p]}
  /\ UNCHANGED <<ProcessList, tlb>>

FreeProcess(p) ==
  /\ Step(p, "unnumbered", "freed")
  /\ UNCHANGED <<PidBitmap, ProcessList, tlb>>

CreatorStep(c) ==
  \/ _ProcessInit(c)
  \/ _ProcessInitFails(c)
  \/ LoadApplication(c)
  \/ ReferenceHandle(c)
  \/ ReferenceFreedProcess(c)
  \/ ProcessTerminate(c)
  \/ ProcessWaitForTermination(c)
  \/ ProcessCloseHandle(c)

\* The rest of a call of ThreadCreateEx and ThreadCloseHandle.
CallReturns(a) ==
  \/ SetupThread(a)
  \/ SetupThreadFails(a)
  \/ ThreadCloseHandle(a)
  \/ ThreadDestroyed(a)

\* What a thread that exits, or the CPU it ran on, does without waiting.
ExitStep(t) ==
  \/ NotifyDecrement(t)
  \/ NotifyStatus(t)
  \/ NotifySignal(t)
  \/ ThreadCleanupPostSchedule(t)
  \/ RemoveThread(t)
  \/ ReleaseThreadListLock(t)
  \/ DereferenceLast(t)
  \/ FreeThread(t)

DestroyStep(p) ==
  \/ RemoveFromProcessList(p)
  \/ \E c \in CPUs : DestroyAddressSpace(p, c)
  \/ _ProcessSystemFreePid(p)
  \/ FreeProcess(p)

Next ==
  \/ \E c \in Creators : CreatorStep(c)
  \/ \E a \in Actors : ThreadCreateEx(a) \/ CallReturns(a)
  \/ \E t \in Threads : \/ ExitStep(t)
                        \/ ThreadExit(t)
                        \/ ProcessTerminateSelf(t)
                        \/ \E c \in CPUs : Execute(t, c)
  \/ \E p \in Processes : DestroyStep(p)

Spec == Init /\ [][Next]_vars

(***************************************************************************)
(* Properties.                                                             *)
(***************************************************************************)

ProcessStates == {"none", "live", "freed"} \union Destroying
ThreadStates == {"none", "setup", "running", "exiting", "status", "signal", "dying",
                 "dead", "destroy", "unlock", "unlockLast", "last", "tail", "freed"}

\* The state of processes, threads and creators.
TypeOK ==
  /\ state \in [Processes -> ProcessStates]
  /\ RefCnt \in [Processes -> Nat]
  /\ Id \in [Processes -> 0 .. MaxPid]
  /\ ThreadList \in [Processes -> SUBSET Threads]
  /\ NumberOfThreads \in [Processes -> Nat]
  /\ ActiveThreads \in [Processes -> Nat]
  /\ TerminationEvt \in [Processes -> BOOLEAN]
  /\ TerminationStatus \in [Processes -> Threads \union {None}]
  /\ thread \in [Threads -> ThreadStates]
  /\ threadRefs \in [Threads -> 0 .. 2]
  /\ owner \in [Threads -> Processes \union {None}]
  /\ killed \in [Threads -> BOOLEAN]
  /\ child \in [Actors -> Threads \union {None}]
  /\ process \in [Creators -> Processes \union {None}]
  /\ PidBitmap \subseteq 0 .. MaxPid
  /\ ProcessList \subseteq Processes
  /\ tlb \in [CPUs -> SUBSET ((0 .. MaxPid) \X Processes)]

Handles(p) ==
  {c \in Creators : process[c] = p /\ pc[c] \in {"open", "wait", "waited"}}

\* Who owes the reference _ProcessInit gave the object: its creator until
\* the first thread is inserted, then the last thread to be removed.  A
\* ProcessCreate that fails has dropped it.
InitialReferenceHeld(p) ==
  /\ \A c \in Creators : process[c] = p => pc[c] # "failed"
  /\ \/ ThreadList[p] # {}
     \/ \E c \in Creators : process[c] = p /\ pc[c] \in {"load", "create"}
     \/ \E t \in Threads : owner[t] = p /\ thread[t] \in {"unlockLast", "last"}

\* The reference count of a process is the number of its threads not yet
\* destroyed, plus one per open handle, plus the initial reference: none is
\* dropped twice by ProcessRemoveThreadFromList and none is forgotten.
ReferencesExact ==
  \A p \in Processes :
    RefCnt[p] = Cardinality(ThreadList[p]) + Cardinality(Handles(p))
                + (IF InitialReferenceHeld(p) THEN 1 ELSE 0)

\* Whoever is about to use a process finds it alive: a thread up to the
\* release of ThreadListLock and the last dereference in
\* ProcessRemoveThreadFromList, a creator that builds the process or has
\* its handle.
UsersFindProcess ==
  /\ \A t \in Threads : thread[t] \notin {"none", "tail", "freed"} =>
                           state[owner[t]] = "live"
  /\ \A c \in Creators :
       pc[c] \in {"load", "create", "setup", "open", "wait", "waited"} =>
          state[process[c]] = "live"

\* NumberOfThreads counts the threads not destroyed and ActiveThreads those
\* that have not yet announced their end, whatever creations, exits and
\* destructions overlap.
CountsMatch ==
  \A p \in Processes :
    /\ NumberOfThreads[p] = Cardinality(ThreadList[p])
    /\ ActiveThreads[p] =
         Cardinality({t \in ThreadList[p] : thread[t] \in {"setup", "running", "exiting"}})

\* The three counters of a process, which decide when it has terminated and
\* when it is freed, are exact.
CountersExact == ReferencesExact /\ CountsMatch

\* When TerminationEvt is signalled the status is that of a thread of the
\* process, and no thread of it runs any more or ever will: a waiter of
\* ProcessWaitForTermination reads a final value.
TerminationIsFinal ==
  \A p \in Processes : TerminationEvt[p] =>
    /\ TerminationStatus[p] \in {t \in Threads : owner[t] = p}
    /\ \A t \in Threads :
         owner[t] = p => thread[t] \notin {"none", "setup", "running", "exiting"}

\* PidBitmap and ProcessList hold what the living processes need and no
\* more: two processes never share an identifier, none is lost by a failed
\* or finished process, and the list has no process whose fields are freed.
TablesExact ==
  /\ \A p, q \in Processes :
       p # q /\ {state[p], state[q]} \subseteq Numbered => Id[p] # Id[q]
  /\ PidBitmap = {0, SystemPid} \union {Id[p] : p \in {q \in Processes : state[q] \in Numbered}}
  /\ ProcessList = {p \in Processes : state[p] \in {"live", "destroy"}}

\* No CPU has cached translations of one process under the identifier that
\* another process now has: _ProcessDestroy frees the identifier only after
\* all cached translations for it are destroyed.
NoStaleTranslations ==
  \A c \in CPUs : \A p \in Processes :
    state[p] = "live" => \A e \in tlb[c] : e[1] = Id[p] => e[2] = p

\* The process ProcessCreate is about to reference and return is still
\* there, even if its threads have terminated.
CreatedProcessValid ==
  \A c \in Creators : pc[c] = "reference" => state[process[c]] = "live"
=============================================================================
