------------------------ MODULE ProcessLifetimeProofs ------------------------
(***************************************************************************)
(* The counters of a process, the life of its object and the tables of     *)
(* identifiers, for any number of processes, threads and creators.         *)
(*                                                                         *)
(* The invariant is proved in layers.  Structure says where threads,       *)
(* creators and handles are, without counting: who owns a thread, that two *)
(* callers never work on one thread, and what a creator that failed leaves *)
(* behind.  Counting adds the counters and who owes the initial reference, *)
(* Ending what the termination event stands for, and Tables the            *)
(* identifiers.  A layer uses the earlier ones in both states of a step.   *)
(***************************************************************************)
EXTENDS ProcessLifetime, DataFacts, FiniteSetTheorems, TLAPS

(***************************************************************************)
(* Structure.                                                              *)
(***************************************************************************)

Listed == {"setup", "running", "exiting", "status", "signal", "dying", "dead", "destroy"}
Alive == {"running", "exiting", "status", "signal", "dying"}
Executing == {"setup", "running", "exiting"}
Open == {"open", "wait", "waited"}

CreatorLocations ==
  {"start", "load", "create", "setup", "close", "destroying", "reference", "wild",
   "open", "wait", "waited", "closed", "failed"}
ThreadLocations == {"start", "setup", "close", "destroying"}

\* The variables without the counters, whose signs need Counting.
Types ==
  /\ state \in [Processes -> ProcessStates]
  /\ RefCnt \in [Processes -> Int]
  /\ ThreadList \in [Processes -> SUBSET Threads]
  /\ NumberOfThreads \in [Processes -> Int]
  /\ ActiveThreads \in [Processes -> Int]
  /\ TerminationEvt \in [Processes -> BOOLEAN]
  /\ TerminationStatus \in [Processes -> Threads \union {None}]
  /\ thread \in [Threads -> ThreadStates]
  /\ threadRefs \in [Threads -> 0 .. 2]
  /\ owner \in [Threads -> Processes \union {None}]
  /\ killed \in [Threads -> BOOLEAN]
  /\ child \in [Actors -> Threads \union {None}]
  /\ process \in [Creators -> Processes \union {None}]

Locations ==
  /\ pc \in [Actors -> CreatorLocations]
  /\ \A t \in Threads : pc[t] \in ThreadLocations
  /\ \A t \in Threads : thread[t] # "running" => pc[t] = "start"

\* A thread has a process from its creation on, which has it in its list
\* until it is destroyed.
OwnersSound ==
  /\ \A t \in Threads : thread[t] = "none" <=> owner[t] = None
  /\ \A p \in Processes :
       ThreadList[p] = {t \in Threads : owner[t] = p /\ thread[t] \in Listed}
  /\ \A t \in Threads : owner[t] # None => state[owner[t]] # "none"

\* Each process comes from one call of ProcessCreate.
CreatorsSound ==
  /\ \A c \in Creators : pc[c] = "start" => process[c] = None
  /\ \A c \in Creators : pc[c] \notin {"start", "failed"} => process[c] # None
  /\ \A c, d \in Creators : process[c] = process[d] /\ process[c] # None => c = d
  /\ \A c \in Creators : process[c] # None => state[process[c]] # "none"

\* What a caller of ThreadCreateEx has in its hands: a thread of its process
\* that nobody else sets up or closes, with the reference of the handle.
ChildrenSound ==
  /\ \A a \in Actors : pc[a] \in {"setup", "close", "destroying"} => child[a] \in Threads
  /\ \A a \in Actors : pc[a] = "setup" =>
       thread[child[a]] = "setup" /\ owner[child[a]] = TargetProcess(a)
  /\ \A a \in Actors : pc[a] = "close" =>
       \/ thread[child[a]] \in Alive /\ threadRefs[child[a]] = 2
       \/ thread[child[a]] = "dead" /\ threadRefs[child[a]] = 1
  /\ \A a, b \in Actors :
       a # b /\ pc[a] \in {"setup", "close"} /\ pc[b] \in {"setup", "close"} => child[a] # child[b]

\* The thread's own reference is there until it has switched away.
ThreadRefsSound ==
  /\ \A t \in Threads : thread[t] = "setup" => threadRefs[t] = 2
  /\ \A t \in Threads : thread[t] \in Alive => threadRefs[t] \in 1 .. 2

\* The first thread of a process is its creator's; if it cannot be set up no
\* thread of the process ever runs.
FirstThread ==
  \A c \in Creators : process[c] # None =>
    /\ pc[c] \in {"load", "create"} => \A t \in Threads : owner[t] # process[c]
    /\ pc[c] = "setup" => \A t \in Threads : owner[t] = process[c] => t = child[c]
    /\ pc[c] = "failed" => \A t \in Threads : owner[t] = process[c] => thread[t] = "setup"

\* One thread at a time has ThreadListLock.
ListLockExclusive ==
  \A t, u \in Threads :
    {thread[t], thread[u]} \subseteq {"unlock", "unlockLast"} /\ owner[t] = owner[u] => t = u

Structure ==
  /\ Types /\ Locations /\ OwnersSound /\ CreatorsSound /\ ChildrenSound
  /\ ThreadRefsSound /\ FirstThread /\ ListLockExclusive

(***************************************************************************)
(* Counting.                                                               *)
(***************************************************************************)

\* The last thread of a process leaves an empty list behind, and is the only
\* one to do so; one that is not the last keeps the lock until it has let go.
LastThread ==
  /\ \A t \in Threads : thread[t] \in {"unlockLast", "last"} => ThreadList[owner[t]] = {}
  /\ \A t, u \in Threads :
       {thread[t], thread[u]} \subseteq {"unlockLast", "last"} /\ owner[t] = owner[u] => t = u
  /\ \A t \in Threads : thread[t] = "unlock" => ThreadList[owner[t]] # {}

Executors(p) == {t \in ThreadList[p] : thread[t] \in Executing}

\* The counters of one process, which lives as long as it is referenced.
Counted(p) ==
  /\ RefCnt[p] = Cardinality(ThreadList[p]) + Cardinality(Handles(p))
                 + (IF InitialReferenceHeld(p) THEN 1 ELSE 0)
  /\ NumberOfThreads[p] = Cardinality(ThreadList[p])
  /\ ActiveThreads[p] = Cardinality(Executors(p))
  /\ IF state[p] = "live" THEN RefCnt[p] > 0 ELSE RefCnt[p] = 0

Counting == (\A p \in Processes : Counted(p)) /\ LastThread

(***************************************************************************)
(* Ending.                                                                 *)
(***************************************************************************)

\* The process has had threads, and none of them executes.
Ended(p) ==
  /\ \E t \in Threads : owner[t] = p
  /\ \A t \in Threads : owner[t] = p => thread[t] \notin Executing

StatusOf(p) == {t \in Threads : owner[t] = p}

\* Once a thread has seen that it was the last, none executes, and the status
\* is stored before the event is signalled.
Ending ==
  /\ \A t \in Threads : thread[t] \in {"status", "signal"} => Ended(owner[t])
  /\ \A t \in Threads : thread[t] = "signal" => TerminationStatus[owner[t]] \in StatusOf(owner[t])
  /\ \A p \in Processes : TerminationEvt[p] => Ended(p) /\ TerminationStatus[p] \in StatusOf(p)

(***************************************************************************)
(* Tables.                                                                 *)
(***************************************************************************)

\* The tables are exact, and the identifiers of the System process and of no
\* process at all are never given away.
Tables ==
  /\ Id \in [Processes -> 0 .. MaxPid]
  /\ tlb \in [CPUs -> SUBSET ((0 .. MaxPid) \X Processes)]
  /\ TablesExact
  /\ \A p \in Processes : state[p] \in Numbered => Id[p] \notin {0, SystemPid}

\* What a CPU has cached is under the identifier of a process that has not
\* given up its address space yet.
CachedSound ==
  \A c \in CPUs : \A e \in tlb[c] :
    e[1] = Id[e[2]] /\ state[e[2]] \in {"live", "destroy", "unlisted"}

(***************************************************************************)
(* Every step keeps Structure.                                             *)
(***************************************************************************)

\* _ProcessInit: the new process has no threads, and one creator.
LEMMA StructureProcessInit ==
  ASSUME Structure, NEW c \in Creators, _ProcessInit(c)
  PROVE  Structure'
<1> USE ProcessLifetimeAssumption DEF Structure, Types
<1>a. /\ pc[c] = "start" /\ pc' = [pc EXCEPT ![c] = "load"]
      /\ UNCHANGED <<ThreadList, NumberOfThreads, ActiveThreads, TerminationEvt,
                     TerminationStatus, thread, threadRefs, owner, killed, child>>
  BY DEF _ProcessInit, threadVars
<1>b. PICK p \in Processes :
        /\ state[p] = "none" /\ state' = [state EXCEPT ![p] = "live"]
        /\ process' = [process EXCEPT ![c] = p]
        /\ RefCnt' = [RefCnt EXCEPT ![p] = 1]
  BY DEF _ProcessInit
<1>c. (\A d \in Creators : process[d] # p) /\ (\A t \in Threads : owner[t] # p)
  BY <1>b DEF CreatorsSound, OwnersSound
<1>d. pc \in [Actors -> CreatorLocations] /\ Actors = Creators \union Threads
  BY DEF Locations, Actors
<1>1. Types'
  BY <1>a, <1>b DEF ProcessStates
<1>2. Locations'
  BY <1>a, <1>d DEF Locations, CreatorLocations
<1>3. OwnersSound'
  BY <1>a, <1>b DEF OwnersSound
<1>4. CreatorsSound'
  BY <1>a, <1>b, <1>c, <1>d DEF CreatorsSound
<1>5. ChildrenSound'
  BY <1>a, <1>b, <1>d DEF ChildrenSound, TargetProcess
<1>6. ThreadRefsSound'
  BY <1>a DEF ThreadRefsSound
<1>7. FirstThread'
  BY <1>a, <1>b, <1>c, <1>d DEF FirstThread
<1>8. ListLockExclusive'
  BY <1>a DEF ListLockExclusive
<1> QED
  BY <1>1, <1>2, <1>3, <1>4, <1>5, <1>6, <1>7, <1>8

\* _ProcessInit fails: the creator has no process.
LEMMA StructureProcessInitFails ==
  ASSUME Structure, NEW c \in Creators, _ProcessInitFails(c)
  PROVE  Structure'
<1> USE ProcessLifetimeAssumption DEF Structure, Types, _ProcessInitFails, procVars, threadVars
<1>1. Types' /\ OwnersSound' /\ ThreadRefsSound' /\ ListLockExclusive'
  BY DEF ProcessStates, ThreadStates, Destroying, OwnersSound, ThreadRefsSound, ListLockExclusive
<1>2. Locations'
  BY DEF Locations, CreatorLocations, ThreadLocations, Actors
<1>3. CreatorsSound'
  BY DEF CreatorsSound, Actors
<1>4. ChildrenSound'
  BY DEF ChildrenSound, Alive, TargetProcess, Actors
<1>5. FirstThread'
  BY DEF FirstThread, CreatorsSound, Locations, Actors
<1> QED
  BY <1>1, <1>2, <1>3, <1>4, <1>5

\* ProcessCreate gives up: the threads its process has are never set up.
LEMMA StructureProcessCreateFails ==
  ASSUME Structure, NEW c \in Creators, pc[c] \in {"load", "setup"}, ProcessCreateFails(c)
  PROVE  Structure'
<1> USE ProcessLifetimeAssumption DEF Structure, Types, ProcessCreateFails, _ProcessDereference, threadVars
<1>a. process[c] \in Processes /\ state[process[c]] # "none"
  BY DEF CreatorsSound
<1>b. pc' = [pc EXCEPT ![c] = "failed"] /\ pc \in [Actors -> CreatorLocations] /\ c \in Actors
  BY DEF Locations, Actors
<1>c. UNCHANGED <<ThreadList, thread, threadRefs, owner, child, process>>
  OBVIOUS
<1>d. \A p \in Processes : state'[p] = "none" <=> state[p] = "none"
  BY <1>a
<1>1. Types'
  BY <1>a DEF ProcessStates, ThreadStates, Destroying
<1>2. Locations'
  BY DEF Locations, CreatorLocations, ThreadLocations, Actors
<1>3. OwnersSound'
  BY <1>c, <1>d DEF OwnersSound
<1>4. CreatorsSound'
  BY <1>b, <1>c, <1>d DEF CreatorsSound
<1>5. ChildrenSound'
  BY <1>b, <1>c DEF ChildrenSound, TargetProcess
<1>6. ThreadRefsSound' /\ ListLockExclusive'
  BY DEF ThreadRefsSound, ListLockExclusive
<1>7. FirstThread'
  <2>1. \A t \in Threads : owner[t] = process[c] => thread[t] = "setup"
    BY <1>a, <1>b DEF FirstThread, ChildrenSound
  <2> QED
    BY <1>b, <1>c, <2>1 DEF FirstThread, CreatorsSound
<1> QED
  BY <1>1, <1>2, <1>3, <1>4, <1>5, <1>6, <1>7

\* The application is loaded, or ProcessCreate gives up.
LEMMA StructureLoadApplication ==
  ASSUME Structure, NEW c \in Creators, LoadApplication(c)
  PROVE  Structure'
<1>1. CASE ProcessCreateFails(c)
  BY <1>1, StructureProcessCreateFails DEF LoadApplication
<1>2. CASE ~ProcessCreateFails(c)
  <2> USE ProcessLifetimeAssumption DEF Structure, Types, procVars, threadVars
  <2>a. /\ pc[c] = "load" /\ pc' = [pc EXCEPT ![c] = "create"]
        /\ UNCHANGED <<procVars, threadVars, child, process>>
    BY <1>2 DEF LoadApplication
  <2>b. pc \in [Actors -> CreatorLocations] /\ c \in Actors
    BY DEF Locations, Actors
  <2>1. Types' /\ OwnersSound' /\ ThreadRefsSound' /\ ListLockExclusive'
    BY <2>a DEF OwnersSound, ThreadRefsSound, ListLockExclusive
  <2>2. Locations'
    BY <2>a DEF Locations, CreatorLocations, ThreadLocations, Actors
  <2>3. CreatorsSound'
    BY <2>a, <2>b DEF CreatorsSound
  <2>4. ChildrenSound'
    BY <2>a, <2>b DEF ChildrenSound, TargetProcess
  <2>5. FirstThread'
    BY <2>a, <2>b DEF FirstThread
  <2> QED
    BY <2>1, <2>2, <2>3, <2>4, <2>5
<1> QED
  BY <1>1, <1>2

\* ThreadCreateEx: the thread is new, and the first one if its creator is
\* ProcessCreate.
LEMMA StructureThreadCreateEx ==
  ASSUME Structure, NEW a \in Actors, ThreadCreateEx(a)
  PROVE  Structure'
<1> USE ProcessLifetimeAssumption DEF Structure, Types
<1> DEFINE p == TargetProcess(a)
<1>a. PICK t \in Threads :
        /\ thread[t] = "none" /\ thread' = [thread EXCEPT ![t] = "setup"]
        /\ threadRefs' = [threadRefs EXCEPT ![t] = 2]
        /\ child' = [child EXCEPT ![a] = t]
        /\ ProcessInsertThreadInList(p, t)
  BY DEF ThreadCreateEx
<1>b. /\ MayCreateThread(a) /\ pc' = [pc EXCEPT ![a] = "setup"]
      /\ UNCHANGED <<state, TerminationEvt, TerminationStatus, killed, process>>
  BY DEF ThreadCreateEx
<1>c. pc \in [Actors -> CreatorLocations] /\ Actors = Creators \union Threads
  BY DEF Locations, Actors
<1>d. /\ p \in Processes /\ state[p] # "none"
      /\ pc[a] \in {"create", "start"}
      /\ a \in Creators => pc[a] = "create" /\ p = process[a]
      /\ a \notin Creators => a \in Threads /\ thread[a] = "running" /\ p = owner[a]
  BY <1>b, <1>c DEF MayCreateThread, TargetProcess, CreatorsSound, OwnersSound
<1> HIDE DEF p
<1>e. /\ owner' = [owner EXCEPT ![t] = p]
      /\ NumberOfThreads' = [NumberOfThreads EXCEPT ![p] = @ + 1]
      /\ ActiveThreads' = [ActiveThreads EXCEPT ![p] = @ + 1]
      /\ ThreadList' = [ThreadList EXCEPT ![p] = @ \union {t}]
      /\ RefCnt' = [RefCnt EXCEPT ![p] = @ + 1]
  BY <1>a DEF ProcessInsertThreadInList, _ProcessReference
<1>f. owner[t] = None /\ pc[t] = "start" /\ t # a
  BY <1>a, <1>d DEF OwnersSound, Locations
<1>1. Types'
  BY <1>a, <1>b, <1>d, <1>e DEF ProcessStates, ThreadStates, Destroying
<1>2. Locations'
  BY <1>a, <1>b, <1>c, <1>d DEF Locations, CreatorLocations, ThreadLocations
<1>3. OwnersSound'
  BY <1>a, <1>b, <1>d, <1>e, <1>f DEF OwnersSound, Listed
<1>4. CreatorsSound'
  BY <1>b, <1>c, <1>d DEF CreatorsSound
<1>5. ChildrenSound'
  <2>1. TargetProcess(a)' = p /\ \A b \in Actors : pc[b] = "setup" => TargetProcess(b)' = TargetProcess(b)
    BY <1>b, <1>c, <1>d, <1>e, <1>f DEF TargetProcess
  <2>2. \A b \in Actors : pc[b] \in {"setup", "close"} => child[b] # t
    BY <1>a DEF ChildrenSound, Alive
  <2> QED
    BY <1>a, <1>b, <1>c, <1>e, <2>1, <2>2 DEF ChildrenSound, Alive
<1>6. ThreadRefsSound'
  BY <1>a DEF ThreadRefsSound, Alive
<1>7. FirstThread'
  <2>1. \A c \in Creators : process[c] = p /\ c # a => pc[c] \notin {"load", "create", "setup", "failed"}
    BY <1>c, <1>d DEF FirstThread, CreatorsSound, ChildrenSound
  <2> QED
    BY <1>a, <1>b, <1>c, <1>d, <1>e, <2>1 DEF FirstThread
<1>8. ListLockExclusive'
  BY <1>a, <1>e DEF ListLockExclusive
<1> QED
  BY <1>1, <1>2, <1>3, <1>4, <1>5, <1>6, <1>7, <1>8

\* A thread is set up: it runs from now on.
LEMMA StructureSetupThread ==
  ASSUME Structure, NEW a \in Actors, SetupThread(a)
  PROVE  Structure'
<1> USE ProcessLifetimeAssumption DEF Structure, Types
<1>a. /\ pc[a] = "setup" /\ pc' = [pc EXCEPT ![a] = "close"]
      /\ thread' = [thread EXCEPT ![child[a]] = "running"]
      /\ UNCHANGED <<procVars, threadRefs, owner, killed, child, process>>
  BY DEF SetupThread
<1>b. pc \in [Actors -> CreatorLocations] /\ Actors = Creators \union Threads
  BY DEF Locations, Actors
<1>c. /\ child[a] \in Threads /\ thread[child[a]] = "setup" /\ owner[child[a]] = TargetProcess(a)
      /\ threadRefs[child[a]] = 2
  BY <1>a DEF ChildrenSound, ThreadRefsSound
<1>1. Types'
  BY <1>a, <1>c DEF procVars, ThreadStates
<1>2. Locations'
  BY <1>a, <1>b, <1>c DEF Locations, CreatorLocations, ThreadLocations
<1>3. OwnersSound'
  BY <1>a, <1>c DEF OwnersSound, Listed, procVars
<1>4. CreatorsSound'
  BY <1>a, <1>b DEF CreatorsSound, procVars
<1>5. ChildrenSound'
  <2>1. \A b \in Actors \ {a} : pc[b] \in {"setup", "close"} => child[b] # child[a]
    BY <1>a DEF ChildrenSound
  <2>2. \A b \in Actors : TargetProcess(b)' = TargetProcess(b)
    BY <1>a DEF TargetProcess
  <2>3. \A b \in Actors \ {a} : pc'[b] = pc[b] /\ child'[b] = child[b]
    BY <1>a, <1>b
  <2>4. \A u \in Threads \ {child[a]} : thread'[u] = thread[u] /\ threadRefs'[u] = threadRefs[u]
    BY <1>a, <1>c
  <2>5. pc'[a] = "close" /\ child'[a] = child[a] /\ thread'[child[a]] = "running"
    BY <1>a, <1>b, <1>c
  <2>6. ASSUME NEW b \in Actors, pc'[b] \in {"setup", "close", "destroying"} PROVE child'[b] \in Threads
    BY <1>c, <2>3, <2>5, <2>6 DEF ChildrenSound
  <2>7. ASSUME NEW b \in Actors, pc'[b] = "setup"
        PROVE  thread'[child'[b]] = "setup" /\ owner'[child'[b]] = TargetProcess(b)'
    BY <1>a, <2>1, <2>2, <2>3, <2>4, <2>5, <2>7 DEF ChildrenSound
  <2>8. ASSUME NEW b \in Actors, pc'[b] = "close"
        PROVE  \/ thread'[child'[b]] \in Alive /\ threadRefs'[child'[b]] = 2
               \/ thread'[child'[b]] = "dead" /\ threadRefs'[child'[b]] = 1
    BY <1>a, <1>c, <2>1, <2>3, <2>4, <2>5, <2>8 DEF ChildrenSound, Alive
  <2>9. ASSUME NEW b \in Actors, NEW d \in Actors, b # d,
               pc'[b] \in {"setup", "close"}, pc'[d] \in {"setup", "close"}
        PROVE  child'[b] # child'[d]
    BY <1>a, <2>1, <2>3, <2>9 DEF ChildrenSound
  <2> QED
    BY <2>6, <2>7, <2>8, <2>9 DEF ChildrenSound
<1>6. ThreadRefsSound'
  BY <1>a, <1>c DEF ThreadRefsSound, Alive
<1>7. FirstThread'
  <2>1. \A c \in Creators : process[c] = owner[child[a]] => pc[c] # "failed" \/ c = a
    BY <1>a, <1>b, <1>c DEF FirstThread, CreatorsSound, TargetProcess, Locations, OwnersSound
  <2> QED
    BY <1>a, <1>b, <1>c, <2>1 DEF FirstThread
<1>8. ListLockExclusive'
  BY <1>a, <1>c DEF ListLockExclusive
<1> QED
  BY <1>1, <1>2, <1>3, <1>4, <1>5, <1>6, <1>7, <1>8

\* A thread cannot be set up: it stays in the list of its process.
LEMMA StructureSetupThreadFails ==
  ASSUME Structure, NEW a \in Actors, SetupThreadFails(a)
  PROVE  Structure'
<1>1. CASE a \in Creators
  BY <1>1, StructureProcessCreateFails DEF SetupThreadFails
<1>2. CASE a \notin Creators
  <2> USE ProcessLifetimeAssumption DEF Structure, Types, procVars, threadVars
  <2>a. /\ pc[a] = "setup" /\ pc' = [pc EXCEPT ![a] = "start"]
        /\ UNCHANGED <<procVars, threadVars, child, process>>
    BY <1>2 DEF SetupThreadFails
  <2>b. pc \in [Actors -> CreatorLocations] /\ a \in Threads
    BY <1>2 DEF Locations, Actors
  <2>1. Types' /\ OwnersSound' /\ ThreadRefsSound' /\ ListLockExclusive'
    BY <2>a DEF OwnersSound, ThreadRefsSound, ListLockExclusive
  <2>2. Locations'
    BY <2>a, <2>b DEF Locations, CreatorLocations, ThreadLocations
  <2>3. CreatorsSound'
    BY <2>a, <2>b DEF CreatorsSound
  <2>4. ChildrenSound'
    BY <2>a, <2>b DEF ChildrenSound, TargetProcess
  <2>5. FirstThread'
    BY <2>a, <2>b DEF FirstThread
  <2> QED
    BY <2>1, <2>2, <2>3, <2>4, <2>5
<1> QED
  BY <1>1, <1>2

\* ThreadCloseHandle: the thread is destroyed if it has dropped its own
\* reference before.
LEMMA StructureThreadCloseHandle ==
  ASSUME Structure, NEW a \in Actors, ThreadCloseHandle(a)
  PROVE  Structure'
<1> USE ProcessLifetimeAssumption DEF Structure, Types
<1> DEFINE t == child[a]
<1>a. /\ pc[a] = "close"
      /\ threadRefs' = [threadRefs EXCEPT ![t] = @ - 1]
      /\ UNCHANGED <<procVars, owner, killed, child, process>>
  BY DEF ThreadCloseHandle
<1>b. pc \in [Actors -> CreatorLocations] /\ Actors = Creators \union Threads
  BY DEF Locations, Actors
<1>c. /\ t \in Threads
      /\ \/ thread[t] \in Alive /\ threadRefs[t] = 2
         \/ thread[t] = "dead" /\ threadRefs[t] = 1
  BY <1>a DEF ChildrenSound
<1>d. \/ thread[t] \in Alive /\ threadRefs[t] = 2 /\ thread' = thread
      \/ thread[t] = "dead" /\ thread' = [thread EXCEPT ![t] = "destroy"]
  BY <1>c DEF ThreadCloseHandle
<1>e. PICK to \in {"destroying", "reference", "start"} :
        pc' = [pc EXCEPT ![a] = to] /\ (to = "reference" => a \in Creators) /\ (to = "start" => a \in Threads)
  BY <1>b DEF ThreadCloseHandle, AfterClose
<1> HIDE DEF t
<1>f. t = child[a]
  BY DEF t
<1>1. Types'
  BY <1>a, <1>c, <1>d DEF procVars, ThreadStates, Alive
<1>2. Locations'
  BY <1>a, <1>b, <1>c, <1>d, <1>e DEF Locations, CreatorLocations, ThreadLocations
<1>3. OwnersSound'
  BY <1>a, <1>c, <1>d DEF OwnersSound, Listed, procVars
<1>4. CreatorsSound'
  BY <1>a, <1>b, <1>e DEF CreatorsSound, procVars
<1>5. ChildrenSound'
  <2>1. \A b \in Actors \ {a} : pc[b] \in {"setup", "close"} => child[b] # t
    BY <1>a, <1>f DEF ChildrenSound
  <2>2. \A b \in Actors : TargetProcess(b)' = TargetProcess(b)
    BY <1>a DEF TargetProcess
  <2>3. \A b \in Actors : pc'[b] \in {"setup", "close"} => b # a /\ pc[b] = pc'[b]
    BY <1>b, <1>e
  <2>4. \A u \in Threads \ {t} : thread'[u] = thread[u] /\ threadRefs'[u] = threadRefs[u]
    BY <1>a, <1>c, <1>d
  <2>5. \A b \in Actors : pc'[b] = "destroying" => b = a \/ pc[b] = "destroying"
    BY <1>b, <1>e
  <2>6. \A b \in Actors : pc'[b] \in {"setup", "close", "destroying"} => child'[b] \in Threads
    BY <1>a, <1>c, <1>f, <2>3, <2>5 DEF ChildrenSound
  <2>7. \A b \in Actors : pc'[b] = "setup" =>
          thread'[child'[b]] = "setup" /\ owner'[child'[b]] = TargetProcess(b)'
    BY <1>a, <2>1, <2>2, <2>3, <2>4 DEF ChildrenSound
  <2>8. \A b \in Actors : pc'[b] = "close" =>
          \/ thread'[child'[b]] \in Alive /\ threadRefs'[child'[b]] = 2
          \/ thread'[child'[b]] = "dead" /\ threadRefs'[child'[b]] = 1
    BY <1>a, <2>1, <2>3, <2>4 DEF ChildrenSound
  <2>9. \A b, d \in Actors :
          b # d /\ pc'[b] \in {"setup", "close"} /\ pc'[d] \in {"setup", "close"} => child'[b] # child'[d]
    BY <1>a, <2>3 DEF ChildrenSound
  <2> QED
    BY <2>6, <2>7, <2>8, <2>9 DEF ChildrenSound
<1>6. ThreadRefsSound'
  BY <1>a, <1>c, <1>d DEF ThreadRefsSound, Alive
<1>7. FirstThread'
  BY <1>a, <1>b, <1>c, <1>d, <1>e DEF FirstThread, procVars
<1>8. ListLockExclusive'
  BY <1>a, <1>c, <1>d DEF ListLockExclusive
<1> QED
  BY <1>1, <1>2, <1>3, <1>4, <1>5, <1>6, <1>7, <1>8

\* A caller of ThreadCreateEx goes on when its thread is destroyed.
LEMMA StructureThreadDestroyed ==
  ASSUME Structure, NEW a \in Actors, ThreadDestroyed(a)
  PROVE  Structure'
<1> USE ProcessLifetimeAssumption DEF Structure, Types, procVars, threadVars
<1>a. UNCHANGED <<procVars, threadVars, child, process>>
  BY DEF ThreadDestroyed
<1>b. pc \in [Actors -> CreatorLocations] /\ Actors = Creators \union Threads
  BY DEF Locations, Actors
<1>c. /\ pc[a] = "destroying"
      /\ \/ a \in Creators /\ pc' = [pc EXCEPT ![a] = "reference"]
         \/ a \in Threads /\ pc' = [pc EXCEPT ![a] = "start"]
  BY <1>b DEF ThreadDestroyed, AfterClose
<1>1. Types' /\ OwnersSound' /\ ThreadRefsSound' /\ ListLockExclusive'
  BY <1>a DEF OwnersSound, ThreadRefsSound, ListLockExclusive
<1>2. Locations'
  BY <1>a, <1>b, <1>c DEF Locations, CreatorLocations, ThreadLocations
<1>3. CreatorsSound'
  BY <1>a, <1>b, <1>c DEF CreatorsSound
<1>4. ChildrenSound'
  BY <1>a, <1>b, <1>c DEF ChildrenSound, TargetProcess
<1>5. FirstThread'
  BY <1>a, <1>b, <1>c DEF FirstThread
<1> QED
  BY <1>1, <1>2, <1>3, <1>4, <1>5

\* A creator that has its handle, or has lost the process, goes on.
LEMMA StructureCreatorMoves ==
  ASSUME Structure, NEW c \in Creators, NEW to \in {"wild", "open", "wait", "waited", "closed"},
         pc[c] \in {"reference", "open", "wait", "waited"}, pc' = [pc EXCEPT ![c] = to],
         UNCHANGED <<ThreadList, thread, threadRefs, owner, child, process>>,
         \A p \in Processes : state'[p] = "none" <=> state[p] = "none",
         Types'
  PROVE  Structure'
<1> USE ProcessLifetimeAssumption DEF Structure, Types
<1>a. pc \in [Actors -> CreatorLocations] /\ Actors = Creators \union Threads
  BY DEF Locations, Actors
<1>1. Locations'
  BY <1>a DEF Locations, CreatorLocations, ThreadLocations
<1>2. OwnersSound' /\ ThreadRefsSound' /\ ListLockExclusive'
  BY DEF OwnersSound, ThreadRefsSound, ListLockExclusive
<1>3. CreatorsSound'
  BY <1>a DEF CreatorsSound
<1>4. ChildrenSound'
  BY <1>a DEF ChildrenSound, TargetProcess
<1>5. FirstThread'
  BY <1>a DEF FirstThread
<1> QED
  BY <1>1, <1>2, <1>3, <1>4, <1>5

\* The reference of a handle is taken and dropped, and a handle is used.
LEMMA StructureHandleStep ==
  ASSUME Structure, NEW c \in Creators,
         \/ ReferenceHandle(c) \/ ReferenceFreedProcess(c) \/ ProcessTerminate(c)
         \/ ProcessWaitForTermination(c) \/ ProcessCloseHandle(c)
  PROVE  Structure'
<1> USE ProcessLifetimeAssumption DEF procVars, threadVars
<1>a. process[c] \in Processes /\ state[process[c]] # "none" /\ Types
  <2>1. pc[c] \in {"reference", "open", "wait", "waited"}
    BY DEF ReferenceHandle, ReferenceFreedProcess, ProcessTerminate, ProcessWaitForTermination,
           ProcessCloseHandle
  <2> QED
    BY <2>1 DEF Structure, Types, CreatorsSound
<1>1. CASE ReferenceHandle(c)
  <2>1. Types'
    BY <1>1, <1>a DEF ReferenceHandle, _ProcessReference, Types
  <2> QED
    BY <1>1, <2>1, StructureCreatorMoves DEF ReferenceHandle
<1>2. CASE ReferenceFreedProcess(c)
  <2>1. Types'
    BY <1>2, <1>a DEF ReferenceFreedProcess, Types
  <2> QED
    BY <1>2, <2>1, StructureCreatorMoves DEF ReferenceFreedProcess
<1>3. CASE ProcessTerminate(c)
  <2>1. Types'
    BY <1>3, <1>a DEF ProcessTerminate, Types
  <2> QED
    BY <1>3, <2>1, StructureCreatorMoves DEF ProcessTerminate
<1>4. CASE ProcessWaitForTermination(c)
  <2>1. Types'
    BY <1>4, <1>a DEF ProcessWaitForTermination, Types
  <2> QED
    BY <1>4, <2>1, StructureCreatorMoves DEF ProcessWaitForTermination
<1>5. CASE ProcessCloseHandle(c)
  <2>1. Types'
    BY <1>5, <1>a DEF ProcessCloseHandle, _ProcessDereference, Types, ProcessStates, Destroying
  <2>2. \A p \in Processes : state'[p] = "none" <=> state[p] = "none"
    BY <1>5, <1>a DEF ProcessCloseHandle, _ProcessDereference, Types
  <2> QED
    BY <1>5, <2>1, <2>2, StructureCreatorMoves DEF ProcessCloseHandle
<1> QED
  BY <1>1, <1>2, <1>3, <1>4, <1>5

\* A thread that was running goes one step further in ThreadExit and its
\* destructor, without touching its references.
LEMMA StructureThreadMoves ==
  ASSUME Structure, NEW t \in Threads, NEW to \in ThreadStates,
         thread' = [thread EXCEPT ![t] = to],
         thread[t] \notin {"none", "setup", "dead"}, to \notin {"none", "setup", "running", "dead"},
         thread[t] \in Alive <=> to \in Alive, thread[t] \notin Listed => to \notin Listed,
         to \in {"unlock", "unlockLast"} => ThreadListLockFree(owner[t]),
         pc[t] = "start",
         UNCHANGED <<pc, threadRefs, owner, child, process>>,
         ThreadList' = IF to \in Listed THEN ThreadList
                                        ELSE [ThreadList EXCEPT ![owner[t]] = @ \ {t}],
         \A p \in Processes : state'[p] = "none" <=> state[p] = "none",
         Types'
  PROVE  Structure'
<1> USE ProcessLifetimeAssumption DEF Structure, Types
<1>a. \A u \in Threads \ {t} : thread'[u] = thread[u]
  OBVIOUS
<1>b. thread'[t] = to /\ owner[t] \in Processes
  BY DEF OwnersSound
<1>1. Locations'
  BY <1>a DEF Locations
<1>2. OwnersSound'
  <2>1. \A p \in Processes : ThreadList'[p] = {u \in Threads : owner[u] = p /\ thread'[u] \in Listed}
    BY <1>a, <1>b DEF OwnersSound
  <2> QED
    BY <1>a, <1>b, <2>1 DEF OwnersSound
<1>3. CreatorsSound'
  BY DEF CreatorsSound
<1>4. ChildrenSound'
  <2>1. \A a \in Actors : pc[a] = "setup" => child[a] # t
    BY DEF ChildrenSound
  <2> QED
    BY <1>a, <1>b, <2>1 DEF ChildrenSound, TargetProcess
<1>5. ThreadRefsSound'
  BY <1>a, <1>b DEF ThreadRefsSound
<1>6. FirstThread'
  BY <1>a, <1>b DEF FirstThread
<1>7. ListLockExclusive'
  BY <1>a, <1>b DEF ListLockExclusive, ThreadListLockFree
<1> QED
  BY <1>1, <1>2, <1>3, <1>4, <1>5, <1>6, <1>7

\* ThreadExit, ProcessNotifyThreadTermination, and the destructor of a thread.
LEMMA StructureExitStep ==
  ASSUME Structure, NEW t \in Threads,
         \/ ThreadExit(t) \/ ProcessTerminateSelf(t) \/ NotifyDecrement(t) \/ NotifyStatus(t)
         \/ NotifySignal(t) \/ RemoveThread(t) \/ ReleaseThreadListLock(t)
         \/ DereferenceLast(t) \/ FreeThread(t)
  PROVE  Structure'
<1> USE ProcessLifetimeAssumption DEF procVars, threadVars, callVars, ThreadStates, Alive, Listed
<1>a. thread[t] \notin {"none", "setup", "dead"} /\ Types
  BY DEF Structure, ThreadExit, ProcessTerminateSelf, NotifyDecrement, NotifyStatus, NotifySignal,
         RemoveThread, ReleaseThreadListLock, DereferenceLast, FreeThread
<1>b. owner[t] \in Processes /\ state[owner[t]] # "none"
  BY <1>a DEF Structure, Types, OwnersSound
<1>c. thread[t] # "running" => pc[t] = "start"
  BY DEF Structure, Locations
<1>d. thread[t] \notin Listed => ThreadList = [ThreadList EXCEPT ![owner[t]] = @ \ {t}]
  BY <1>b DEF Structure, Types, OwnersSound
<1>1. CASE ThreadExit(t)
  <2>1. Types'
    BY <1>1, <1>a DEF ThreadExit, Types
  <2> QED
    BY <1>1, <2>1, StructureThreadMoves DEF ThreadExit
<1>2. CASE ProcessTerminateSelf(t)
  <2>1. Types'
    BY <1>2, <1>a DEF ProcessTerminateSelf, Types
  <2> QED
    BY <1>2, <2>1, StructureThreadMoves DEF ProcessTerminateSelf
<1>3. CASE NotifyDecrement(t)
  <2>1. Types'
    BY <1>3, <1>a, <1>b DEF NotifyDecrement, Types
  <2>2. PICK to \in {"status", "dying"} : thread' = [thread EXCEPT ![t] = to]
    BY <1>3 DEF NotifyDecrement
  <2> QED
    BY <1>3, <1>c, <2>1, <2>2, StructureThreadMoves DEF NotifyDecrement
<1>4. CASE NotifyStatus(t)
  <2>1. Types'
    BY <1>4, <1>a, <1>b DEF NotifyStatus, Types
  <2> QED
    BY <1>4, <1>c, <2>1, StructureThreadMoves DEF NotifyStatus
<1>5. CASE NotifySignal(t)
  <2>1. Types'
    BY <1>5, <1>a, <1>b DEF NotifySignal, Types
  <2> QED
    BY <1>5, <1>c, <2>1, StructureThreadMoves DEF NotifySignal
<1>6. CASE RemoveThread(t)
  <2>1. Types'
    BY <1>6, <1>a, <1>b DEF RemoveThread, _ProcessDereference, Types, ProcessStates, Destroying
  <2>2. PICK to \in {"unlock", "unlockLast"} : thread' = [thread EXCEPT ![t] = to]
    BY <1>6 DEF RemoveThread
  <2>3. \A p \in Processes : state'[p] = "none" <=> state[p] = "none"
    BY <1>6, <1>a, <1>b DEF RemoveThread, _ProcessDereference, Types
  <2> QED
    BY <1>6, <1>c, <2>1, <2>2, <2>3, StructureThreadMoves DEF RemoveThread
<1>7. CASE ReleaseThreadListLock(t)
  <2>1. Types'
    BY <1>7, <1>a DEF ReleaseThreadListLock, Types
  <2>2. PICK to \in {"last", "tail"} : thread' = [thread EXCEPT ![t] = to]
    BY <1>7 DEF ReleaseThreadListLock
  <2> QED
    BY <1>7, <1>c, <1>d, <2>1, <2>2, StructureThreadMoves DEF ReleaseThreadListLock
<1>8. CASE DereferenceLast(t)
  <2>1. Types'
    BY <1>8, <1>a, <1>b DEF DereferenceLast, _ProcessDereference, Types, ProcessStates, Destroying
  <2>2. \A p \in Processes : state'[p] = "none" <=> state[p] = "none"
    BY <1>8, <1>a, <1>b DEF DereferenceLast, _ProcessDereference, Types
  <2> QED
    BY <1>8, <1>c, <1>d, <2>1, <2>2, StructureThreadMoves DEF DereferenceLast
<1>9. CASE FreeThread(t)
  <2>1. Types'
    BY <1>9, <1>a DEF FreeThread, Types
  <2> QED
    BY <1>9, <1>c, <1>d, <2>1, StructureThreadMoves DEF FreeThread
<1> QED
  BY <1>1, <1>2, <1>3, <1>4, <1>5, <1>6, <1>7, <1>8, <1>9

\* ThreadCleanupPostSchedule drops the thread's own reference; whoever
\* closes its handle has the other one.
LEMMA StructureThreadCleanupPostSchedule ==
  ASSUME Structure, NEW t \in Threads, ThreadCleanupPostSchedule(t)
  PROVE  Structure'
<1> USE ProcessLifetimeAssumption DEF Structure, Types
<1>a. /\ thread[t] = "dying" /\ threadRefs' = [threadRefs EXCEPT ![t] = @ - 1]
      /\ thread' = [thread EXCEPT ![t] = IF threadRefs[t] = 1 THEN "destroy" ELSE "dead"]
      /\ UNCHANGED <<procVars, owner, killed, callVars>>
  BY DEF ThreadCleanupPostSchedule
<1>b. threadRefs[t] \in 1 .. 2
  BY <1>a DEF ThreadRefsSound, Alive
<1>1. Types'
  BY <1>a, <1>b DEF ThreadStates, procVars, callVars
<1>2. Locations'
  BY <1>a DEF Locations, callVars
<1>3. OwnersSound'
  BY <1>a DEF OwnersSound, Listed, procVars
<1>4. CreatorsSound'
  BY <1>a DEF CreatorsSound, procVars, callVars
<1>5. ChildrenSound'
  BY <1>a, <1>b DEF ChildrenSound, Alive, TargetProcess, callVars
<1>6. ThreadRefsSound'
  BY <1>a DEF ThreadRefsSound, Alive
<1>7. FirstThread'
  BY <1>a DEF FirstThread, callVars
<1>8. ListLockExclusive'
  BY <1>a DEF ListLockExclusive
<1> QED
  BY <1>1, <1>2, <1>3, <1>4, <1>5, <1>6, <1>7, <1>8

\* _ProcessDestroy only changes a state that is not that of a new object.
LEMMA StructureDestroyStep ==
  ASSUME Structure, NEW p \in Processes, DestroyStep(p)
  PROVE  Structure'
<1> USE DEF Structure, Types, threadVars, callVars
<1>a. /\ UNCHANGED <<RefCnt, ThreadList, NumberOfThreads, ActiveThreads, TerminationEvt,
                     TerminationStatus, threadVars, callVars>>
      /\ \E to \in Destroying \union {"freed"} : state' = [state EXCEPT ![p] = to]
      /\ state[p] # "none"
  BY DEF DestroyStep, RemoveFromProcessList, DestroyAddressSpace, _ProcessSystemFreePid,
         FreeProcess, Step, Destroying
<1>b. /\ state' \in [Processes -> ProcessStates]
      /\ \A q \in Processes : state'[q] = "none" <=> state[q] = "none"
  BY <1>a DEF ProcessStates, Destroying
<1>1. Types' /\ Locations' /\ ThreadRefsSound' /\ FirstThread' /\ ListLockExclusive'
  BY <1>a, <1>b DEF Locations, ThreadRefsSound, FirstThread, ListLockExclusive
<1>2. OwnersSound' /\ CreatorsSound'
  BY <1>a, <1>b DEF OwnersSound, CreatorsSound
<1>3. ChildrenSound'
  BY <1>a DEF ChildrenSound, TargetProcess
<1> QED
  BY <1>1, <1>2, <1>3

\* Nothing that Structure is about changes.
LEMMA StructureKept ==
  ASSUME Structure, UNCHANGED <<procVars, threadVars, callVars>>
  PROVE  Structure'
BY DEF Structure, Types, Locations, OwnersSound, CreatorsSound, ChildrenSound, TargetProcess,
       ThreadRefsSound, FirstThread, ListLockExclusive, procVars, threadVars, callVars

\* Every step keeps Structure.
LEMMA NextStructure == Structure /\ [Next]_vars => Structure'
<1> SUFFICES ASSUME Structure, [Next]_vars PROVE Structure'
  OBVIOUS
<1>1. ASSUME NEW c \in Creators, CreatorStep(c) PROVE Structure'
  BY <1>1, StructureProcessInit, StructureProcessInitFails, StructureLoadApplication,
     StructureHandleStep DEF CreatorStep
<1>2. ASSUME NEW a \in Actors, ThreadCreateEx(a) \/ CallReturns(a) PROVE Structure'
  BY <1>2, StructureThreadCreateEx, StructureSetupThread, StructureSetupThreadFails,
     StructureThreadCloseHandle, StructureThreadDestroyed DEF CallReturns
<1>3. ASSUME NEW t \in Threads, ExitStep(t) \/ ThreadExit(t) \/ ProcessTerminateSelf(t)
      PROVE  Structure'
  BY <1>3, StructureExitStep, StructureThreadCleanupPostSchedule DEF ExitStep
<1>4. ASSUME NEW t \in Threads, NEW c \in CPUs, Execute(t, c) PROVE Structure'
  BY <1>4, StructureKept DEF Execute
<1>5. ASSUME NEW p \in Processes, DestroyStep(p) PROVE Structure'
  BY <1>5, StructureDestroyStep
<1>6. CASE UNCHANGED vars
  BY <1>6, StructureKept DEF vars
<1> QED
  BY <1>1, <1>2, <1>3, <1>4, <1>5, <1>6 DEF Next

\* Nothing exists at first.
LEMMA InitStructure == Init => Structure
<1> SUFFICES ASSUME Init PROVE Structure
  OBVIOUS
<1> USE ProcessLifetimeAssumption DEF Init
<1>1. Types
  BY DEF Types, ProcessStates, ThreadStates
<1>2. Locations
  BY DEF Locations, CreatorLocations, ThreadLocations, Actors
<1>3. OwnersSound
  <2>1. \A p \in Processes : ThreadList[p] = {t \in Threads : owner[t] = p /\ thread[t] \in Listed}
    <3> SUFFICES ASSUME NEW p \in Processes, NEW t \in Threads
                 PROVE  thread[t] \notin Listed
      OBVIOUS
    <3> QED
      BY DEF Listed
  <2> QED
    BY <2>1 DEF OwnersSound
<1>4. CreatorsSound
  BY DEF CreatorsSound, Actors
<1>5. ChildrenSound
  BY DEF ChildrenSound, Actors
<1>6. ThreadRefsSound /\ FirstThread /\ ListLockExclusive
  BY DEF ThreadRefsSound, Alive, FirstThread, ListLockExclusive
<1> QED
  BY <1>1, <1>2, <1>3, <1>4, <1>5, <1>6 DEF Structure

\* The threads, creators and handles of the processes are always as
\* Structure says, whichever calls overlap.
THEOREM StructureSafe == Spec => []Structure
<1> QED
  BY InitStructure, NextStructure, PTL DEF Spec

(***************************************************************************)
(* Every step keeps Counting.                                              *)
(***************************************************************************)

\* Threads, handles and executing threads of a process are finite sets.
LEMMA FiniteParts ==
  ASSUME Types, NEW p \in Processes
  PROVE  /\ IsFiniteSet(ThreadList[p]) /\ IsFiniteSet(Handles(p)) /\ IsFiniteSet(Executors(p))
         /\ Cardinality(ThreadList[p]) \in Nat
         /\ Cardinality(Handles(p)) \in Nat
         /\ Cardinality(Executors(p)) \in Nat
<1>1. ThreadList[p] \in SUBSET Threads /\ Handles(p) \in SUBSET Creators
      /\ Executors(p) \in SUBSET Threads
  BY DEF Types, Handles, Executors
<1>2. IsFiniteSet(ThreadList[p]) /\ IsFiniteSet(Handles(p)) /\ IsFiniteSet(Executors(p))
  BY <1>1, FS_Subset, ProcessLifetimeAssumption
<1> QED
  BY <1>2, FS_CardinalityType

\* A process nothing happens to stays exact.
LEMMA CountedKept ==
  ASSUME NEW p \in Processes, Counted(p),
         RefCnt'[p] = RefCnt[p], ThreadList'[p] = ThreadList[p],
         NumberOfThreads'[p] = NumberOfThreads[p], ActiveThreads'[p] = ActiveThreads[p],
         Handles(p)' = Handles(p), Executors(p)' = Executors(p),
         InitialReferenceHeld(p)' <=> InitialReferenceHeld(p),
         state'[p] = "live" <=> state[p] = "live"
  PROVE  Counted(p)'
BY DEF Counted

\* A step that moves threads and callers between places that count alike.
LEMMA CountingKept ==
  ASSUME Structure, Counting,
         UNCHANGED <<RefCnt, ThreadList, NumberOfThreads, ActiveThreads, owner, process>>,
         \A p \in Processes : state'[p] = "live" <=> state[p] = "live",
         \A c \in Creators : process[c] # None =>
           /\ pc'[c] \in Open <=> pc[c] \in Open
           /\ pc'[c] \in {"load", "create"} <=> pc[c] \in {"load", "create"}
           /\ pc'[c] = "failed" <=> pc[c] = "failed",
         \A t \in Threads :
           /\ thread'[t] \in Executing <=> thread[t] \in Executing
           /\ thread'[t] \in {"unlockLast", "last"} <=> thread[t] \in {"unlockLast", "last"}
           /\ thread'[t] = "unlock" => thread[t] = "unlock"
  PROVE  Counting'
<1> USE DEF Counting, Structure
<1>1. ASSUME NEW p \in Processes PROVE Counted(p)'
  <2>1. Handles(p)' = Handles(p) /\ (InitialReferenceHeld(p)' <=> InitialReferenceHeld(p))
    BY ProcessLifetimeAssumption DEF Handles, InitialReferenceHeld, Open
  <2>2. Executors(p)' = Executors(p)
    BY DEF Executors, Types
  <2> QED
    BY <2>1, <2>2, CountedKept
<1>2. LastThread'
  BY DEF LastThread
<1> QED
  BY <1>1, <1>2

\* _ProcessInit: the new object has the initial reference.
LEMMA CountingProcessInit ==
  ASSUME Structure, Counting, NEW c \in Creators, _ProcessInit(c)
  PROVE  Counting'
<1> USE ProcessLifetimeAssumption DEF Counting, Structure, Types
<1>a. /\ pc[c] = "start" /\ pc' = [pc EXCEPT ![c] = "load"] /\ pc \in [Actors -> CreatorLocations]
      /\ UNCHANGED <<ThreadList, NumberOfThreads, ActiveThreads, thread, owner>>
      /\ c \in Actors
  BY DEF _ProcessInit, threadVars, Locations, Actors
<1>b. PICK p \in Processes :
        /\ state[p] = "none" /\ state' = [state EXCEPT ![p] = "live"]
        /\ process' = [process EXCEPT ![c] = p]
        /\ RefCnt' = [RefCnt EXCEPT ![p] = 1]
  BY DEF _ProcessInit
<1>c. \A d \in Creators : process[d] # p
  BY <1>b DEF CreatorsSound
<1>d. process[c] = None /\ \A q \in Processes : Executors(q)' = Executors(q)
  BY <1>a DEF CreatorsSound, Executors
<1>1. ASSUME NEW q \in Processes, q # p PROVE Counted(q)'
  <2>1. Handles(q)' = Handles(q) /\ (InitialReferenceHeld(q)' <=> InitialReferenceHeld(q))
    BY <1>1, <1>a, <1>b, <1>d, Creators \subseteq Actors DEF Handles, InitialReferenceHeld, Actors
  <2> QED
    BY <1>1, <1>a, <1>b, <1>d, <2>1, CountedKept
<1>2. Counted(p)'
  <2>1. Handles(p)' = {} /\ InitialReferenceHeld(p)'
    BY <1>a, <1>b, <1>c, Creators \subseteq Actors DEF Handles, InitialReferenceHeld, Actors
  <2>2. ThreadList[p] = {}
    BY <1>b DEF OwnersSound
  <2> QED
    <3>1. Cardinality(ThreadList[p])' = 0 /\ Cardinality(Handles(p))' = 0
      BY <1>a, <2>1, <2>2, FS_EmptySet
    <3>2. RefCnt'[p] = 1 /\ state'[p] = "live"
      BY <1>b
    <3>3. NumberOfThreads[p] = Cardinality(ThreadList[p]) /\ ActiveThreads[p] = Cardinality(Executors(p))
      BY DEF Counted
    <3> QED
      BY <1>a, <1>d, <2>1, <3>1, <3>2, <3>3 DEF Counted
<1>3. LastThread'
  BY <1>a DEF LastThread
<1> QED
  BY <1>1, <1>2, <1>3

\* Whoever drops a reference that the counts of the process include leaves
\* the count exact, and the process alive unless it was the last.
LEMMA CountedDereference ==
  ASSUME Types, NEW p \in Processes, Counted(p), _ProcessDereference(p),
         \/ /\ Cardinality(ThreadList[p])' = Cardinality(ThreadList[p]) - 1
            /\ Handles(p)' = Handles(p)
            /\ InitialReferenceHeld(p)' <=> InitialReferenceHeld(p)
         \/ /\ Cardinality(Handles(p))' = Cardinality(Handles(p)) - 1
            /\ ThreadList'[p] = ThreadList[p]
            /\ InitialReferenceHeld(p)' <=> InitialReferenceHeld(p)
         \/ /\ InitialReferenceHeld(p) /\ ~InitialReferenceHeld(p)'
            /\ ThreadList'[p] = ThreadList[p] /\ Handles(p)' = Handles(p),
         IsFiniteSet(ThreadList'[p]), IsFiniteSet(Handles(p)'),
         NumberOfThreads'[p] = Cardinality(ThreadList[p])',
         ActiveThreads'[p] = ActiveThreads[p], Executors(p)' = Executors(p)
  PROVE  Counted(p)'
<1>1. /\ Cardinality(ThreadList[p]) \in Nat /\ Cardinality(Handles(p)) \in Nat
      /\ Cardinality(ThreadList'[p]) \in Nat /\ Cardinality(Handles(p)') \in Nat
  BY FiniteParts, FS_CardinalityType
<1>2. RefCnt[p] > 0 /\ state[p] = "live" /\ RefCnt'[p] = RefCnt[p] - 1
  BY <1>1 DEF Counted, _ProcessDereference, Types
<1>3. RefCnt'[p] = Cardinality(ThreadList'[p]) + Cardinality(Handles(p)')
                     + (IF InitialReferenceHeld(p)' THEN 1 ELSE 0)
  BY <1>1, <1>2 DEF Counted
<1>4. IF state'[p] = "live" THEN RefCnt'[p] > 0 ELSE RefCnt'[p] = 0
  BY <1>2 DEF _ProcessDereference, Types
<1> QED
  BY <1>3, <1>4 DEF Counted

\* ProcessCreate gives up: the initial reference is dropped.
LEMMA CountingProcessCreateFails ==
  ASSUME Structure, Counting, NEW c \in Creators, pc[c] \in {"load", "setup"}, ProcessCreateFails(c)
  PROVE  Counting'
<1> USE ProcessLifetimeAssumption DEF Counting, Structure
<1>p. PICK p \in Processes : p = process[c]
  BY DEF CreatorsSound, Types
<1>a. p = process[c] /\ pc' = [pc EXCEPT ![c] = "failed"] /\ _ProcessDereference(p)
      /\ UNCHANGED <<ThreadList, NumberOfThreads, ActiveThreads, thread, owner, process>>
  BY <1>p DEF ProcessCreateFails, threadVars
<1>b. pc \in [Actors -> CreatorLocations] /\ Creators \subseteq Actors
  BY DEF Locations, Actors
<1>c. \A q \in Processes : Handles(q)' = Handles(q) /\ Executors(q)' = Executors(q)
  BY <1>a, <1>b DEF Handles, Executors
<1>1. ASSUME NEW q \in Processes, q # p PROVE Counted(q)'
  <2>1. InitialReferenceHeld(q)' <=> InitialReferenceHeld(q)
    BY <1>1, <1>a, <1>b DEF InitialReferenceHeld
  <2>2. RefCnt'[q] = RefCnt[q] /\ state'[q] = state[q]
    BY <1>1, <1>a DEF _ProcessDereference, Types
  <2> QED
    BY <1>a, <1>c, <2>1, <2>2, CountedKept
<1>2. Counted(p)'
  <2>1. InitialReferenceHeld(p)
    <3>1. \A d \in Creators : process[d] = p => d = c
      BY <1>a DEF CreatorsSound
    <3>2. pc[c] = "setup" => child[c] \in ThreadList[p]
      BY <1>a, <1>b DEF ChildrenSound, OwnersSound, TargetProcess, Listed
    <3> QED
      BY <1>a, <3>1, <3>2 DEF InitialReferenceHeld
  <2>2. ~InitialReferenceHeld(p)'
    BY <1>a, <1>b DEF InitialReferenceHeld
  <2>3. IsFiniteSet(ThreadList'[p]) /\ IsFiniteSet(Handles(p)')
    BY <1>a, <1>c, FiniteParts
  <2> QED
    BY <1>a, <1>c, <2>1, <2>2, <2>3, CountedDereference DEF Counted
<1>3. LastThread'
  BY <1>a DEF LastThread
<1> QED
  BY <1>1, <1>2, <1>3

\* ThreadCreateEx: the list was not empty, or the creator owed the initial
\* reference until now.
LEMMA CountingThreadCreateEx ==
  ASSUME Structure, Counting, NEW a \in Actors, ThreadCreateEx(a)
  PROVE  Counting'
<1> USE ProcessLifetimeAssumption DEF Counting, Structure
<1>p. PICK p \in Processes : p = TargetProcess(a)
  BY DEF ThreadCreateEx, MayCreateThread, TargetProcess, CreatorsSound, OwnersSound, Types, Locations, Actors
<1>a. PICK t \in Threads :
        /\ thread[t] = "none" /\ thread' = [thread EXCEPT ![t] = "setup"]
        /\ ProcessInsertThreadInList(p, t)
  BY <1>p DEF ThreadCreateEx
<1>b. /\ MayCreateThread(a) /\ pc' = [pc EXCEPT ![a] = "setup"]
      /\ UNCHANGED <<state, process>>
  BY DEF ThreadCreateEx
<1>c. pc \in [Actors -> CreatorLocations] /\ Actors = Creators \union Threads
  BY DEF Locations, Actors
<1>d. /\ a \in Creators => pc[a] = "create" /\ p = process[a]
      /\ a \notin Creators => a \in Threads /\ thread[a] = "running" /\ p = owner[a]
  BY <1>b, <1>c, <1>p DEF MayCreateThread, TargetProcess
<1>e. /\ owner' = [owner EXCEPT ![t] = p]
      /\ NumberOfThreads' = [NumberOfThreads EXCEPT ![p] = @ + 1]
      /\ ActiveThreads' = [ActiveThreads EXCEPT ![p] = @ + 1]
      /\ ThreadList' = [ThreadList EXCEPT ![p] = @ \union {t}]
      /\ RefCnt' = [RefCnt EXCEPT ![p] = @ + 1]
  BY <1>a DEF ProcessInsertThreadInList, _ProcessReference
<1>f. owner[t] = None /\ \A q \in Processes : t \notin ThreadList[q]
  BY <1>a DEF OwnersSound, Listed
<1>g. \A q \in Processes : Handles(q)' = Handles(q)
  BY <1>b, <1>c, <1>d DEF Handles
<1>h. \A d \in Creators : process[d] = p => pc[d] # "failed"
  BY <1>c, <1>d DEF CreatorsSound, FirstThread
<1>i. a \in Creators \/ a \in ThreadList[p]
  BY <1>d DEF OwnersSound, Listed
<1>1. ASSUME NEW q \in Processes, q # p PROVE Counted(q)'
  <2>1. ThreadList'[q] = ThreadList[q] /\ Executors(q)' = Executors(q)
    BY <1>1, <1>a, <1>e, <1>f DEF Executors, Types
  <2>2. InitialReferenceHeld(q)' <=> InitialReferenceHeld(q)
    BY <1>1, <1>a, <1>b, <1>c, <1>d, <1>e, <1>f, <2>1 DEF InitialReferenceHeld, Types
  <2>3. RefCnt'[q] = RefCnt[q] /\ NumberOfThreads'[q] = NumberOfThreads[q]
        /\ ActiveThreads'[q] = ActiveThreads[q] /\ state'[q] = state[q]
    BY <1>1, <1>b, <1>e DEF Types
  <2> QED
    BY <1>g, <2>1, <2>2, <2>3, CountedKept
<1>2. Counted(p)'
  <2>1. InitialReferenceHeld(p) /\ InitialReferenceHeld(p)'
    BY <1>b, <1>c, <1>d, <1>e, <1>h, <1>i DEF InitialReferenceHeld, Types
  <2>2. ThreadList'[p] = ThreadList[p] \union {t} /\ Executors(p)' = Executors(p) \union {t}
    BY <1>a, <1>d, <1>e DEF Executors, Executing, Types
  <2>3. t \notin ThreadList[p] /\ t \notin Executors(p)
    BY <1>d, <1>f DEF Executors
  <2>4. Cardinality(ThreadList[p])' = Cardinality(ThreadList[p]) + 1
        /\ Cardinality(Executors(p))' = Cardinality(Executors(p)) + 1
    <3>1. IsFiniteSet(ThreadList[p]) /\ IsFiniteSet(Executors(p))
      BY FiniteParts
    <3>2. Cardinality(ThreadList[p] \union {t}) = Cardinality(ThreadList[p]) + 1
      BY <2>3, <3>1, FS_AddElement
    <3>3. Cardinality(Executors(p) \union {t}) = Cardinality(Executors(p)) + 1
      BY <2>3, <3>1, FS_AddElement
    <3> QED
      BY <2>2, <3>2, <3>3
  <2>5. RefCnt'[p] = RefCnt[p] + 1 /\ NumberOfThreads'[p] = NumberOfThreads[p] + 1
        /\ ActiveThreads'[p] = ActiveThreads[p] + 1 /\ state'[p] = state[p]
    BY <1>b, <1>d, <1>e DEF Types
  <2>6. RefCnt[p] > 0
    BY <1>d, <2>1, FiniteParts DEF Counted
  <2>7. Cardinality(ThreadList[p]) \in Nat /\ Cardinality(Handles(p)) \in Nat
        /\ Cardinality(Executors(p)) \in Nat /\ Cardinality(Handles(p))' = Cardinality(Handles(p))
    BY <1>d, <1>g, FiniteParts
  <2> QED
    BY <1>d, <2>1, <2>4, <2>5, <2>6, <2>7 DEF Counted
<1>3. LastThread'
  <2>1. \A u \in Threads : thread[u] \in {"unlockLast", "last"} => owner[u] # p
    BY <1>d, <1>i DEF LastThread, FirstThread
  <2>2. \A u \in Threads \ {t} : thread'[u] = thread[u] /\ owner'[u] = owner[u] /\ owner[u] \in Processes \union {None}
    BY <1>a, <1>e DEF Types
  <2>3. thread'[t] = "setup"
    BY <1>a DEF Types
  <2>4. \A q \in Processes : ThreadList[q] \subseteq ThreadList'[q] /\ (q # p => ThreadList'[q] = ThreadList[q])
    BY <1>e DEF Types
  <2>5. \A u \in Threads : thread[u] \in {"unlock", "unlockLast", "last"} => owner[u] \in Processes
    BY DEF OwnersSound, Types
  <2> QED
    BY <2>1, <2>2, <2>3, <2>4, <2>5 DEF LastThread
<1> QED
  BY <1>1, <1>2, <1>3

\* The rest of ThreadCreateEx and ThreadCloseHandle: no count changes.
LEMMA CountingCallReturns ==
  ASSUME Structure, Counting, NEW a \in Actors, CallReturns(a)
  PROVE  Counting'
<1> USE ProcessLifetimeAssumption DEF procVars, threadVars, callVars
<1>a. pc \in [Actors -> CreatorLocations] /\ Creators \subseteq Actors /\ Types
  BY DEF Structure, Locations, Actors
<1>1. CASE SetupThread(a)
  <2>1. child[a] \in Threads /\ thread[child[a]] = "setup"
    BY <1>1 DEF SetupThread, Structure, ChildrenSound
  <2> QED
    BY <1>1, <1>a, <2>1, CountingKept DEF SetupThread, Executing, Open, Types
<1>2. CASE SetupThreadFails(a) /\ a \in Creators
  BY <1>2, CountingProcessCreateFails DEF SetupThreadFails
<1>3. CASE SetupThreadFails(a) /\ a \notin Creators
  BY <1>3, <1>a, CountingKept DEF SetupThreadFails
<1>4. CASE ThreadCloseHandle(a)
  <2>1. child[a] \in Threads /\ (threadRefs[child[a]] = 1 => thread[child[a]] = "dead")
    BY <1>4 DEF ThreadCloseHandle, Structure, ChildrenSound
  <2>2. pc[a] = "close" /\ \E to \in {"destroying", "reference", "start"} :
          /\ pc' = [pc EXCEPT ![a] = to]
          /\ a \in Creators => to # "start"
    BY <1>4 DEF ThreadCloseHandle, AfterClose
  <2>3. \A t \in Threads : thread'[t] = thread[t] \/ (thread[t] = "dead" /\ thread'[t] = "destroy")
    <3>1. CASE threadRefs[child[a]] = 1
      BY <1>4, <1>a, <2>1, <3>1 DEF ThreadCloseHandle, Types
    <3>2. CASE threadRefs[child[a]] # 1
      BY <1>4, <3>2 DEF ThreadCloseHandle
    <3> QED
      BY <3>1, <3>2
  <2> QED
    BY <1>4, <1>a, <2>2, <2>3, CountingKept DEF ThreadCloseHandle, Executing, Open
<1>5. CASE ThreadDestroyed(a)
  <2>1. pc[a] = "destroying" /\ \E to \in {"reference", "start"} :
          /\ pc' = [pc EXCEPT ![a] = to]
          /\ a \in Creators => to # "start"
    BY <1>5 DEF ThreadDestroyed, AfterClose
  <2> QED
    BY <1>5, <1>a, <2>1, CountingKept DEF ThreadDestroyed, Open
<1> QED
  BY <1>1, <1>2, <1>3, <1>4, <1>5 DEF CallReturns

\* ProcessCreate and the holder of a handle.
LEMMA CountingCreatorStep ==
  ASSUME Structure, Counting, NEW c \in Creators, CreatorStep(c)
  PROVE  Counting'
<1> USE ProcessLifetimeAssumption DEF procVars, threadVars, callVars
<1>a. pc \in [Actors -> CreatorLocations] /\ Creators \subseteq Actors /\ Types /\ LastThread
  BY DEF Structure, Locations, Actors, Counting
<1>1. CASE _ProcessInit(c)
  BY <1>1, CountingProcessInit
<1>2. CASE _ProcessInitFails(c)
  <2>1. process[c] = None
    BY <1>2 DEF _ProcessInitFails, Structure, CreatorsSound
  <2> QED
    BY <1>2, <1>a, <2>1, CountingKept DEF _ProcessInitFails
<1>3. CASE LoadApplication(c) /\ ~ProcessCreateFails(c)
  BY <1>3, <1>a, CountingKept DEF LoadApplication, Open
<1>4. CASE LoadApplication(c) /\ ProcessCreateFails(c)
  BY <1>4, CountingProcessCreateFails DEF LoadApplication
<1>5. CASE ReferenceFreedProcess(c)
  BY <1>5, <1>a, CountingKept DEF ReferenceFreedProcess, Open
<1>6. CASE ProcessTerminate(c)
  BY <1>6, <1>a, CountingKept DEF ProcessTerminate, Open
<1>7. CASE ProcessWaitForTermination(c)
  BY <1>7, <1>a, CountingKept DEF ProcessWaitForTermination, Open
<1>8. ASSUME NEW p \in Processes, p = process[c], ReferenceHandle(c) \/ ProcessCloseHandle(c)
      PROVE  Counting'
  <2>a. \/ /\ pc[c] = "reference" /\ state[p] = "live" /\ pc' = [pc EXCEPT ![c] = "open"]
           /\ _ProcessReference(p) /\ UNCHANGED state
        \/ /\ pc[c] \in {"open", "waited"} /\ pc' = [pc EXCEPT ![c] = "closed"]
           /\ _ProcessDereference(p)
    BY <1>8 DEF ReferenceHandle, ProcessCloseHandle
  <2>b. UNCHANGED <<ThreadList, NumberOfThreads, ActiveThreads, thread, owner, process>>
    BY <1>8 DEF ReferenceHandle, ProcessCloseHandle
  <2>c. \A q \in Processes :
          Executors(q)' = Executors(q) /\ (InitialReferenceHeld(q)' <=> InitialReferenceHeld(q))
    BY <1>a, <2>a, <2>b DEF Executors, InitialReferenceHeld
  <2>1. ASSUME NEW q \in Processes, q # p PROVE Counted(q)'
    <3>1. Handles(q)' = Handles(q)
      BY <1>8, <1>a, <2>1, <2>a, <2>b DEF Handles
    <3>2. RefCnt'[q] = RefCnt[q] /\ state'[q] = state[q]
      BY <1>a, <2>1, <2>a DEF _ProcessReference, _ProcessDereference, Types
    <3> QED
      BY <2>b, <2>c, <3>1, <3>2, CountedKept DEF Counting
  <2>2. ASSUME pc[c] = "reference" PROVE Counted(p)'
    <3>1. Handles(p)' = Handles(p) \union {c} /\ c \notin Handles(p)
      BY <1>8, <1>a, <2>2, <2>a, <2>b DEF Handles
    <3>2. Cardinality(Handles(p))' = Cardinality(Handles(p)) + 1
      BY <1>a, <3>1, FiniteParts, FS_AddElement
    <3>3. RefCnt'[p] = RefCnt[p] + 1 /\ state[p] = "live" /\ state'[p] = "live"
      BY <1>a, <2>2, <2>a DEF _ProcessReference, Types
    <3>4. Counted(p) /\ Cardinality(ThreadList[p]) \in Nat /\ Cardinality(Handles(p)) \in Nat
      BY <1>a, FiniteParts DEF Counting
    <3>5. /\ Cardinality(ThreadList[p])' = Cardinality(ThreadList[p])
          /\ Cardinality(Executors(p))' = Cardinality(Executors(p))
          /\ NumberOfThreads'[p] = NumberOfThreads[p] /\ ActiveThreads'[p] = ActiveThreads[p]
          /\ InitialReferenceHeld(p)' <=> InitialReferenceHeld(p)
      BY <2>b, <2>c
    <3> QED
      BY <3>2, <3>3, <3>4, <3>5 DEF Counted
  <2>3. ASSUME pc[c] \in {"open", "waited"} PROVE Counted(p)'
    <3>1. Handles(p)' = Handles(p) \ {c} /\ c \in Handles(p)
      BY <1>8, <1>a, <2>3, <2>a, <2>b DEF Handles
    <3>2. Cardinality(Handles(p))' = Cardinality(Handles(p)) - 1 /\ IsFiniteSet(Handles(p)')
      BY <1>a, <3>1, FiniteParts, FS_RemoveElement
    <3>3. Counted(p) /\ IsFiniteSet(ThreadList'[p])
      BY <1>a, <2>b, FiniteParts DEF Counting
    <3>4. /\ _ProcessDereference(p) /\ ThreadList'[p] = ThreadList[p]
          /\ NumberOfThreads'[p] = Cardinality(ThreadList[p])'
          /\ ActiveThreads'[p] = ActiveThreads[p] /\ Executors(p)' = Executors(p)
          /\ InitialReferenceHeld(p)' <=> InitialReferenceHeld(p)
      BY <2>3, <2>a, <2>b, <2>c, <3>3 DEF Counted
    <3> QED
      BY <1>a, <3>2, <3>3, <3>4, CountedDereference
  <2>4. LastThread'
    BY <1>a, <2>b DEF LastThread
  <2> QED
    BY <2>1, <2>2, <2>3, <2>4, <2>a DEF Counting
<1>9. CASE ReferenceHandle(c) \/ ProcessCloseHandle(c)
  <2>1. process[c] \in Processes
    BY <1>9, <1>a DEF ReferenceHandle, ProcessCloseHandle, Structure, CreatorsSound, Types
  <2> QED
    BY <1>8, <1>9, <2>1
<1> QED
  BY <1>1, <1>2, <1>3, <1>4, <1>5, <1>6, <1>7, <1>9 DEF CreatorStep

\* ProcessNotifyThreadTermination: one thread fewer executes.
LEMMA CountingNotifyDecrement ==
  ASSUME Structure, Counting, NEW t \in Threads, NotifyDecrement(t)
  PROVE  Counting'
<1> USE ProcessLifetimeAssumption DEF Counting, Structure
<1>a. PICK to \in {"status", "dying"} :
        /\ thread[t] = "exiting" /\ thread' = [thread EXCEPT ![t] = to]
        /\ ActiveThreads' = [ActiveThreads EXCEPT ![owner[t]] = @ - 1]
        /\ UNCHANGED <<state, RefCnt, ThreadList, NumberOfThreads, owner, callVars>>
  BY DEF NotifyDecrement
<1>b. PICK p \in Processes : p = owner[t] /\ t \in ThreadList[p]
  BY <1>a DEF OwnersSound, Types, Listed
<1>c. \A q \in Processes : Handles(q)' = Handles(q) /\ (InitialReferenceHeld(q)' <=> InitialReferenceHeld(q))
  <2>1. \A u \in Threads : thread'[u] \in {"unlockLast", "last"} <=> thread[u] \in {"unlockLast", "last"}
    BY <1>a DEF Types
  <2> QED
    BY <1>a, <2>1 DEF Handles, InitialReferenceHeld, callVars
<1>1. ASSUME NEW q \in Processes, q # p PROVE Counted(q)'
  <2>1. Executors(q)' = Executors(q)
    BY <1>1, <1>a, <1>b DEF Executors, OwnersSound, Types
  <2> QED
    BY <1>1, <1>a, <1>b, <1>c, <2>1, CountedKept DEF Types
<1>2. Counted(p)'
  <2>1. Executors(p)' = Executors(p) \ {t} /\ t \in Executors(p)
    BY <1>a, <1>b DEF Executors, Executing, Types
  <2>2. Cardinality(Executors(p))' = Cardinality(Executors(p)) - 1
    BY <2>1, FiniteParts, FS_RemoveElement
  <2>3. ActiveThreads'[p] = ActiveThreads[p] - 1
    BY <1>a, <1>b DEF Types
  <2>4. /\ RefCnt'[p] = RefCnt[p] /\ NumberOfThreads'[p] = NumberOfThreads[p] /\ state'[p] = state[p]
        /\ ThreadList'[p] = ThreadList[p]
    BY <1>a
  <2> QED
    BY <1>c, <2>2, <2>3, <2>4 DEF Counted
<1>3. LastThread'
  BY <1>a DEF LastThread, Types
<1> QED
  BY <1>1, <1>2, <1>3

\* ProcessRemoveThreadFromList: the thread takes its reference with it, and
\* owes the initial one too if the list is empty now.
LEMMA CountingRemoveThread ==
  ASSUME Structure, Counting, NEW t \in Threads, RemoveThread(t)
  PROVE  Counting'
<1> USE ProcessLifetimeAssumption DEF Counting, Structure
<1>b. PICK p \in Processes : p = owner[t] /\ t \in ThreadList[p] /\ thread[t] = "destroy"
  BY DEF OwnersSound, Types, Listed, RemoveThread
<1>a. /\ ThreadListLockFree(p)
      /\ NumberOfThreads' = [NumberOfThreads EXCEPT ![p] = @ - 1]
      /\ ThreadList' = [ThreadList EXCEPT ![p] = @ \ {t}]
      /\ _ProcessDereference(p)
      /\ thread' = [thread EXCEPT ![t] = IF NumberOfThreads[p] = 1 THEN "unlockLast" ELSE "unlock"]
      /\ UNCHANGED <<ActiveThreads, owner, callVars>>
  BY <1>b DEF RemoveThread
<1>c. /\ ThreadList[p] \ {t} = {} <=> NumberOfThreads[p] = 1
      /\ Cardinality(ThreadList[p] \ {t}) = Cardinality(ThreadList[p]) - 1
      /\ IsFiniteSet(ThreadList[p] \ {t})
  <2>1. IsFiniteSet(ThreadList[p]) /\ Cardinality(ThreadList[p]) \in Nat
    BY FiniteParts
  <2>2. IsFiniteSet(ThreadList[p] \ {t}) /\ Cardinality(ThreadList[p] \ {t}) = Cardinality(ThreadList[p]) - 1
    BY <1>b, <2>1, FS_RemoveElement
  <2>3. Cardinality(ThreadList[p] \ {t}) = 0 <=> ThreadList[p] \ {t} = {}
    BY <2>2, FS_EmptySet
  <2> QED
    BY <2>1, <2>2, <2>3 DEF Counted
<1>d. /\ ThreadList'[p] = ThreadList[p] \ {t}
      /\ \A q \in Processes : q # p => ThreadList'[q] = ThreadList[q]
      /\ \A u \in Threads : u # t => thread'[u] = thread[u]
      /\ thread'[t] = IF ThreadList'[p] = {} THEN "unlockLast" ELSE "unlock"
  BY <1>a, <1>c DEF Types
<1>e. \A q \in Processes : Handles(q)' = Handles(q)
  BY <1>a DEF Handles, callVars
<1>1. ASSUME NEW q \in Processes, q # p PROVE Counted(q)'
  <2>1. Executors(q)' = Executors(q)
    BY <1>1, <1>b, <1>d DEF Executors, OwnersSound
  <2>2. InitialReferenceHeld(q)' <=> InitialReferenceHeld(q)
    BY <1>1, <1>a, <1>b, <1>d DEF InitialReferenceHeld, callVars
  <2> QED
    BY <1>1, <1>a, <1>d, <1>e, <2>1, <2>2, CountedKept DEF _ProcessDereference, Types
<1>2. Counted(p)'
  <2>1. Executors(p)' = Executors(p)
    BY <1>b, <1>d DEF Executors, Executing, Types
  <2>2. InitialReferenceHeld(p)' <=> InitialReferenceHeld(p)
    BY <1>a, <1>b, <1>d DEF InitialReferenceHeld, callVars
  <2>3. NumberOfThreads'[p] = Cardinality(ThreadList[p])'
    BY <1>a, <1>c, <1>d DEF Counted, Types
  <2>4. ActiveThreads'[p] = ActiveThreads[p] /\ IsFiniteSet(Handles(p)')
    BY <1>a, <1>e, FiniteParts
  <2>5. Cardinality(ThreadList[p])' = Cardinality(ThreadList[p]) - 1 /\ IsFiniteSet(ThreadList'[p])
    BY <1>c, <1>d
  <2> QED
    BY <1>a, <1>e, <2>1, <2>2, <2>3, <2>4, <2>5, CountedDereference
<1>3. LastThread'
  <2>1. \A u \in Threads : thread[u] \in {"unlock", "unlockLast", "last"} => owner[u] # p
    BY <1>a, <1>b DEF LastThread, ThreadListLockFree
  <2>2. \A u \in Threads : thread[u] \in {"unlock", "unlockLast", "last"} => owner[u] \in Processes
    BY DEF OwnersSound, Types
  <2> QED
    BY <1>a, <1>b, <1>d, <2>1, <2>2 DEF LastThread
<1> QED
  BY <1>1, <1>2, <1>3

\* The last thread drops the initial reference.
LEMMA CountingDereferenceLast ==
  ASSUME Structure, Counting, NEW t \in Threads, DereferenceLast(t)
  PROVE  Counting'
<1> USE ProcessLifetimeAssumption DEF Counting, Structure
<1>b. PICK p \in Processes : p = owner[t] /\ thread[t] = "last" /\ ThreadList[p] = {}
  BY DEF OwnersSound, Types, DereferenceLast, LastThread
<1>a. /\ _ProcessDereference(p) /\ thread' = [thread EXCEPT ![t] = "tail"]
      /\ UNCHANGED <<ThreadList, NumberOfThreads, ActiveThreads, owner, callVars>>
  BY <1>b DEF DereferenceLast
<1>d. \A u \in Threads : u # t => thread'[u] = thread[u]
  BY <1>a
<1>e. thread'[t] = "tail"
  BY <1>a DEF Types
<1>f. \A q \in Processes : Handles(q)' = Handles(q) /\ Executors(q)' = Executors(q)
  BY <1>a, <1>b, <1>d, <1>e DEF Handles, Executors, Executing, callVars
<1>1. ASSUME NEW q \in Processes, q # p PROVE Counted(q)'
  <2>1. InitialReferenceHeld(q)' <=> InitialReferenceHeld(q)
    BY <1>1, <1>a, <1>b, <1>d DEF InitialReferenceHeld, callVars
  <2> QED
    BY <1>1, <1>a, <1>f, <2>1, CountedKept DEF _ProcessDereference, Types
<1>2. Counted(p)'
  <2>1. \A c \in Creators : process[c] = p => pc[c] \notin {"failed", "load", "create"}
    BY <1>b DEF FirstThread
  <2>2. InitialReferenceHeld(p)
    BY <1>b, <2>1 DEF InitialReferenceHeld
  <2>3. \A u \in Threads : owner[u] = p /\ thread[u] \in {"unlockLast", "last"} => u = t
    BY <1>b DEF LastThread
  <2>4. ~InitialReferenceHeld(p)'
    BY <1>a, <1>b, <1>d, <1>e, <2>1, <2>3 DEF InitialReferenceHeld, callVars
  <2>5. /\ IsFiniteSet(ThreadList'[p]) /\ IsFiniteSet(Handles(p)')
        /\ NumberOfThreads'[p] = Cardinality(ThreadList[p])'
        /\ ActiveThreads'[p] = ActiveThreads[p] /\ ThreadList'[p] = ThreadList[p]
    BY <1>a, <1>f, FiniteParts DEF Counted
  <2> QED
    BY <1>a, <1>f, <2>2, <2>4, <2>5, CountedDereference
<1>3. LastThread'
  BY <1>a, <1>d, <1>e DEF LastThread
<1> QED
  BY <1>1, <1>2, <1>3

\* A thread that runs, exits or is destroyed.
LEMMA CountingThreadStep ==
  ASSUME Structure, Counting, NEW t \in Threads,
         ExitStep(t) \/ ThreadExit(t) \/ ProcessTerminateSelf(t) \/ \E c \in CPUs : Execute(t, c)
  PROVE  Counting'
<1> USE DEF procVars, threadVars, callVars, Executing, Open
<1>a. Types
  BY DEF Structure
<1>1. CASE NotifyDecrement(t)
  BY <1>1, CountingNotifyDecrement
<1>2. CASE NotifyStatus(t)
  BY <1>2, <1>a, CountingKept DEF NotifyStatus, Types
<1>3. CASE NotifySignal(t)
  BY <1>3, <1>a, CountingKept DEF NotifySignal, Types
<1>4. CASE ThreadCleanupPostSchedule(t)
  BY <1>4, <1>a, CountingKept DEF ThreadCleanupPostSchedule, Types
<1>5. CASE RemoveThread(t)
  BY <1>5, CountingRemoveThread
<1>6. CASE ReleaseThreadListLock(t)
  BY <1>6, <1>a, CountingKept DEF ReleaseThreadListLock, Types
<1>7. CASE DereferenceLast(t)
  BY <1>7, CountingDereferenceLast
<1>8. CASE FreeThread(t)
  BY <1>8, <1>a, CountingKept DEF FreeThread, Types
<1>9. CASE ThreadExit(t)
  BY <1>9, <1>a, CountingKept DEF ThreadExit, Types
<1>10. CASE ProcessTerminateSelf(t)
  BY <1>10, <1>a, CountingKept DEF ProcessTerminateSelf, Types
<1>11. CASE \E c \in CPUs : Execute(t, c)
  BY <1>11, CountingKept DEF Execute
<1> QED
  BY <1>1, <1>2, <1>3, <1>4, <1>5, <1>6, <1>7, <1>8, <1>9, <1>10, <1>11 DEF ExitStep

\* _ProcessDestroy works on an object nobody references.
LEMMA CountingDestroyStep ==
  ASSUME Structure, Counting, NEW p \in Processes, DestroyStep(p)
  PROVE  Counting'
<1>1. /\ UNCHANGED <<RefCnt, ThreadList, NumberOfThreads, ActiveThreads, threadVars, callVars>>
      /\ state[p] # "live"
      /\ \E to \in Destroying \union {"freed"} : state' = [state EXCEPT ![p] = to]
  BY DEF DestroyStep, RemoveFromProcessList, DestroyAddressSpace, _ProcessSystemFreePid,
         FreeProcess, Step, Destroying
<1>2. \A q \in Processes : state'[q] = "live" <=> state[q] = "live"
  BY <1>1 DEF Structure, Types, Destroying
<1> QED
  BY <1>1, <1>2, CountingKept DEF threadVars, callVars

\* Every step keeps Counting.
LEMMA NextCounting == Structure /\ Counting /\ [Next]_vars => Counting'
<1> SUFFICES ASSUME Structure, Counting, [Next]_vars PROVE Counting'
  OBVIOUS
<1>1. CASE UNCHANGED vars
  BY <1>1, CountingKept DEF vars, procVars, threadVars, callVars
<1> QED
  BY <1>1, CountingCreatorStep, CountingThreadCreateEx, CountingCallReturns, CountingThreadStep,
     CountingDestroyStep DEF Next

\* At first there is nothing to count.
LEMMA InitCounting == Init => Counting
<1> SUFFICES ASSUME Init PROVE Counting
  OBVIOUS
<1>1. ASSUME NEW p \in Processes PROVE Counted(p)
  <2>1. ThreadList[p] = {} /\ Handles(p) = {} /\ Executors(p) = {}
    BY <1>1, ProcessLifetimeAssumption DEF Init, Handles, Executors
  <2>2. ~InitialReferenceHeld(p)
    BY <1>1, <2>1, ProcessLifetimeAssumption DEF Init, InitialReferenceHeld
  <2> QED
    BY <1>1, <2>1, <2>2, FS_EmptySet DEF Counted, Init
<1>2. LastThread
  BY DEF Init, LastThread
<1> QED
  BY <1>1, <1>2 DEF Counting

\* The counters are exact in every reachable state: whatever creations,
\* exits and destructions of threads overlap, the reference count is the
\* number of references owed, and no thread is counted twice or forgotten.
THEOREM CountersSafe == Spec => []CountersExact
<1>1. Structure /\ Counting => CountersExact
  BY DEF Structure, Counting, Counted, CountersExact, ReferencesExact, CountsMatch, Executors, Executing
<1> QED
  BY <1>1, InitStructure, NextStructure, InitCounting, NextCounting, PTL DEF Spec

(***************************************************************************)
(* What the counts keep alive.                                             *)
(***************************************************************************)

\* Whoever uses a process is counted in its references.
LEMMA CountedIsAlive ==
  ASSUME Structure, Counting, NEW p \in Processes,
         ThreadList[p] # {} \/ Handles(p) # {} \/ InitialReferenceHeld(p)
  PROVE  state[p] = "live"
<1>1. RefCnt[p] # 0
  BY FiniteParts, FS_EmptySet DEF Structure, Counting, Counted
<1> QED
  BY <1>1 DEF Counting, Counted

\* Threads up to the end of ProcessRemoveThreadFromList, and creators that
\* build a process or have its handle, find the process alive.
LEMMA UsersCounted == Structure /\ Counting => UsersFindProcess
<1> SUFFICES ASSUME Structure, Counting PROVE UsersFindProcess
  OBVIOUS
<1> USE DEF Structure, Types
<1>1. ASSUME NEW t \in Threads, thread[t] \notin {"none", "tail", "freed"}
      PROVE  state[owner[t]] = "live"
  <2>1. owner[t] \in Processes
    BY <1>1, ProcessLifetimeAssumption DEF OwnersSound
  <2>2. CASE thread[t] \in Listed
    BY <2>1, <2>2, CountedIsAlive DEF OwnersSound
  <2>3. CASE thread[t] = "unlock"
    BY <2>1, <2>3, CountedIsAlive DEF Counting, LastThread
  <2>4. CASE thread[t] \in {"unlockLast", "last"}
    <3>1. \A c \in Creators : process[c] = owner[t] => pc[c] # "failed"
      BY <2>1, <2>4, ProcessLifetimeAssumption DEF FirstThread
    <3> QED
      BY <2>1, <2>4, <3>1, CountedIsAlive DEF InitialReferenceHeld
  <2> QED
    BY <1>1, <2>2, <2>3, <2>4 DEF ThreadStates, Listed
<1>2. ASSUME NEW c \in Creators,
             pc[c] \in {"load", "create", "setup", "open", "wait", "waited"}
      PROVE  state[process[c]] = "live"
  <2>1. process[c] \in Processes
    BY <1>2 DEF CreatorsSound
  <2>2. CASE pc[c] \in Open
    BY <2>1, <2>2, CountedIsAlive DEF Handles, Open
  <2>3. CASE pc[c] = "setup"
    <3>1. child[c] \in ThreadList[process[c]]
      BY <2>1, <2>3 DEF ChildrenSound, OwnersSound, TargetProcess, Listed, Actors
    <3> QED
      BY <2>1, <3>1, CountedIsAlive
  <2>4. CASE pc[c] \in {"load", "create"}
    <3>1. \A d \in Creators : process[d] = process[c] => d = c
      BY <2>1, ProcessLifetimeAssumption DEF CreatorsSound
    <3> QED
      BY <2>1, <2>4, <3>1, CountedIsAlive DEF InitialReferenceHeld
  <2> QED
    BY <1>2, <2>2, <2>3, <2>4 DEF Open
<1> QED
  BY <1>1, <1>2 DEF UsersFindProcess

\* No thread and no creator ever uses a process that is being freed.
THEOREM UsersSafe == Spec => []UsersFindProcess
<1> QED
  BY UsersCounted, InitStructure, NextStructure, InitCounting, NextCounting, PTL DEF Spec

(***************************************************************************)
(* Every step keeps Ending.                                                *)
(***************************************************************************)

\* What a step means for the threads that execute and for the announcement
\* of the end, when it is none of the actions that are about them.
QuietForEnding ==
  /\ UNCHANGED <<owner, TerminationEvt, TerminationStatus>>
  /\ \A t \in Threads : thread'[t] \in Executing => thread[t] \in Executing
  /\ \A t \in Threads : thread'[t] \in {"status", "signal"} => thread'[t] = thread[t]

\* Only four actions are about them.
LEMMA EndingSteps ==
  ASSUME Structure, [Next]_vars
  PROVE  \/ QuietForEnding
         \/ \E a \in Actors : ThreadCreateEx(a)
         \/ \E t \in Threads : NotifyDecrement(t) \/ NotifyStatus(t) \/ NotifySignal(t)
<1> USE DEF procVars, threadVars, callVars
<1>a. Types
  BY DEF Structure
<1>k. ASSUME UNCHANGED <<owner, TerminationEvt, TerminationStatus, thread>> PROVE QuietForEnding
  BY <1>k DEF QuietForEnding
<1>m. ASSUME NEW t \in Threads, NEW to \in ThreadStates, thread' = [thread EXCEPT ![t] = to],
             UNCHANGED <<owner, TerminationEvt, TerminationStatus>>,
             to \in Executing => thread[t] \in Executing, to \notin {"status", "signal"}
      PROVE  QuietForEnding
  BY <1>a, <1>m DEF QuietForEnding, Types
<1>1. ASSUME NEW c \in Creators, CreatorStep(c) PROVE QuietForEnding
  BY <1>1, <1>k DEF CreatorStep, _ProcessInit, _ProcessInitFails, LoadApplication, ProcessCreateFails,
     ReferenceHandle, ReferenceFreedProcess, ProcessTerminate, ProcessWaitForTermination, ProcessCloseHandle
<1>2. ASSUME NEW a \in Actors, CallReturns(a) PROVE QuietForEnding
  <2>1. CASE SetupThread(a)
    BY <2>1, <1>m DEF SetupThread, Structure, ChildrenSound, Executing, ThreadStates
  <2>2. CASE SetupThreadFails(a)
    BY <2>2, <1>k DEF SetupThreadFails, ProcessCreateFails
  <2>3. CASE ThreadCloseHandle(a)
    <3>1. child[a] \in Threads /\ UNCHANGED <<owner, TerminationEvt, TerminationStatus>>
      BY <2>3 DEF ThreadCloseHandle, Structure, ChildrenSound
    <3>2. UNCHANGED thread \/ thread' = [thread EXCEPT ![child[a]] = "destroy"]
      BY <2>3 DEF ThreadCloseHandle
    <3> QED
      BY <3>1, <3>2, <1>k, <1>m DEF Executing, ThreadStates, Destroying
  <2>4. CASE ThreadDestroyed(a)
    BY <2>4, <1>k DEF ThreadDestroyed
  <2> QED
    BY <1>2, <2>1, <2>2, <2>3, <2>4 DEF CallReturns
<1>3. ASSUME NEW t \in Threads, ThreadCleanupPostSchedule(t) \/ RemoveThread(t)
                                \/ ReleaseThreadListLock(t) \/ DereferenceLast(t) \/ FreeThread(t)
      PROVE  QuietForEnding
  <2>1. /\ \E to \in {"dead", "destroy", "unlock", "unlockLast", "last", "tail", "freed"} :
             thread' = [thread EXCEPT ![t] = to]
        /\ UNCHANGED <<owner, TerminationEvt, TerminationStatus>>
    BY <1>3 DEF ThreadCleanupPostSchedule, RemoveThread, ReleaseThreadListLock, DereferenceLast, FreeThread
  <2> QED
    BY <2>1, <1>m DEF Executing, ThreadStates
<1>4. ASSUME NEW t \in Threads, ThreadExit(t) \/ ProcessTerminateSelf(t) PROVE QuietForEnding
  <2>1. /\ thread[t] = "running" /\ thread' = [thread EXCEPT ![t] = "exiting"]
        /\ UNCHANGED <<owner, TerminationEvt, TerminationStatus>>
    BY <1>4 DEF ThreadExit, ProcessTerminateSelf
  <2> QED
    BY <2>1, <1>m DEF Executing, ThreadStates
<1>5. ASSUME NEW t \in Threads, NEW c \in CPUs, Execute(t, c) PROVE QuietForEnding
  BY <1>5, <1>k DEF Execute
<1>6. ASSUME NEW p \in Processes, DestroyStep(p) PROVE QuietForEnding
  BY <1>6, <1>k DEF DestroyStep, RemoveFromProcessList, DestroyAddressSpace, _ProcessSystemFreePid,
     FreeProcess, Step
<1>7. CASE UNCHANGED vars
  BY <1>7, <1>k DEF vars
<1> QED
  BY <1>1, <1>2, <1>3, <1>4, <1>5, <1>6, <1>7 DEF Next, ExitStep

\* What is at an end stays so: no creator adds a first thread to it, and no
\* thread of it is there to create a sibling.
LEMMA EndedStays ==
  ASSUME Structure, [Next]_vars, NEW p \in Processes, Ended(p)
  PROVE  Ended(p)' /\ StatusOf(p)' = StatusOf(p)
<1> USE ProcessLifetimeAssumption DEF Structure, Types, Ended, StatusOf
<1>1. CASE QuietForEnding
  BY <1>1 DEF QuietForEnding
<1>2. ASSUME NEW a \in Actors, ThreadCreateEx(a) PROVE Ended(p)' /\ StatusOf(p)' = StatusOf(p)
  <2>1. PICK t \in Threads :
          /\ thread[t] = "none" /\ thread' = [thread EXCEPT ![t] = "setup"]
          /\ owner' = [owner EXCEPT ![t] = TargetProcess(a)]
    BY <1>2 DEF ThreadCreateEx, ProcessInsertThreadInList
  <2>2. owner[t] = None /\ owner'[t] # p
    BY <1>2, <2>1 DEF ThreadCreateEx, MayCreateThread, TargetProcess, OwnersSound, FirstThread,
                      Executing, Actors, CreatorsSound
  <2> QED
    BY <2>1, <2>2
<1>3. ASSUME NEW t \in Threads, NotifyDecrement(t) \/ NotifyStatus(t) \/ NotifySignal(t)
      PROVE  Ended(p)' /\ StatusOf(p)' = StatusOf(p)
  <2>1. UNCHANGED owner /\ \E to \in {"status", "signal", "dying"} : thread' = [thread EXCEPT ![t] = to]
    BY <1>3 DEF NotifyDecrement, NotifyStatus, NotifySignal
  <2> QED
    BY <2>1 DEF Executing
<1> QED
  BY <1>1, <1>2, <1>3, EndingSteps

\* Every step keeps Ending: the thread that finds ActiveThreads at one is the
\* only one that executes.
LEMMA NextEnding == Structure /\ Counting /\ Ending /\ [Next]_vars => Ending'
<1> SUFFICES ASSUME Structure, Counting, Ending, [Next]_vars PROVE Ending'
  OBVIOUS
<1> USE ProcessLifetimeAssumption DEF Structure, Types
<1>a. \A t \in Threads : thread[t] # "none" => owner[t] \in Processes
  BY DEF OwnersSound
<1>1. CASE QuietForEnding
  <2>1. \A t \in Threads : thread'[t] \in {"status", "signal"} => owner[t] \in Processes /\ owner'[t] = owner[t]
    BY <1>1, <1>a DEF QuietForEnding
  <2> QED
    BY <1>1, <2>1, EndedStays DEF QuietForEnding, Ending
<1>2. ASSUME NEW a \in Actors, ThreadCreateEx(a) PROVE Ending'
  <2>1. PICK t \in Threads :
          /\ thread[t] = "none" /\ thread' = [thread EXCEPT ![t] = "setup"]
          /\ owner' = [owner EXCEPT ![t] = TargetProcess(a)]
          /\ UNCHANGED <<TerminationEvt, TerminationStatus>>
    BY <1>2 DEF ThreadCreateEx, ProcessInsertThreadInList
  <2>2. \A u \in Threads : thread'[u] \in {"status", "signal"} =>
          thread[u] = thread'[u] /\ owner[u] \in Processes /\ owner'[u] = owner[u]
    BY <2>1, <1>a
  <2> QED
    BY <2>1, <2>2, EndedStays DEF Ending
<1>3. ASSUME NEW t \in Threads, NotifyDecrement(t) PROVE Ending'
  <2>1. PICK p \in Processes : p = owner[t] /\ t \in ThreadList[p]
    BY <1>3, <1>a DEF NotifyDecrement, OwnersSound, Listed
  <2>2. /\ thread[t] = "exiting"
        /\ thread' = [thread EXCEPT ![t] = IF ActiveThreads[p] = 1 THEN "status" ELSE "dying"]
        /\ UNCHANGED <<owner, TerminationEvt, TerminationStatus>>
    BY <1>3, <2>1 DEF NotifyDecrement
  <2>3. ActiveThreads[p] = 1 => Ended(p)'
    <3>1. t \in Executors(p) /\ IsFiniteSet(Executors(p))
      BY <2>1, <2>2, FiniteParts DEF Executors, Executing
    <3>2. ActiveThreads[p] = 1 => Executors(p) = {t}
      BY <3>1, FS_Singleton DEF Counting, Counted
    <3>3. \A u \in Threads : owner[u] = p /\ thread[u] \in Executing => u \in Executors(p)
      BY DEF Executors, OwnersSound, Executing, Listed
    <3> QED
      BY <2>1, <2>2, <3>2, <3>3 DEF Ended, Executing
  <2>4. \A u \in Threads : thread'[u] \in {"status", "signal"} =>
          \/ thread[u] = thread'[u] /\ owner[u] \in Processes /\ owner'[u] = owner[u]
          \/ u = t /\ ActiveThreads[p] = 1 /\ thread'[u] = "status" /\ owner'[u] = p
    BY <2>1, <2>2, <1>a
  <2> QED
    BY <2>2, <2>3, <2>4, EndedStays DEF Ending
<1>4. ASSUME NEW t \in Threads, NotifyStatus(t) PROVE Ending'
  <2>1. PICK p \in Processes : p = owner[t] /\ Ended(p)
    BY <1>4, <1>a DEF NotifyStatus, Ending
  <2>2. /\ thread[t] = "status" /\ thread' = [thread EXCEPT ![t] = "signal"]
        /\ TerminationStatus' = [TerminationStatus EXCEPT ![p] = t]
        /\ UNCHANGED <<owner, TerminationEvt>>
    BY <1>4, <2>1 DEF NotifyStatus
  <2>3. \A u \in Threads : thread'[u] \in {"status", "signal"} =>
          /\ owner[u] \in Processes /\ owner'[u] = owner[u] /\ Ended(owner[u])
          /\ thread'[u] = "signal" => thread[u] = "signal" \/ u = t
    BY <2>1, <2>2, <1>a DEF Ending
  <2>4. TerminationStatus'[p] = t /\ \A q \in Processes : q # p => TerminationStatus'[q] = TerminationStatus[q]
    BY <2>2
  <2>5. t \in StatusOf(p)
    BY <2>1 DEF StatusOf
  <2> QED
    BY <2>1, <2>2, <2>3, <2>4, <2>5, EndedStays DEF Ending
<1>5. ASSUME NEW t \in Threads, NotifySignal(t) PROVE Ending'
  <2>1. PICK p \in Processes : p = owner[t] /\ Ended(p) /\ TerminationStatus[p] \in StatusOf(p)
    BY <1>5, <1>a DEF NotifySignal, Ending
  <2>2. /\ thread' = [thread EXCEPT ![t] = "dying"]
        /\ TerminationEvt' = [TerminationEvt EXCEPT ![p] = TRUE]
        /\ UNCHANGED <<owner, TerminationStatus>>
    BY <1>5, <2>1 DEF NotifySignal
  <2>3. \A u \in Threads : thread'[u] \in {"status", "signal"} =>
          thread[u] = thread'[u] /\ owner[u] \in Processes /\ owner'[u] = owner[u]
    BY <2>2, <1>a
  <2> QED
    BY <2>1, <2>2, <2>3, EndedStays DEF Ending
<1> QED
  BY <1>1, <1>2, <1>3, <1>4, <1>5, EndingSteps

\* At first nothing has terminated.
LEMMA InitEnding == Init => Ending
BY DEF Init, Ending

\* TerminationEvt stands for the end of the process for good.
THEOREM TerminationSafe == Spec => []TerminationIsFinal
<1>1. Structure /\ Ending => TerminationIsFinal
  BY ProcessLifetimeAssumption DEF Structure, OwnersSound, Ending, Ended, StatusOf, TerminationIsFinal, Executing
<1> QED
  BY <1>1, InitStructure, NextStructure, InitCounting, NextCounting, InitEnding, NextEnding, PTL DEF Spec

(***************************************************************************)
(* Every step keeps Tables, and on one CPU CachedSound.                    *)
(***************************************************************************)

\* A reference of a living process is dropped.
DereferencesLive ==
  /\ \E p \in Processes : state[p] = "live" /\ _ProcessDereference(p)
  /\ UNCHANGED <<Id, PidBitmap, ProcessList, tlb>>

\* The steps, by what they do to the tables.
LEMMA TablesSteps ==
  ASSUME Structure, Counting, [Next]_vars
  PROVE  \/ UNCHANGED <<state, Id, PidBitmap, ProcessList, tlb>>
         \/ DereferencesLive
         \/ \E c \in Creators : _ProcessInit(c)
         \/ \E t \in Threads, c \in CPUs : Execute(t, c)
         \/ \E p \in Processes : DestroyStep(p)
<1> USE ProcessLifetimeAssumption DEF procVars, threadVars, callVars, Structure, Types
<1>a. UsersFindProcess
  BY UsersCounted
<1>1. ASSUME NEW c \in Creators, pc[c] \in {"load", "setup"}, ProcessCreateFails(c) PROVE DereferencesLive
  <2>1. process[c] \in Processes /\ state[process[c]] = "live"
    BY <1>1, <1>a DEF UsersFindProcess, CreatorsSound
  <2> QED
    BY <1>1, <2>1 DEF ProcessCreateFails, DereferencesLive
<1>2. ASSUME NEW c \in Creators, ProcessCloseHandle(c) PROVE DereferencesLive
  <2>1. process[c] \in Processes /\ state[process[c]] = "live"
    BY <1>2, <1>a DEF UsersFindProcess, CreatorsSound, ProcessCloseHandle
  <2> QED
    BY <1>2, <2>1 DEF ProcessCloseHandle, DereferencesLive
<1>3. ASSUME NEW t \in Threads, RemoveThread(t) \/ DereferenceLast(t) PROVE DereferencesLive
  <2>1. owner[t] \in Processes /\ state[owner[t]] = "live"
    BY <1>3, <1>a DEF UsersFindProcess, OwnersSound, RemoveThread, DereferenceLast
  <2> QED
    BY <1>3, <2>1 DEF RemoveThread, DereferenceLast, DereferencesLive
<1>4. ASSUME NEW c \in Creators, CreatorStep(c)
      PROVE  \/ UNCHANGED <<state, Id, PidBitmap, ProcessList, tlb>>
             \/ DereferencesLive \/ _ProcessInit(c)
  BY <1>1, <1>2, <1>4 DEF CreatorStep, _ProcessInitFails, LoadApplication,
     ReferenceHandle, ReferenceFreedProcess, ProcessTerminate, ProcessWaitForTermination
<1>5. ASSUME NEW a \in Actors, ThreadCreateEx(a) \/ CallReturns(a)
      PROVE  UNCHANGED <<state, Id, PidBitmap, ProcessList, tlb>> \/ DereferencesLive
  BY <1>1, <1>5 DEF ThreadCreateEx, CallReturns, SetupThread, SetupThreadFails, ThreadCloseHandle,
     ThreadDestroyed
<1>6. ASSUME NEW t \in Threads, ExitStep(t) \/ ThreadExit(t) \/ ProcessTerminateSelf(t)
      PROVE  UNCHANGED <<state, Id, PidBitmap, ProcessList, tlb>> \/ DereferencesLive
  BY <1>3, <1>6 DEF ExitStep, ThreadExit, ProcessTerminateSelf, NotifyDecrement, NotifyStatus,
     NotifySignal, ThreadCleanupPostSchedule, ReleaseThreadListLock, FreeThread
<1> QED
  BY <1>4, <1>5, <1>6 DEF Next, vars

\* _ProcessInit takes the least identifier nobody has.
LEMMA FreshPid ==
  ASSUME 0 .. MaxPid \ PidBitmap # {}
  PROVE  Min(0 .. MaxPid \ PidBitmap) \in 0 .. MaxPid \ PidBitmap
<1>1. 0 .. MaxPid \ PidBitmap \in SUBSET Nat
  BY ProcessLifetimeAssumption
<1> QED
  BY <1>1, MinIsLeast

\* Every step keeps Tables.
LEMMA NextTables == Structure /\ Counting /\ Tables /\ [Next]_vars => Tables'
<1> SUFFICES ASSUME Structure, Counting, Tables, [Next]_vars PROVE Tables'
  OBVIOUS
<1> USE ProcessLifetimeAssumption DEF Structure, Types
<1>1. CASE UNCHANGED <<state, Id, PidBitmap, ProcessList, tlb>>
  BY <1>1 DEF Tables, TablesExact
<1>2. CASE DereferencesLive
  <2>1. PICK p \in Processes : state[p] = "live" /\ _ProcessDereference(p)
    BY <1>2 DEF DereferencesLive
  <2>2. UNCHANGED <<Id, PidBitmap, ProcessList, tlb>>
    BY <1>2 DEF DereferencesLive
  <2>3. \A q \in Processes :
          /\ state'[q] \in Numbered <=> state[q] \in Numbered
          /\ state'[q] \in {"live", "destroy"} <=> state[q] \in {"live", "destroy"}
    BY <2>1 DEF _ProcessDereference, Numbered
  <2> QED
    BY <2>2, <2>3 DEF Tables, TablesExact
<1>3. ASSUME NEW c \in Creators, _ProcessInit(c) PROVE Tables'
  <2>1. PICK pid \in 0 .. MaxPid \ PidBitmap, p \in Processes :
          /\ state[p] = "none" /\ state' = [state EXCEPT ![p] = "live"]
          /\ Id' = [Id EXCEPT ![p] = pid] /\ PidBitmap' = PidBitmap \union {pid}
          /\ ProcessList' = ProcessList \union {p} /\ UNCHANGED tlb
    BY <1>3, FreshPid DEF _ProcessInit
  <2>2. \A q \in Processes : q # p => state'[q] = state[q] /\ Id'[q] = Id[q]
    BY <2>1
  <2>3. state'[p] = "live" /\ Id'[p] = pid
    BY <2>1 DEF Tables
  <2>4. \A q \in Processes : state[q] \in Numbered => Id[q] \in PidBitmap /\ Id[q] # pid
    BY <2>1 DEF Tables, TablesExact
  <2>5. Id' \in [Processes -> 0 .. MaxPid]
    BY <2>1 DEF Tables
  <2>6. \A q, r \in Processes :
          q # r /\ {state'[q], state'[r]} \subseteq Numbered => Id'[q] # Id'[r]
    BY <2>2, <2>3, <2>4 DEF Tables, TablesExact
  <2>7. PidBitmap' = {0, SystemPid} \union {Id'[q] : q \in {r \in Processes : state'[r] \in Numbered}}
    <3>1. {q \in Processes : state'[q] \in Numbered} = {q \in Processes : state[q] \in Numbered} \union {p}
      BY <2>2, <2>3 DEF Numbered
    <3>2. {Id'[q] : q \in {r \in Processes : state'[r] \in Numbered}}
            = {Id[q] : q \in {r \in Processes : state[r] \in Numbered}} \union {pid}
      BY <3>1, <2>1, <2>2, <2>3 DEF Numbered
    <3> QED
      BY <2>1, <3>2 DEF Tables, TablesExact
  <2>8. ProcessList' = {q \in Processes : state'[q] \in {"live", "destroy"}}
    BY <2>1, <2>2, <2>3 DEF Tables, TablesExact
  <2>9. \A q \in Processes : state'[q] \in Numbered => Id'[q] \notin {0, SystemPid}
    BY <2>1, <2>2, <2>3 DEF Tables, TablesExact
  <2> QED
    BY <2>1, <2>5, <2>6, <2>7, <2>8, <2>9 DEF Tables, TablesExact
<1>4. ASSUME NEW t \in Threads, NEW c \in CPUs, Execute(t, c) PROVE Tables'
  <2>1. owner[t] \in Processes
    BY <1>4 DEF Execute, OwnersSound
  <2>2. tlb' = [tlb EXCEPT ![c] = @ \union {<<Id[owner[t]], owner[t]>>}]
        /\ UNCHANGED <<state, Id, PidBitmap, ProcessList>>
    BY <1>4 DEF Execute, procVars
  <2>3. tlb' \in [CPUs -> SUBSET ((0 .. MaxPid) \X Processes)]
    BY <2>1, <2>2 DEF Tables
  <2> QED
    BY <2>2, <2>3 DEF Tables, TablesExact
<1>5. ASSUME NEW p \in Processes, DestroyStep(p) PROVE Tables'
  <2>1. CASE RemoveFromProcessList(p)
    <3>1. /\ state[p] = "destroy" /\ state' = [state EXCEPT ![p] = "unlisted"]
          /\ ProcessList' = ProcessList \ {p} /\ UNCHANGED <<Id, PidBitmap, tlb>>
      BY <2>1 DEF RemoveFromProcessList, Step
    <3>2. \A q \in Processes :
            /\ state'[q] \in Numbered <=> state[q] \in Numbered
            /\ state'[q] \in {"live", "destroy"} <=> q # p /\ state[q] \in {"live", "destroy"}
      BY <3>1 DEF Numbered
    <3> QED
      BY <3>1, <3>2 DEF Tables, TablesExact
  <2>2. ASSUME NEW c \in CPUs, DestroyAddressSpace(p, c) PROVE Tables'
    <3>1. /\ state[p] = "unlisted" /\ state' = [state EXCEPT ![p] = "flushed"]
          /\ UNCHANGED <<Id, PidBitmap, ProcessList>>
          /\ tlb' = [tlb EXCEPT ![c] = {e \in @ : e[1] # Id[p]}]
      BY <2>2 DEF DestroyAddressSpace, Step
    <3>2. \A q \in Processes :
            /\ state'[q] \in Numbered <=> state[q] \in Numbered
            /\ state'[q] \in {"live", "destroy"} <=> state[q] \in {"live", "destroy"}
      BY <3>1 DEF Numbered
    <3>3. tlb' \in [CPUs -> SUBSET ((0 .. MaxPid) \X Processes)]
      BY <3>1 DEF Tables
    <3> QED
      BY <3>1, <3>2, <3>3 DEF Tables, TablesExact
  <2>3. CASE _ProcessSystemFreePid(p)
    <3>1. /\ state[p] = "flushed" /\ state' = [state EXCEPT ![p] = "unnumbered"]
          /\ UNCHANGED <<Id, ProcessList, tlb>> /\ PidBitmap' = PidBitmap \ {Id[p]}
      BY <2>3 DEF _ProcessSystemFreePid, Step
    <3>2. \A q \in Processes :
            /\ state'[q] \in Numbered <=> q # p /\ state[q] \in Numbered
            /\ state'[q] \in {"live", "destroy"} <=> state[q] \in {"live", "destroy"}
      BY <3>1 DEF Numbered
    <3>3. state[p] \in Numbered /\ Id[p] \notin {0, SystemPid}
      BY <3>1 DEF Numbered, Tables
    <3>4. PidBitmap' = {0, SystemPid} \union {Id'[q] : q \in {r \in Processes : state'[r] \in Numbered}}
      <4>1. \A q \in Processes : q # p /\ state[q] \in Numbered => Id[q] # Id[p]
        BY <3>3 DEF Tables, TablesExact
      <4>2. PidBitmap = {0, SystemPid} \union {Id[q] : q \in {r \in Processes : state[r] \in Numbered}}
        BY DEF Tables, TablesExact
      <4> QED
        BY <3>1, <3>2, <3>3, <4>1, <4>2
    <3>5. \A q, r \in Processes :
            q # r /\ {state'[q], state'[r]} \subseteq Numbered => Id'[q] # Id'[r]
      BY <3>1, <3>2 DEF Tables, TablesExact
    <3>6. ProcessList' = {q \in Processes : state'[q] \in {"live", "destroy"}}
      BY <3>1, <3>2 DEF Tables, TablesExact
    <3>7. /\ Id' \in [Processes -> 0 .. MaxPid]
          /\ tlb' \in [CPUs -> SUBSET ((0 .. MaxPid) \X Processes)]
          /\ \A q \in Processes : state'[q] \in Numbered => Id'[q] \notin {0, SystemPid}
      BY <3>1, <3>2 DEF Tables
    <3> QED
      BY <3>4, <3>5, <3>6, <3>7 DEF Tables, TablesExact
  <2>4. CASE FreeProcess(p)
    <3>1. /\ state[p] = "unnumbered" /\ state' = [state EXCEPT ![p] = "freed"]
          /\ UNCHANGED <<Id, PidBitmap, ProcessList, tlb>>
      BY <2>4 DEF FreeProcess, Step
    <3>2. \A q \in Processes :
            /\ state'[q] \in Numbered <=> state[q] \in Numbered
            /\ state'[q] \in {"live", "destroy"} <=> state[q] \in {"live", "destroy"}
      BY <3>1 DEF Numbered
    <3> QED
      BY <3>1, <3>2 DEF Tables, TablesExact
  <2> QED
    BY <1>5, <2>1, <2>2, <2>3, <2>4 DEF DestroyStep
<1> QED
  BY <1>1, <1>2, <1>3, <1>4, <1>5, TablesSteps

\* At first only the System process has an identifier.
LEMMA InitTables == Init => Tables
<1> SUFFICES ASSUME Init PROVE Tables
  OBVIOUS
<1>1. \A p \in Processes : state[p] = "none"
  BY DEF Init
<1>2. {p \in Processes : state[p] \in Numbered} = {} /\ {p \in Processes : state[p] \in {"live", "destroy"}} = {}
  BY <1>1 DEF Numbered
<1> QED
  BY <1>1, <1>2, ProcessLifetimeAssumption DEF Init, Tables, TablesExact, Numbered

\* Two processes never share an identifier, none is lost, and the list of
\* processes holds the objects that are there.
THEOREM TablesSafe == Spec => []TablesExact
<1>1. Tables => TablesExact
  BY DEF Tables
<1> QED
  BY <1>1, InitStructure, NextStructure, InitCounting, NextCounting, InitTables, NextTables, PTL DEF Spec

\* When an address space is destroyed no CPU but the one that destroys it has
\* translations of it.  MmuDestroyAddressSpaceForProcess does not see to that:
\* it invalidates on its own CPU and tells no other.
DestroyedWhereCached ==
  \A p \in Processes, c \in CPUs :
    DestroyAddressSpace(p, c) => \A d \in CPUs \ {c} : <<Id[p], p>> \notin tlb[d]

\* Where that is so every step keeps CachedSound: the address space goes,
\* with all that was cached for it, before the identifier does.
LEMMA NextCached ==
  ASSUME [DestroyedWhereCached]_vars,
         Structure, Counting, Tables, CachedSound, [Next]_vars
  PROVE  CachedSound'
<1> USE ProcessLifetimeAssumption DEF Structure, Types
<1>a. \A c \in CPUs : \A e \in tlb[c] : e[2] \in Processes
  BY DEF Tables
<1>1. CASE UNCHANGED <<state, Id, PidBitmap, ProcessList, tlb>>
  BY <1>1 DEF CachedSound
<1>2. CASE DereferencesLive
  <2>1. PICK p \in Processes : state[p] = "live" /\ _ProcessDereference(p)
    BY <1>2 DEF DereferencesLive
  <2>2. \A q \in Processes : state'[q] = state[q] \/ (state'[q] = "destroy" /\ state[q] = "live")
    BY <2>1 DEF _ProcessDereference
  <2>3. UNCHANGED <<Id, tlb>>
    BY <1>2 DEF DereferencesLive
  <2> QED
    BY <1>a, <2>2, <2>3 DEF CachedSound
<1>3. ASSUME NEW c \in Creators, _ProcessInit(c) PROVE CachedSound'
  <2>1. PICK p \in Processes :
          /\ state[p] = "none" /\ UNCHANGED tlb
          /\ \A q \in Processes : q # p => state'[q] = state[q] /\ Id'[q] = Id[q]
    BY <1>3 DEF _ProcessInit, Tables
  <2> QED
    BY <1>a, <2>1 DEF CachedSound
<1>4. ASSUME NEW t \in Threads, NEW c \in CPUs, Execute(t, c) PROVE CachedSound'
  <2>1. owner[t] \in Processes /\ state[owner[t]] = "live"
    BY <1>4, UsersCounted DEF Execute, OwnersSound, UsersFindProcess
  <2>2. /\ tlb' = [tlb EXCEPT ![c] = @ \union {<<Id[owner[t]], owner[t]>>}]
        /\ UNCHANGED <<state, Id>>
    BY <1>4 DEF Execute, procVars
  <2>3. \A d \in CPUs : \A e \in tlb'[d] : e \in tlb[d] \/ e = <<Id[owner[t]], owner[t]>>
    BY <2>2 DEF Tables
  <2> QED
    BY <2>1, <2>2, <2>3 DEF CachedSound
<1>5. ASSUME NEW p \in Processes, DestroyStep(p) PROVE CachedSound'
  <2>1. ASSUME NEW c \in CPUs, DestroyAddressSpace(p, c) PROVE CachedSound'
    <3>1. /\ state[p] = "unlisted" /\ state' = [state EXCEPT ![p] = "flushed"]
          /\ UNCHANGED Id /\ tlb' = [tlb EXCEPT ![c] = {e \in @ : e[1] # Id[p]}]
      BY <2>1 DEF DestroyAddressSpace, Step
    <3>2. \A d \in CPUs \ {c} : tlb'[d] = tlb[d] /\ <<Id[p], p>> \notin tlb[d]
      <4>1. state' # state
        BY <3>1
      <4> QED
        BY <2>1, <3>1, <4>1 DEF DestroyedWhereCached, Tables, vars, procVars
    <3>3. \A d \in CPUs : \A e \in tlb'[d] : e \in tlb[d] /\ e[2] # p
      <4> TAKE d \in CPUs
      <4> TAKE e \in tlb'[d]
      <4>1. CASE d = c
        BY <3>1, <4>1 DEF CachedSound, Tables
      <4>2. CASE d # c
        <5>1. e \in tlb[d] /\ <<Id[p], p>> \notin tlb[d]
          BY <3>2, <4>2
        <5>2. e = <<e[1], e[2]>> /\ e[1] = Id[e[2]]
          BY <5>1 DEF CachedSound, Tables
        <5> QED
          BY <5>1, <5>2
      <4> QED
        BY <4>1, <4>2
    <3> QED
      BY <1>a, <3>1, <3>3 DEF CachedSound
  <2>2. CASE ~ \E c \in CPUs : DestroyAddressSpace(p, c)
    <3>1. UNCHANGED <<Id, tlb>>
      BY <1>5, <2>2 DEF DestroyStep, RemoveFromProcessList, _ProcessSystemFreePid, FreeProcess, Step
    <3>2. \A q \in Processes :
            \/ state'[q] = state[q]
            \/ state[q] = "destroy" /\ state'[q] = "unlisted"
            \/ state[q] \in {"flushed", "unnumbered"}
      BY <1>5, <2>2 DEF DestroyStep, RemoveFromProcessList, _ProcessSystemFreePid, FreeProcess, Step
    <3> QED
      BY <1>a, <3>1, <3>2 DEF CachedSound
  <2> QED
    BY <2>1, <2>2
<1> QED
  BY <1>1, <1>2, <1>3, <1>4, <1>5, TablesSteps

\* On any number of CPUs a translation of a finished process is left when a
\* new process gets its identifier only if another CPU than the one that
\* destroyed its address space had cached it: each operation of the process's
\* life, in whatever order, keeps the rest.  On one CPU it never is.
THEOREM TranslationsSafe ==
  Spec /\ [][DestroyedWhereCached]_vars => []NoStaleTranslations
<1>1. Init => CachedSound
  BY DEF Init, CachedSound
<1>2. Structure /\ Counting /\ Tables /\ CachedSound /\ [Next]_vars /\ [DestroyedWhereCached]_vars
        => CachedSound'
  BY NextCached
<1>3. Tables /\ CachedSound => NoStaleTranslations
  BY DEF Tables, TablesExact, CachedSound, NoStaleTranslations, Numbered
<1> QED
  BY <1>1, <1>2, <1>3, InitStructure, NextStructure, InitCounting, NextCounting, InitTables,
     NextTables, PTL DEF Spec

\* Every field of a process, thread and creator has its type; no counter
\* goes below zero.
THEOREM TypeSafe == Spec => []TypeOK
<1>1. Structure /\ Counting /\ Tables => TypeOK
  <2> SUFFICES ASSUME Structure, Counting, Tables PROVE TypeOK
    OBVIOUS
  <2>1. \A p \in Processes : RefCnt[p] \in Nat /\ NumberOfThreads[p] \in Nat /\ ActiveThreads[p] \in Nat
    BY FiniteParts DEF Structure, Types, Counting, Counted
  <2>2. PidBitmap \subseteq 0 .. MaxPid /\ ProcessList \subseteq Processes
    BY ProcessLifetimeAssumption DEF Tables, TablesExact, SystemPid
  <2> QED
    BY <2>1, <2>2 DEF Structure, Types, Tables, TypeOK
<1> QED
  BY <1>1, InitStructure, NextStructure, InitCounting, NextCounting, InitTables, NextTables, PTL DEF Spec
=============================================================================
