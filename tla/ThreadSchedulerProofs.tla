------------------------ MODULE ThreadSchedulerProofs ------------------------
(***************************************************************************)
(* The scheduler's safety for any number of CPUs and threads.              *)
(*                                                                         *)
(* SchedulerInv (ThreadScheduler) is inductive: one lemma per action       *)
(* shows that it is preserved, one step per part of the invariant.  That   *)
(* two CPUs never share a stack needs all of it: the thread a CPU switches *)
(* to comes from the queue, a thread gets into the queue from the hands of *)
(* a waker, and what keeps a woken thread from still running elsewhere is  *)
(* its BlockLock.                                                          *)
(***************************************************************************)
EXTENDS ThreadScheduler, DataFacts, TLAPS

-----------------------------------------------------------------------------
\* The idle threads are threads.
LEMMA IdleAreThreads == IdleThreads \subseteq Threads /\ \A c \in CPUs : Idle[c] \in IdleThreads
BY ThreadsAssumption DEF IdleThreads

\* ThreadCreate: a new thread is blocked, on its way to ThreadUnblock.
LEMMA StepThreadCreate ==
  ASSUME SchedulerInv, NEW c \in CPUs, NEW t \in Threads, ThreadCreate(c, t)
  PROVE  SchedulerInv'
<1> USE ThreadsAssumption DEF SchedulerInv, TypeOK, ThreadCreate, Goto, cpuVars, threadVars
<1>a. /\ t \notin IdleThreads /\ ~Woken(t)
      /\ t \notin Queued \cup waiters \cup handles \cup freed
  BY DEF IdleApart, WokenSound, ReadyQueueSound, UnbornApart, Woken
<1>b. \A d \in CPUs : CurrentThread[d] # t
  BY DEF CurrentSound, IdleApart
<1>c. \A d \in CPUs : pc[d] = "switch" => next[d] # t
  BY <1>a DEF NextSound, IdleApart
<1>w. \A x \in Threads : (Woken(x)' <=> Woken(x) \/ x = t)
  BY DEF Woken
<1>1. TypeOK'
  BY DEF Locations, ThreadStates
<1>2. StackExclusive'
  BY DEF StackExclusive
<1>3. ReadyQueueSound'
  BY DEF ReadyQueueSound, Queued
<1>4. ReadyLockOwned'
  BY DEF ReadyLockOwned
<1>5. BlockLockOwned'
  BY DEF BlockLockOwned
<1>6. IdleApart'
  BY <1>a, <1>w, IdleAreThreads DEF IdleApart
<1>7. CurrentSound'
  BY <1>a, <1>b, <1>w DEF CurrentSound, IdleApart
<1>8. NextSound'
  BY <1>a, <1>c, <1>w DEF NextSound, Queued
<1>9. WokenSound'
  BY <1>a, <1>b DEF WokenSound, Queued, Woken
<1>10. UnbornApart'
  BY DEF UnbornApart
<1>11. ReferencesSound'
  BY <1>a DEF ReferencesSound
<1> QED
  BY <1>1, <1>2, <1>3, <1>4, <1>5, <1>6, <1>7, <1>8, <1>9, <1>10, <1>11

\* ThreadCloseHandle drops the reference of the handle.
LEMMA StepThreadCloseHandle ==
  ASSUME SchedulerInv, NEW c \in CPUs, NEW t \in Threads, ThreadCloseHandle(c, t)
  PROVE  SchedulerInv'
<1> USE ThreadsAssumption DEF SchedulerInv, TypeOK, ThreadCloseHandle, Dereference, cpuVars, threadVars
<1>w. \A x \in Threads : (Woken(x)' <=> Woken(x))
  BY DEF Woken
<1>1. TypeOK'
  BY DEF Locations, ThreadStates
<1>2. StackExclusive'
  BY DEF StackExclusive
<1>3. ReadyQueueSound'
  BY DEF ReadyQueueSound, Queued
<1>4. ReadyLockOwned'
  BY DEF ReadyLockOwned
<1>5. BlockLockOwned'
  BY DEF BlockLockOwned
<1>6. IdleApart'
  BY <1>w, IdleAreThreads DEF IdleApart
<1>7. CurrentSound'
  BY <1>w DEF CurrentSound, IdleApart
<1>8. NextSound'
  BY <1>w DEF NextSound, Queued
<1>9. WokenSound'
  BY DEF WokenSound, Queued
<1>10. UnbornApart'
  BY DEF UnbornApart
<1>11. ReferencesSound'
  BY DEF ReferencesSound
<1> QED
  BY <1>1, <1>2, <1>3, <1>4, <1>5, <1>6, <1>7, <1>8, <1>9, <1>10, <1>11

\* ThreadTerminate only sets a flag.
LEMMA StepThreadTerminate ==
  ASSUME SchedulerInv, NEW c \in CPUs, NEW t \in Threads, ThreadTerminate(c, t)
  PROVE  SchedulerInv'
<1> USE ThreadsAssumption DEF SchedulerInv, TypeOK, ThreadTerminate, Pending, Terminated, cpuVars, threadVars
<1>w. \A x \in Threads : (Woken(x)' <=> Woken(x))
  BY DEF Woken
<1>1. TypeOK'
  BY DEF Locations, ThreadStates
<1>2. StackExclusive'
  BY DEF StackExclusive
<1>3. ReadyQueueSound'
  BY DEF ReadyQueueSound, Queued
<1>4. ReadyLockOwned'
  BY DEF ReadyLockOwned
<1>5. BlockLockOwned'
  BY DEF BlockLockOwned
<1>6. IdleApart'
  BY <1>w, IdleAreThreads DEF IdleApart
<1>7. CurrentSound'
  BY <1>w DEF CurrentSound, IdleApart
<1>8. NextSound'
  BY <1>w DEF NextSound, Queued
<1>9. WokenSound'
  BY DEF WokenSound, Queued
<1>10. UnbornApart'
  BY DEF UnbornApart
<1>11. ReferencesSound'
  BY DEF ReferencesSound
<1> QED
  BY <1>1, <1>2, <1>3, <1>4, <1>5, <1>6, <1>7, <1>8, <1>9, <1>10, <1>11

\* A waker unlinks a waiter.
LEMMA StepWake ==
  ASSUME SchedulerInv, NEW c \in CPUs, NEW t \in Threads, Wake(c, t)
  PROVE  SchedulerInv'
<1> USE ThreadsAssumption DEF SchedulerInv, TypeOK, Wake, Goto, cpuVars, threadVars
<1>w. \A x \in Threads : (Woken(x)' <=> Woken(x) \/ x = t)
  BY DEF Woken
<1>1. TypeOK'
  BY DEF Locations, ThreadStates
<1>2. StackExclusive'
  BY DEF StackExclusive
<1>3. ReadyQueueSound'
  BY DEF ReadyQueueSound, Queued
<1>4. ReadyLockOwned'
  BY DEF ReadyLockOwned
<1>5. BlockLockOwned'
  BY DEF BlockLockOwned
<1>6. IdleApart'
  BY <1>w, IdleAreThreads DEF IdleApart
<1>7. CurrentSound'
  BY <1>w DEF CurrentSound, IdleApart
<1>8. NextSound'
  BY <1>w DEF NextSound, Queued
<1>9. WokenSound'
  BY DEF WokenSound, ReadyQueueSound, UnbornApart, Queued
<1>10. UnbornApart'
  BY DEF UnbornApart
<1>11. ReferencesSound'
  BY DEF ReferencesSound
<1> QED
  BY <1>1, <1>2, <1>3, <1>4, <1>5, <1>6, <1>7, <1>8, <1>9, <1>10, <1>11

\* ThreadYield.
LEMMA StepThreadYield ==
  ASSUME SchedulerInv, NEW c \in CPUs, ThreadYield(c)
  PROVE  SchedulerInv'
<1> USE ThreadsAssumption DEF SchedulerInv, TypeOK, ThreadYield, Goto, cpuVars, threadVars
<1> DEFINE t == CurrentThread[c]
<1>a. t \in Threads /\ State[t] \notin {"Unborn", "Dying"}
  BY DEF CurrentSound, IdleApart
<1>b. ASSUME NEW d \in CPUs, BlockLock[t] = d
      PROVE  pc[d] \in {"enqueue", "unlock"} /\ t = target[d]
  <2>1. \/ pc[d] = "block" /\ t = CurrentThread[d]
        \/ /\ pc[d] \in {"schedule", "switch", "release", "cleanup"}
           /\ t = PreviousThread[d]
           /\ State[t] = "Blocked"
        \/ pc[d] \in {"enqueue", "unlock"} /\ t = target[d]
    BY <1>a, <1>b DEF BlockLockOwned
  <2>2. t = CurrentThread[d] => d = c
    BY DEF StackExclusive
  <2>3. State[t] = "Blocked" /\ t = PreviousThread[d] => d = c
    <3>1. State[t] = "Blocked" => t \in IdleThreads
      BY <1>a DEF CurrentSound
    <3>2. t \in IdleThreads /\ t = PreviousThread[d] => t = Idle[c] /\ t = Idle[d]
      BY DEF IdleApart
    <3> QED
      BY <3>1, <3>2
  <2> QED
    BY <2>1, <2>2, <2>3
<1>w. \A x \in Threads : (Woken(x)' <=> Woken(x))
  BY DEF Woken
<1>1. TypeOK'
  BY DEF Locations, ThreadStates
<1>2. StackExclusive'
  BY DEF StackExclusive
<1>3. ReadyQueueSound'
  BY DEF ReadyQueueSound, Queued
<1>4. ReadyLockOwned'
  BY DEF ReadyLockOwned
<1>5. BlockLockOwned'
  BY <1>a, <1>b DEF BlockLockOwned
<1>6. IdleApart'
  BY <1>w, IdleAreThreads DEF IdleApart
<1>7. CurrentSound'
  BY <1>w DEF CurrentSound, IdleApart
<1>8. NextSound'
  BY <1>w DEF NextSound, Queued
<1>9. WokenSound'
  BY DEF WokenSound, Queued
<1>10. UnbornApart'
  BY DEF UnbornApart
<1>11. ReferencesSound'
  BY <1>a DEF ReferencesSound
<1> QED
  BY <1>1, <1>2, <1>3, <1>4, <1>5, <1>6, <1>7, <1>8, <1>9, <1>10, <1>11

\* A thread about to block takes its BlockLock.
LEMMA StepThreadTakeBlockLock ==
  ASSUME SchedulerInv, NEW c \in CPUs, ThreadTakeBlockLock(c)
  PROVE  SchedulerInv'
<1> USE ThreadsAssumption DEF SchedulerInv, TypeOK, ThreadTakeBlockLock, Goto, cpuVars, threadVars
<1>a. ~Woken(CurrentThread[c])
  BY DEF CurrentSound
<1>w. \A x \in Threads : (Woken(x)' <=> Woken(x))
  BY DEF Woken
<1>1. TypeOK'
  BY DEF Locations, ThreadStates
<1>2. StackExclusive'
  BY DEF StackExclusive
<1>3. ReadyQueueSound'
  BY DEF ReadyQueueSound, Queued
<1>4. ReadyLockOwned'
  BY DEF ReadyLockOwned
<1>5. BlockLockOwned'
  BY DEF BlockLockOwned
<1>6. IdleApart'
  BY <1>w, IdleAreThreads DEF IdleApart
<1>7. CurrentSound'
  BY <1>w DEF CurrentSound, StackExclusive, IdleApart
<1>8. NextSound'
  BY <1>w DEF NextSound, Queued
<1>9. WokenSound'
  BY <1>a DEF WokenSound, Woken, Queued
<1>10. UnbornApart'
  BY DEF UnbornApart, CurrentSound, IdleApart
<1>11. ReferencesSound'
  BY DEF ReferencesSound
<1> QED
  BY <1>1, <1>2, <1>3, <1>4, <1>5, <1>6, <1>7, <1>8, <1>9, <1>10, <1>11

\* ThreadExit by the thread itself.
LEMMA StepThreadExit ==
  ASSUME SchedulerInv, NEW c \in CPUs, ThreadExit(c)
  PROVE  SchedulerInv'
<1> USE ThreadsAssumption DEF SchedulerInv, TypeOK, ThreadExit, EnterExit, Goto, cpuVars, threadVars
<1>w. \A x \in Threads : (Woken(x)' <=> Woken(x))
  BY DEF Woken
<1>1. TypeOK'
  BY DEF Locations, ThreadStates
<1>2. StackExclusive'
  BY DEF StackExclusive
<1>3. ReadyQueueSound'
  BY DEF ReadyQueueSound, Queued
<1>4. ReadyLockOwned'
  BY DEF ReadyLockOwned
<1>5. BlockLockOwned'
  <2>1. ASSUME NEW x \in Threads, NEW d \in CPUs, BlockLock'[x] = d
        PROVE  \/ pc'[d] = "block" /\ x = CurrentThread'[d]
               \/ /\ pc'[d] \in {"schedule", "switch", "release", "cleanup"}
                  /\ x = PreviousThread'[d]
                  /\ State'[x] = "Blocked"
               \/ pc'[d] \in {"enqueue", "unlock"} /\ x = target'[d]
    BY <2>1 DEF BlockLockOwned
  <2>2. ASSUME NEW d \in CPUs, pc'[d] \in {"enqueue", "unlock"}
        PROVE  target'[d] \in Threads /\ BlockLock'[target'[d]] = d
    BY <2>2 DEF BlockLockOwned
  <2> QED
    BY <2>1, <2>2 DEF BlockLockOwned
<1>6. IdleApart'
  BY <1>w, IdleAreThreads DEF IdleApart
<1>7. CurrentSound'
  BY <1>w DEF CurrentSound, IdleApart
<1>8. NextSound'
  BY <1>w DEF NextSound, Queued
<1>9. WokenSound'
  BY DEF WokenSound, Queued
<1>10. UnbornApart'
  BY DEF UnbornApart
<1>11. ReferencesSound'
  BY DEF ReferencesSound
<1> QED
  BY <1>1, <1>2, <1>3, <1>4, <1>5, <1>6, <1>7, <1>8, <1>9, <1>10, <1>11

\* A thread with a pending termination exits where it would yield or block.
LEMMA StepForcedExit ==
  ASSUME SchedulerInv, NEW c \in CPUs, ForcedExit(c)
  PROVE  SchedulerInv'
<1> USE ThreadsAssumption DEF SchedulerInv, TypeOK, ForcedExit, EnterExit, Goto, Pending, Terminated, cpuVars, threadVars
<1>w. \A x \in Threads : (Woken(x)' <=> Woken(x))
  BY DEF Woken
<1>1. TypeOK'
  BY DEF Locations, ThreadStates
<1>2. StackExclusive'
  BY DEF StackExclusive
<1>3. ReadyQueueSound'
  BY DEF ReadyQueueSound, Queued
<1>4. ReadyLockOwned'
  BY DEF ReadyLockOwned
<1>5. BlockLockOwned'
  BY DEF BlockLockOwned
<1>6. IdleApart'
  BY <1>w, IdleAreThreads DEF IdleApart
<1>7. CurrentSound'
  BY <1>w DEF CurrentSound, IdleApart
<1>8. NextSound'
  BY <1>w DEF NextSound, Queued
<1>9. WokenSound'
  BY DEF WokenSound, Queued
<1>10. UnbornApart'
  BY DEF UnbornApart
<1>11. ReferencesSound'
  BY DEF ReferencesSound
<1> QED
  BY <1>1, <1>2, <1>3, <1>4, <1>5, <1>6, <1>7, <1>8, <1>9, <1>10, <1>11

\* The state of an exiting thread becomes Dying.
LEMMA StepDie ==
  ASSUME SchedulerInv, NEW c \in CPUs, Die(c)
  PROVE  SchedulerInv'
<1> USE ThreadsAssumption DEF SchedulerInv, TypeOK, Die, Goto, cpuVars, threadVars
<1> DEFINE t == CurrentThread[c]
<1>b. ASSUME NEW d \in CPUs, BlockLock[t] = d
      PROVE  pc[d] \in {"enqueue", "unlock"} /\ t = target[d]
  <2>1. \/ pc[d] = "block" /\ t = CurrentThread[d]
        \/ /\ pc[d] \in {"schedule", "switch", "release", "cleanup"}
           /\ t = PreviousThread[d]
           /\ State[t] = "Blocked"
        \/ pc[d] \in {"enqueue", "unlock"} /\ t = target[d]
    BY <1>b DEF BlockLockOwned
  <2>2. t = CurrentThread[d] => d = c
    BY DEF StackExclusive
  <2>3. State[t] # "Blocked"
    BY DEF CurrentSound
  <2> QED
    BY <2>1, <2>2, <2>3
<1>w. \A x \in Threads : (Woken(x)' <=> Woken(x))
  BY DEF Woken
<1>1. TypeOK'
  BY DEF Locations, ThreadStates
<1>2. StackExclusive'
  BY DEF StackExclusive
<1>3. ReadyQueueSound'
  BY DEF ReadyQueueSound, Queued
<1>4. ReadyLockOwned'
  BY DEF ReadyLockOwned
<1>5. BlockLockOwned'
  BY <1>b DEF BlockLockOwned
<1>6. IdleApart'
  BY <1>w, IdleAreThreads DEF IdleApart, CurrentSound
<1>7. CurrentSound'
  BY <1>w DEF CurrentSound, IdleApart, StackExclusive
<1>8. NextSound'
  BY <1>w DEF NextSound, Queued
<1>9. WokenSound'
  BY DEF WokenSound, Queued
<1>10. UnbornApart'
  BY DEF UnbornApart
<1>11. ReferencesSound'
  BY DEF ReferencesSound
<1> QED
  BY <1>1, <1>2, <1>3, <1>4, <1>5, <1>6, <1>7, <1>8, <1>9, <1>10, <1>11

\* ThreadBlock: the state becomes Blocked.
LEMMA StepThreadBlock ==
  ASSUME SchedulerInv, NEW c \in CPUs, ThreadBlock(c)
  PROVE  SchedulerInv'
<1> USE ThreadsAssumption DEF SchedulerInv, TypeOK, ThreadBlock, Goto, cpuVars, threadVars
<1>a. /\ CurrentThread[c] \in Threads
      /\ State[CurrentThread[c]] \notin {"Unborn", "Dying"}
  BY DEF CurrentSound, IdleApart
<1>w. \A x \in Threads : (Woken(x)' <=> Woken(x))
  BY DEF Woken
<1>1. TypeOK'
  BY DEF Locations, ThreadStates
<1>2. StackExclusive'
  BY DEF StackExclusive
<1>3. ReadyQueueSound'
  BY DEF ReadyQueueSound, Queued
<1>4. ReadyLockOwned'
  BY DEF ReadyLockOwned
<1>5. BlockLockOwned'
  BY DEF BlockLockOwned
<1>6. IdleApart'
  BY <1>w, IdleAreThreads DEF IdleApart
<1>7. CurrentSound'
  BY <1>w DEF CurrentSound, IdleApart, StackExclusive
<1>8. NextSound'
  BY <1>w DEF NextSound, Queued
<1>9. WokenSound'
  BY DEF WokenSound, Queued
<1>10. UnbornApart'
  BY DEF UnbornApart
<1>11. ReferencesSound'
  BY <1>a DEF ReferencesSound
<1> QED
  BY <1>1, <1>2, <1>3, <1>4, <1>5, <1>6, <1>7, <1>8, <1>9, <1>10, <1>11

\* ThreadSchedule picks the next thread.
LEMMA StepPick ==
  ASSUME SchedulerInv, NEW c \in CPUs, Pick(c)
  PROVE  SchedulerInv'
<1> USE ThreadsAssumption DEF SchedulerInv, TypeOK, Pick, Goto, cpuVars, threadVars
<1> DEFINE t == CurrentThread[c]
           requeued == State[t] = "Ready" /\ Candidate(c) # Idle[c] /\ t # Idle[c]
<1>a. /\ Candidate(c) \in Threads
      /\ Remaining \in Seq(Threads)
      /\ IsInjective(Remaining)
      /\ Range(Remaining) = Queued \ {Candidate(c)}
      /\ Candidate(c) = Idle[c] \/ Candidate(c) \in Queued
  <2>1. CASE ReadyThreadsList = <<>>
    BY <2>1, EmptyRange DEF Candidate, Remaining, Queued
  <2>2. CASE ReadyThreadsList # <<>>
    <3>1. IsInjective(ReadyThreadsList)
      BY DEF ReadyQueueSound
    <3> HIDE DEF SchedulerInv, Pick
    <3>2. ReadyThreadsList \in Seq(Threads)
      BY DEF SchedulerInv
    <3>3. Head(ReadyThreadsList) \in Threads /\ Tail(ReadyThreadsList) \in Seq(Threads)
      BY <2>2, <3>2
    <3>4. /\ Head(ReadyThreadsList) \in Range(ReadyThreadsList)
          /\ Range(Tail(ReadyThreadsList)) = Range(ReadyThreadsList) \ {Head(ReadyThreadsList)}
          /\ IsInjective(Tail(ReadyThreadsList))
      BY <2>2, <3>1, <3>2, RangeTail
    <3> QED
      BY <2>2, <3>3, <3>4 DEF Candidate, Remaining, Queued
  <2> QED
    BY <2>1, <2>2
<1>b. /\ t \in Threads /\ t \notin Queued
      /\ State[t] = "Ready" => t \notin waiters /\ ~Woken(t)
      /\ \A d \in CPUs : d # c => CurrentThread[d] # t
  BY DEF ReadyQueueSound, CurrentSound, StackExclusive
<1>c. \A d \in CPUs : pc[d] # "switch"
  BY DEF ReadyLockOwned
<1>d. /\ ReadyThreadsList' \in Seq(Threads)
      /\ IsInjective(ReadyThreadsList')
      /\ Queued' = (Queued \ {Candidate(c)}) \cup (IF requeued THEN {t} ELSE {})
  <2>1. CASE requeued
    <3>1. ReadyThreadsList' = Append(Remaining, t)
      BY <2>1
    <3> QED
      BY <3>1, <2>1, <1>a, <1>b, RangeAppend, InjectiveAppend DEF Queued
  <2>2. CASE ~requeued
    BY <2>2, <1>a DEF Queued
  <2> QED
    BY <2>1, <2>2
<1>e. /\ Idle[c] \in IdleThreads
      /\ Candidate(c) \in Queued => /\ State[Candidate(c)] = "Ready"
                                    /\ Candidate(c) \notin waiters \cup IdleThreads
                                    /\ ~Woken(Candidate(c))
                                    /\ \A d \in CPUs : CurrentThread[d] # Candidate(c)
  BY <1>c, IdleAreThreads DEF ReadyQueueSound, WokenSound, Woken
<1>f. /\ next'[c] = IF State[t] = "Ready" /\ Candidate(c) = Idle[c] THEN t ELSE Candidate(c)
      /\ \A d \in CPUs \ {c} : next'[d] = next[d]
  OBVIOUS
<1> HIDE DEF requeued
<1>w. \A x \in Threads : (Woken(x)' <=> Woken(x))
  BY DEF Woken
<1>1. TypeOK'
  BY <1>a, <1>b, <1>d, <1>f DEF Locations
<1>2. StackExclusive'
  BY DEF StackExclusive
<1>3. ReadyQueueSound'
  BY <1>b, <1>c, <1>d, <1>e, IdleAreThreads DEF ReadyQueueSound, IdleApart, requeued
<1>4. ReadyLockOwned'
  BY DEF ReadyLockOwned
<1>5. BlockLockOwned'
  BY DEF BlockLockOwned
<1>6. IdleApart'
  BY <1>a, <1>e, <1>f, <1>w, IdleAreThreads DEF IdleApart
<1>7. CurrentSound'
  BY <1>w DEF CurrentSound, IdleApart
<1>8. NextSound'
  <2>1. ASSUME NEW d \in CPUs, pc'[d] = "switch" PROVE d = c
    BY <2>1, <1>c
  <2>2. CASE State[t] = "Ready" /\ Candidate(c) = Idle[c]
    BY <2>1, <2>2, <1>b, <1>d, <1>f, <1>w DEF NextSound, requeued
  <2>3. CASE ~(State[t] = "Ready") /\ Candidate(c) = Idle[c]
    <3>1. Idle[c] \notin Queued \cup waiters /\ ~Woken(Idle[c])
      BY <1>e DEF IdleApart, ReadyQueueSound
    <3>2. \A d \in CPUs \ {c} : CurrentThread[d] # Idle[c]
      BY <1>e DEF IdleApart
    <3> QED
      BY <2>1, <2>3, <3>1, <3>2, <1>a, <1>d, <1>e, <1>f, <1>w DEF NextSound, requeued
  <2>4. CASE Candidate(c) # Idle[c]
    BY <2>1, <2>4, <1>a, <1>d, <1>e, <1>f, <1>w DEF NextSound, requeued
  <2> QED
    BY <2>2, <2>3, <2>4
<1>9. WokenSound'
  BY <1>b, <1>d DEF WokenSound, Woken, requeued
<1>10. UnbornApart'
  BY DEF UnbornApart
<1>11. ReferencesSound'
  BY DEF ReferencesSound
<1> QED
  BY <1>1, <1>2, <1>3, <1>4, <1>5, <1>6, <1>7, <1>8, <1>9, <1>10, <1>11

\* The processor changes stacks.
LEMMA StepThreadSwitch ==
  ASSUME SchedulerInv, NEW c \in CPUs, ThreadSwitch(c)
  PROVE  SchedulerInv'
<1> USE ThreadsAssumption DEF SchedulerInv, TypeOK, ThreadSwitch, Goto, cpuVars, threadVars
<1> DEFINE n == next[c]
<1>a. /\ n \in Threads
      /\ \A d \in CPUs \ {c} : CurrentThread[d] # n
      /\ n \notin Queued \cup waiters /\ ~Woken(n)
      /\ n \notin IdleThreads => State[n] = "Ready"
  BY DEF NextSound
<1>b. \A d \in CPUs : pc[d] = "switch" => d = c
  BY DEF ReadyLockOwned
<1>c. /\ CurrentThread'[c] = n
      /\ \A d \in CPUs \ {c} : CurrentThread'[d] = CurrentThread[d]
  OBVIOUS
<1> HIDE DEF n
<1>w. \A x \in Threads : (Woken(x)' <=> Woken(x))
  BY DEF Woken
<1>1. TypeOK'
  BY <1>a DEF Locations, n
<1>2. StackExclusive'
  BY <1>a, <1>c DEF StackExclusive
<1>3. ReadyQueueSound'
  BY <1>a, <1>b, <1>c DEF ReadyQueueSound, Queued
<1>4. ReadyLockOwned'
  BY DEF ReadyLockOwned
<1>5. BlockLockOwned'
  BY DEF BlockLockOwned
<1>6. IdleApart'
  BY <1>c, <1>w, IdleAreThreads DEF IdleApart, n
<1>7. CurrentSound'
  <2>1. ASSUME NEW d \in CPUs, d # c
        PROVE  pc'[d] = pc[d] /\ CurrentThread'[d] = CurrentThread[d]
    BY <2>1
  <2> QED
    BY <1>a, <1>c, <1>w, <2>1 DEF CurrentSound, IdleApart
<1>8. NextSound'
  BY <1>b DEF NextSound
<1>9. WokenSound'
  BY <1>a, <1>c DEF WokenSound, Woken, Queued
<1>10. UnbornApart'
  BY DEF UnbornApart
<1>11. ReferencesSound'
  BY DEF ReferencesSound
<1> QED
  BY <1>1, <1>2, <1>3, <1>4, <1>5, <1>6, <1>7, <1>8, <1>9, <1>10, <1>11

\* The thread switched to releases ReadyThreadsLock.
LEMMA StepReleaseReadyLock ==
  ASSUME SchedulerInv, NEW c \in CPUs, ReleaseReadyLock(c)
  PROVE  SchedulerInv'
<1> USE ThreadsAssumption DEF SchedulerInv, TypeOK, ReleaseReadyLock, Goto, cpuVars, threadVars
<1>w. \A x \in Threads : (Woken(x)' <=> Woken(x))
  BY DEF Woken
<1>1. TypeOK'
  BY DEF Locations, ThreadStates
<1>2. StackExclusive'
  BY DEF StackExclusive
<1>3. ReadyQueueSound'
  BY DEF ReadyQueueSound, Queued
<1>4. ReadyLockOwned'
  BY DEF ReadyLockOwned
<1>5. BlockLockOwned'
  BY DEF BlockLockOwned
<1>6. IdleApart'
  BY <1>w, IdleAreThreads DEF IdleApart
<1>7. CurrentSound'
  BY <1>w DEF CurrentSound, IdleApart
<1>8. NextSound'
  BY <1>w DEF NextSound, Queued
<1>9. WokenSound'
  BY DEF WokenSound, Queued
<1>10. UnbornApart'
  BY DEF UnbornApart
<1>11. ReferencesSound'
  BY DEF ReferencesSound
<1> QED
  BY <1>1, <1>2, <1>3, <1>4, <1>5, <1>6, <1>7, <1>8, <1>9, <1>10, <1>11

\* It releases the BlockLock of the previous thread.
LEMMA StepReleasePrevious ==
  ASSUME SchedulerInv, NEW c \in CPUs, ReleasePrevious(c)
  PROVE  SchedulerInv'
<1> USE ThreadsAssumption DEF SchedulerInv, TypeOK, ReleasePrevious, Goto, cpuVars, threadVars
<1>w. \A x \in Threads : (Woken(x)' <=> Woken(x))
  BY DEF Woken
<1>1. TypeOK'
  BY DEF Locations, ThreadStates
<1>2. StackExclusive'
  BY DEF StackExclusive
<1>3. ReadyQueueSound'
  BY DEF ReadyQueueSound, Queued
<1>4. ReadyLockOwned'
  BY DEF ReadyLockOwned
<1>5. BlockLockOwned'
  <2>1. ASSUME NEW x \in Threads, NEW d \in CPUs, BlockLock'[x] = d
        PROVE  \/ pc'[d] = "block" /\ x = CurrentThread'[d]
               \/ /\ pc'[d] \in {"schedule", "switch", "release", "cleanup"}
                  /\ x = PreviousThread'[d]
                  /\ State'[x] = "Blocked"
               \/ pc'[d] \in {"enqueue", "unlock"} /\ x = target'[d]
    BY <2>1 DEF BlockLockOwned
  <2>2. ASSUME NEW d \in CPUs, pc'[d] \in {"enqueue", "unlock"}
        PROVE  target'[d] \in Threads /\ BlockLock'[target'[d]] = d
    BY <2>2 DEF BlockLockOwned
  <2> QED
    BY <2>1, <2>2 DEF BlockLockOwned
<1>6. IdleApart'
  BY <1>w, IdleAreThreads DEF IdleApart
<1>7. CurrentSound'
  BY <1>w DEF CurrentSound, IdleApart
<1>8. NextSound'
  BY <1>w DEF NextSound, Queued
<1>9. WokenSound'
  BY DEF WokenSound, Queued
<1>10. UnbornApart'
  BY DEF UnbornApart
<1>11. ReferencesSound'
  BY DEF ReferencesSound
<1> QED
  BY <1>1, <1>2, <1>3, <1>4, <1>5, <1>6, <1>7, <1>8, <1>9, <1>10, <1>11

\* It drops the reference of a previous thread that died.
LEMMA StepDropPrevious ==
  ASSUME SchedulerInv, NEW c \in CPUs, DropPrevious(c)
  PROVE  SchedulerInv'
<1> USE ThreadsAssumption DEF SchedulerInv, TypeOK, DropPrevious, Goto, Dereference, cpuVars, threadVars
<1>w. \A x \in Threads : (Woken(x)' <=> Woken(x))
  BY DEF Woken
<1>1. TypeOK'
  BY DEF Locations, ThreadStates
<1>2. StackExclusive'
  BY DEF StackExclusive
<1>3. ReadyQueueSound'
  BY DEF ReadyQueueSound, Queued
<1>4. ReadyLockOwned'
  BY DEF ReadyLockOwned
<1>5. BlockLockOwned'
  BY DEF BlockLockOwned
<1>6. IdleApart'
  BY <1>w, IdleAreThreads DEF IdleApart
<1>7. CurrentSound'
  BY <1>w DEF CurrentSound, IdleApart
<1>8. NextSound'
  BY <1>w DEF NextSound, Queued
<1>9. WokenSound'
  BY DEF WokenSound, Queued
<1>10. UnbornApart'
  BY DEF UnbornApart
<1>11. ReferencesSound'
  BY DEF ReferencesSound
<1> QED
  BY <1>1, <1>2, <1>3, <1>4, <1>5, <1>6, <1>7, <1>8, <1>9, <1>10, <1>11

\* It has nothing to do for the previous thread.
LEMMA StepKeepPrevious ==
  ASSUME SchedulerInv, NEW c \in CPUs, KeepPrevious(c)
  PROVE  SchedulerInv'
<1> USE ThreadsAssumption DEF SchedulerInv, TypeOK, KeepPrevious, Goto, cpuVars, threadVars
<1>w. \A x \in Threads : (Woken(x)' <=> Woken(x))
  BY DEF Woken
<1>1. TypeOK'
  BY DEF Locations, ThreadStates
<1>2. StackExclusive'
  BY DEF StackExclusive
<1>3. ReadyQueueSound'
  BY DEF ReadyQueueSound, Queued
<1>4. ReadyLockOwned'
  BY DEF ReadyLockOwned
<1>5. BlockLockOwned'
  BY DEF BlockLockOwned, ReferencesSound
<1>6. IdleApart'
  BY <1>w, IdleAreThreads DEF IdleApart
<1>7. CurrentSound'
  BY <1>w DEF CurrentSound, IdleApart
<1>8. NextSound'
  BY <1>w DEF NextSound, Queued
<1>9. WokenSound'
  BY DEF WokenSound, Queued
<1>10. UnbornApart'
  BY DEF UnbornApart
<1>11. ReferencesSound'
  BY DEF ReferencesSound
<1> QED
  BY <1>1, <1>2, <1>3, <1>4, <1>5, <1>6, <1>7, <1>8, <1>9, <1>10, <1>11

\* ThreadUnblock takes the BlockLock and changes the state.
LEMMA StepLockTarget ==
  ASSUME SchedulerInv, NEW c \in CPUs, LockTarget(c)
  PROVE  SchedulerInv'
<1> USE ThreadsAssumption DEF SchedulerInv, TypeOK, LockTarget, Goto, cpuVars, threadVars
<1>a. target[c] \in Threads /\ Woken(target[c]) /\ target[c] \notin IdleThreads
  BY DEF WokenSound, Woken, IdleApart
<1>b. ASSUME NEW d \in CPUs, CurrentThread[d] = target[c] PROVE FALSE
  <2>1. CASE pc[d] \in {"schedule", "switch"}
    BY <1>b, <2>1 DEF CurrentSound
  <2>2. CASE pc[d] \notin {"schedule", "switch"}
    BY <1>a, <1>b, <2>2 DEF CurrentSound
  <2> QED
    BY <2>1, <2>2
<1>w. \A x \in Threads : (Woken(x)' <=> Woken(x))
  BY DEF Woken
<1>1. TypeOK'
  BY DEF Locations, ThreadStates
<1>2. StackExclusive'
  BY DEF StackExclusive
<1>3. ReadyQueueSound'
  BY DEF ReadyQueueSound, Queued
<1>4. ReadyLockOwned'
  BY DEF ReadyLockOwned
<1>5. BlockLockOwned'
  <2>1. ASSUME NEW x \in Threads, NEW d \in CPUs, BlockLock'[x] = d
        PROVE  \/ pc'[d] = "block" /\ x = CurrentThread'[d]
               \/ /\ pc'[d] \in {"schedule", "switch", "release", "cleanup"}
                  /\ x = PreviousThread'[d]
                  /\ State'[x] = "Blocked"
               \/ pc'[d] \in {"enqueue", "unlock"} /\ x = target'[d]
    BY <2>1 DEF BlockLockOwned
  <2>2. ASSUME NEW d \in CPUs, pc'[d] \in {"enqueue", "unlock"}
        PROVE  target'[d] \in Threads /\ BlockLock'[target'[d]] = d
    BY <2>2, <1>a DEF BlockLockOwned
  <2> QED
    BY <2>1, <2>2 DEF BlockLockOwned
<1>6. IdleApart'
  BY <1>a, <1>w, IdleAreThreads DEF IdleApart
<1>7. CurrentSound'
  BY <1>w DEF CurrentSound, IdleApart
<1>8. NextSound'
  BY <1>w DEF NextSound, Queued
<1>9. WokenSound'
  BY <1>a, <1>b DEF WokenSound, Queued
<1>10. UnbornApart'
  BY DEF UnbornApart
<1>11. ReferencesSound'
  BY DEF ReferencesSound
<1> QED
  BY <1>1, <1>2, <1>3, <1>4, <1>5, <1>6, <1>7, <1>8, <1>9, <1>10, <1>11

\* ThreadUnblock puts the thread in the ready list.
LEMMA StepEnqueueTarget ==
  ASSUME SchedulerInv, NEW c \in CPUs, EnqueueTarget(c)
  PROVE  SchedulerInv'
<1> USE ThreadsAssumption DEF SchedulerInv, TypeOK, EnqueueTarget, Goto, cpuVars, threadVars
<1> DEFINE t == target[c]
<1>a. /\ t \in Threads /\ t \notin Queued \cup waiters \cup IdleThreads
      /\ State[t] = "Ready"
      /\ \A d \in CPUs : CurrentThread[d] # t
      /\ \A d \in CPUs : (d # c /\ pc[d] \in {"unblock", "enqueue"}) => target[d] # t
  BY DEF WokenSound, IdleApart, Woken
<1>b. /\ ReadyThreadsList' \in Seq(Threads)
      /\ IsInjective(ReadyThreadsList')
      /\ Queued' = Queued \cup {t}
  BY <1>a, RangeAppend, InjectiveAppend DEF Queued, ReadyQueueSound
<1>c. \A d \in CPUs : pc[d] # "switch"
  BY DEF ReadyLockOwned
<1> HIDE DEF t
<1>w. \A x \in Threads : (Woken(x)' <=> Woken(x) /\ x # target[c])
  BY DEF Woken, WokenSound
<1>1. TypeOK'
  BY <1>b DEF Locations
<1>2. StackExclusive'
  BY DEF StackExclusive
<1>3. ReadyQueueSound'
  BY <1>a, <1>b DEF ReadyQueueSound
<1>4. ReadyLockOwned'
  BY DEF ReadyLockOwned
<1>5. BlockLockOwned'
  BY DEF BlockLockOwned
<1>6. IdleApart'
  BY <1>w, IdleAreThreads DEF IdleApart
<1>7. CurrentSound'
  BY <1>w DEF CurrentSound, IdleApart
<1>8. NextSound'
  BY <1>c DEF NextSound
<1>9. WokenSound'
  BY <1>a, <1>b DEF WokenSound
<1>10. UnbornApart'
  BY DEF UnbornApart
<1>11. ReferencesSound'
  BY DEF ReferencesSound
<1> QED
  BY <1>1, <1>2, <1>3, <1>4, <1>5, <1>6, <1>7, <1>8, <1>9, <1>10, <1>11

\* ThreadUnblock releases the BlockLock.
LEMMA StepUnlockTarget ==
  ASSUME SchedulerInv, NEW c \in CPUs, UnlockTarget(c)
  PROVE  SchedulerInv'
<1> USE ThreadsAssumption DEF SchedulerInv, TypeOK, UnlockTarget, Goto, cpuVars, threadVars
<1>w. \A x \in Threads : (Woken(x)' <=> Woken(x))
  BY DEF Woken
<1>1. TypeOK'
  BY DEF Locations, ThreadStates
<1>2. StackExclusive'
  BY DEF StackExclusive
<1>3. ReadyQueueSound'
  BY DEF ReadyQueueSound, Queued
<1>4. ReadyLockOwned'
  BY DEF ReadyLockOwned
<1>5. BlockLockOwned'
  BY DEF BlockLockOwned
<1>6. IdleApart'
  BY <1>w, IdleAreThreads DEF IdleApart
<1>7. CurrentSound'
  BY <1>w DEF CurrentSound, IdleApart, BlockLockOwned
<1>8. NextSound'
  BY <1>w DEF NextSound, Queued
<1>9. WokenSound'
  BY DEF WokenSound, Queued
<1>10. UnbornApart'
  BY DEF UnbornApart
<1>11. ReferencesSound'
  BY DEF ReferencesSound
<1> QED
  BY <1>1, <1>2, <1>3, <1>4, <1>5, <1>6, <1>7, <1>8, <1>9, <1>10, <1>11

-----------------------------------------------------------------------------
\* The initial state satisfies the invariant.
LEMMA InitSchedulerInv == Init => SchedulerInv
<1> SUFFICES ASSUME Init PROVE SchedulerInv
  OBVIOUS
<1> USE ThreadsAssumption DEF Init
<1>1. /\ \A c \in CPUs : Main[c] \notin IdleThreads
      /\ IdleThreads \subseteq Threads
  BY DEF IdleThreads
<1>2. \A c \in CPUs : State[Main[c]] = "Running"
  OBVIOUS
<1>3. \A t \in IdleThreads : State[t] = "Ready"
  BY <1>1 DEF IdleThreads
<1>4. Queued = {} /\ IsInjective(ReadyThreadsList)
  BY EmptyRange DEF Queued
<1>5. TypeOK
  BY DEF TypeOK, ThreadStates, Locations
<1>6. StackExclusive /\ ReadyQueueSound /\ ReadyLockOwned
  BY <1>4 DEF StackExclusive, ReadyQueueSound, ReadyLockOwned
<1>7. BlockLockOwned /\ NextSound /\ WokenSound /\ UnbornApart
  BY DEF BlockLockOwned, NextSound, WokenSound, UnbornApart
<1>8. IdleApart
  BY <1>1, <1>3 DEF IdleApart, Woken
<1>9. CurrentSound
  BY <1>2 DEF CurrentSound, Woken
<1>10. ReferencesSound
  BY DEF ReferencesSound
<1> QED
  BY <1>5, <1>6, <1>7, <1>8, <1>9, <1>10 DEF SchedulerInv

\* A step that changes nothing.
LEMMA StutterSchedulerInv ==
  ASSUME SchedulerInv, UNCHANGED vars PROVE SchedulerInv'
<1> USE DEF SchedulerInv, vars, cpuVars, threadVars
<1>1. TypeOK' /\ StackExclusive' /\ ReadyLockOwned' /\ BlockLockOwned'
  BY DEF TypeOK, StackExclusive, ReadyLockOwned, BlockLockOwned
<1>2. ReadyQueueSound' /\ WokenSound' /\ UnbornApart' /\ ReferencesSound'
  BY DEF ReadyQueueSound, Queued, WokenSound, UnbornApart, ReferencesSound
<1>3. IdleApart' /\ CurrentSound' /\ NextSound'
  BY DEF IdleApart, CurrentSound, NextSound, Woken, Queued
<1> QED
  BY <1>1, <1>2, <1>3

\* Every step of every CPU keeps the invariant.
LEMMA StepSchedulerInv == SchedulerInv /\ [Next]_vars => SchedulerInv'
<1> SUFFICES ASSUME SchedulerInv, [Next]_vars PROVE SchedulerInv'
  OBVIOUS
<1>1. ASSUME NEW c \in CPUs, KernelStep(c) PROVE SchedulerInv'
  BY <1>1, StepThreadBlock, StepDie, StepPick, StepThreadSwitch,
     StepReleaseReadyLock, StepReleasePrevious, StepDropPrevious,
     StepKeepPrevious, StepLockTarget, StepEnqueueTarget, StepUnlockTarget
     DEF KernelStep
<1>2. ASSUME NEW c \in CPUs, Call(c) PROVE SchedulerInv'
  BY <1>2, StepThreadYield, StepThreadTakeBlockLock, StepThreadExit,
     StepForcedExit, StepThreadCreate, StepThreadCloseHandle,
     StepThreadTerminate, StepWake
     DEF Call
<1>3. CASE UNCHANGED vars
  BY <1>3, StutterSchedulerInv
<1> QED
  BY <1>1, <1>2, <1>3 DEF Next

\* The scheduler keeps its inductive invariant, whatever threads are created,
\* block, wake each other, exit or are terminated.
THEOREM SchedulerSafe == Spec => []SchedulerInv
BY InitSchedulerInv, StepSchedulerInv, PTL DEF Spec

\* No two CPUs ever execute on the stack of one thread (ThreadSwitch).
THEOREM NoSharedStack == Spec => []StackExclusive
<1>1. SchedulerInv => StackExclusive
  BY DEF SchedulerInv
<1> QED
  BY SchedulerSafe, <1>1, PTL

\* The ready queue (ReadyThreadsList) holds each thread once, and only ready
\* threads that nobody runs and that are on no other list.
THEOREM ReadyQueueIsSound == Spec => []ReadyQueueSound
<1>1. SchedulerInv => ReadyQueueSound
  BY DEF SchedulerInv
<1> QED
  BY SchedulerSafe, <1>1, PTL

\* The ASSERT of ThreadCleanupPostSchedule never fires.
THEOREM CleanupAssertHolds == Spec => []CleanupAssert
<1>1. SchedulerInv => CleanupAssert
  <2> SUFFICES ASSUME SchedulerInv, NEW c \in CPUs, pc[c] = "cleanup",
                      PreviousThread[c] # Nobody,
                      BlockLock[PreviousThread[c]] = c
               PROVE  State[PreviousThread[c]] = "Blocked"
    BY DEF CleanupAssert
  <2>1. PreviousThread[c] \in Threads
    BY DEF SchedulerInv, TypeOK
  <2> QED
    BY <2>1 DEF SchedulerInv, BlockLockOwned
<1> QED
  BY SchedulerSafe, <1>1, PTL

-----------------------------------------------------------------------------
(***************************************************************************)
(* ThreadUnblock of a thread nobody told to terminate.  Such a thread, when *)
(* it is linked on a WaitingList or was unlinked by a waker that has not   *)
(* locked it yet, is blocked or holds its BlockLock on the way to          *)
(* ThreadBlock.                                                            *)
(***************************************************************************)
Waiting(t) ==
  t \in waiters \/ \E c \in CPUs : pc[c] = "unblock" /\ target[c] = t

WaitSound ==
  \A t \in Threads : Waiting(t) /\ Flags[t] = 0 =>
    \/ State[t] = "Blocked"
    \/ \E d \in CPUs : CurrentThread[d] = t /\ pc[d] = "block"

\* Every step keeps a waiting thread blocked, or on the way to ThreadBlock,
\* as long as it is not told to terminate.
LEMMA StepWaitSound ==
  ASSUME SchedulerInv, WaitSound, [Next]_vars
  PROVE  WaitSound'
<1> USE DEF SchedulerInv, TypeOK, WaitSound, Waiting, Goto,
            threadVars, cpuVars
<1>1. ASSUME NEW c \in CPUs, ThreadBlock(c) PROVE WaitSound'
  BY <1>1 DEF ThreadBlock
<1>2. ASSUME NEW c \in CPUs, Die(c) PROVE WaitSound'
  <2>1. State[CurrentThread[c]] # "Blocked"
    BY <1>2 DEF Die, CurrentSound
  <2>2. \A d \in CPUs : CurrentThread[d] = CurrentThread[c] => pc[d] # "block"
    BY <1>2 DEF Die, StackExclusive
  <2>3. Flags[CurrentThread[c]] = 0 => ~Waiting(CurrentThread[c])
    BY <2>1, <2>2
  <2> QED
    BY <1>2, <2>3 DEF Die
<1>3. ASSUME NEW c \in CPUs, Pick(c) PROVE WaitSound'
  BY <1>3 DEF Pick
<1>4. ASSUME NEW c \in CPUs, ThreadSwitch(c) PROVE WaitSound'
  BY <1>4 DEF ThreadSwitch
<1>5. ASSUME NEW c \in CPUs,
             \/ ReleaseReadyLock(c)
             \/ ReleasePrevious(c)
             \/ DropPrevious(c)
             \/ KeepPrevious(c)
      PROVE  WaitSound'
  <2>1. /\ UNCHANGED <<Flags, State, waiters, target, CurrentThread>>
        /\ pc[c] \in {"release", "cleanup"}
        /\ \E l \in {"cleanup", "run"} : pc' = [pc EXCEPT ![c] = l]
    BY <1>5 DEF ReleaseReadyLock, ReleasePrevious, DropPrevious, KeepPrevious
  <2> QED
    BY <2>1
<1>6. ASSUME NEW c \in CPUs, LockTarget(c) PROVE WaitSound'
  <2>1. target[c] \notin waiters
    BY <1>6 DEF LockTarget, WokenSound
  <2>2. \A d \in CPUs : d # c /\ pc[d] = "unblock" => target[d] # target[c]
    BY <1>6 DEF LockTarget, WokenSound
  <2> QED
    BY <1>6, <2>1, <2>2 DEF LockTarget
<1>7. ASSUME NEW c \in CPUs, EnqueueTarget(c) \/ UnlockTarget(c)
      PROVE  WaitSound'
  <2>1. CASE EnqueueTarget(c)
    BY <2>1 DEF EnqueueTarget
  <2>2. CASE UnlockTarget(c)
    BY <2>2 DEF UnlockTarget
  <2> QED
    BY <1>7, <2>1, <2>2
<1>8. ASSUME NEW c \in CPUs, ThreadYield(c) PROVE WaitSound'
  <2>1. ~Waiting(CurrentThread[c])
    <3>1. CurrentThread[c] \notin waiters /\ ~Woken(CurrentThread[c])
      BY <1>8 DEF ThreadYield, CurrentSound
    <3> QED
      BY <3>1 DEF Woken
  <2> QED
    BY <1>8, <2>1 DEF ThreadYield
<1>9. ASSUME NEW c \in CPUs, ThreadTakeBlockLock(c)
      PROVE  WaitSound'
  BY <1>9 DEF ThreadTakeBlockLock
<1>10. ASSUME NEW c \in CPUs, ThreadExit(c) PROVE WaitSound'
  BY <1>10 DEF ThreadExit, EnterExit
<1>11. ASSUME NEW c \in CPUs, ForcedExit(c) PROVE WaitSound'
  BY <1>11 DEF ForcedExit, MustExit, EnterExit, Pending, Terminated
<1>12. ASSUME NEW c \in CPUs, NEW t \in Threads, ThreadCreate(c, t)
       PROVE  WaitSound'
  BY <1>12 DEF ThreadCreate
<1>13. ASSUME NEW c \in CPUs, NEW t \in Threads, ThreadCloseHandle(c, t)
       PROVE  WaitSound'
  BY <1>13 DEF ThreadCloseHandle, Dereference
<1>14. ASSUME NEW c \in CPUs, NEW t \in Threads, ThreadTerminate(c, t)
       PROVE  WaitSound'
  <2>1. UNCHANGED <<State, waiters, CurrentThread, target, pc>>
    BY <1>14 DEF ThreadTerminate
  <2>2. \A u \in Threads : Flags'[u] = 0 => Flags[u] = 0
    BY <1>14 DEF ThreadTerminate, Pending, Terminated
  <2> QED
    BY <2>1, <2>2
<1>15. ASSUME NEW c \in CPUs, NEW t \in Threads, Wake(c, t)
       PROVE  WaitSound'
  BY <1>15 DEF Wake
<1>16. CASE UNCHANGED vars
  BY <1>16 DEF vars
<1> QED
  BY <1>1, <1>2, <1>3, <1>4, <1>5, <1>6, <1>7, <1>8, <1>9, <1>10, <1>11,
     <1>12, <1>13, <1>14, <1>15, <1>16 DEF Next, KernelStep, Call

\* A waker finds its target blocked unless that thread was told to
\* terminate: otherwise the ASSERT of ThreadUnblock never fires.
THEOREM UnblockAssertHolds == Spec => []UnblockAssert
<1>1. Init => WaitSound
  BY DEF Init, WaitSound, Waiting
<1>2. SchedulerInv /\ WaitSound /\ [Next]_vars => WaitSound'
  BY StepWaitSound
<1>3. SchedulerInv /\ WaitSound => UnblockAssert
  <2> SUFFICES ASSUME SchedulerInv, WaitSound, NEW c \in CPUs,
                      pc[c] = "unblock", BlockLock[target[c]] = Nobody,
                      Flags[target[c]] = 0
               PROVE  State[target[c]] = "Blocked"
    BY DEF UnblockAssert
  <2>1. target[c] \in Threads /\ Waiting(target[c])
    BY DEF SchedulerInv, WokenSound, Waiting
  <2>2. \A d \in CPUs : CurrentThread[d] = target[c] => pc[d] # "block"
    BY ThreadsAssumption DEF SchedulerInv, CurrentSound
  <2> QED
    BY <2>1, <2>2 DEF WaitSound
<1> QED
  BY SchedulerSafe, <1>1, <1>2, <1>3, PTL DEF Spec
=============================================================================
