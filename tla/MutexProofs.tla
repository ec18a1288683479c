----------------------------- MODULE MutexProofs -----------------------------
(***************************************************************************)
(* Safety of the mutex, and that it implements the abstract lock, for any  *)
(* set of threads and any recursion limit.                                 *)
(***************************************************************************)
EXTENDS Mutex, DataFacts, TLAPS

\* The initial state satisfies the inductive invariant.
LEMMA InitMutexInv == Init => MutexInv
<1> SUFFICES ASSUME Init PROVE MutexInv
  OBVIOUS
<1> USE MutexAssumption DEF Init
<1>1. TypeOK
  BY DEF TypeOK, Locations
<1>2. NoLostWaiter
  BY EmptyRange DEF NoLostWaiter, Waiting
<1>3. ListSound
  BY EmptyRange DEF ListSound, Waiting
<1>4. HolderSound
  BY DEF HolderSound
<1> QED BY <1>1, <1>2, <1>3, <1>4 DEF MutexInv

\* A step that changes nothing.
LEMMA StutterMutexInv == MutexInv /\ UNCHANGED vars => MutexInv'
BY DEF MutexInv, vars, TypeOK, NoLostWaiter, ListSound, HolderSound, Waiting

\* Steps that change only the recursion depth.
LEMMA StepDepth ==
  ASSUME MutexInv, NEW t \in Threads,
         AcquireRecursive(t) \/ ReleaseRecursive(t)
  PROVE  MutexInv'
<1> USE MutexAssumption DEF MutexInv, AcquireRecursive, ReleaseRecursive
<1>1. TypeOK'
  BY DEF TypeOK
<1>2. NoLostWaiter' /\ ListSound'
  BY DEF NoLostWaiter, ListSound, Waiting
<1>3. HolderSound'
  BY DEF HolderSound, TypeOK
<1> QED BY <1>1, <1>2, <1>3

\* A step that links t: t was neither waiting nor the holder.
LEMMA StepLink ==
  ASSUME MutexInv, NEW t \in Threads, WaitForOwner(t) \/ Recheck(t)
  PROVE  MutexInv'
<1> USE MutexAssumption DEF MutexInv
<1>1. CASE WaitForOwner(t)
  <2> USE <1>1 DEF WaitForOwner, Link, Goto
  <2>1. t \notin Waiting /\ WaitingList \in Seq(Threads)
    BY DEF NoLostWaiter, TypeOK
  <2>2. Waiting' = Waiting \cup {t} /\ IsInjective(WaitingList')
    BY <2>1, RangeAppend, InjectiveAppend DEF Waiting, ListSound
  <2>3. TypeOK'
    BY DEF TypeOK, Locations
  <2>4. NoLostWaiter'
    BY <2>2 DEF NoLostWaiter, TypeOK
  <2>5. ListSound'
    BY <2>1, <2>2 DEF ListSound, HolderSound
  <2>6. HolderSound'
    BY DEF HolderSound, TypeOK
  <2> QED BY <2>3, <2>4, <2>5, <2>6
<1>2. CASE Recheck(t)
  <2>1. Holder = t /\ Goto(t, "woken", "own")
        /\ UNCHANGED <<Holder, CurrentRecursivityDepth, WaitingList, MutexLock, pThread>>
    BY <1>2 DEF Recheck, Link, Goto, HolderSound
  <2> USE <2>1 DEF Goto
  <2>3. TypeOK'
    BY DEF TypeOK, Locations
  <2>4. NoLostWaiter'
    BY DEF NoLostWaiter, TypeOK, Waiting
  <2>5. ListSound'
    BY DEF ListSound, Waiting
  <2>6. HolderSound'
    BY DEF HolderSound, TypeOK
  <2> QED BY <2>3, <2>4, <2>5, <2>6
<1> QED BY <1>1, <1>2

\* Steps that leave the WaitingList and pThread alone.
LEMMA StepLocal ==
  ASSUME MutexInv, NEW t \in Threads,
         ReadHolder(t) \/ TakeFree(t) \/ Block(t) \/ ReleaseFree(t)
  PROVE  MutexInv'
<1> USE MutexAssumption DEF MutexInv, ReadHolder, TakeFree, Block, ReleaseFree, Goto
<1>1. TypeOK'
  BY DEF TypeOK, Locations
<1>2. NoLostWaiter'
  BY DEF NoLostWaiter, Waiting, TypeOK
<1>3. ListSound'
  <2>1. Nobody \notin Waiting /\ Waiting' = Waiting
    BY DEF Waiting, TypeOK, Range
  <2> QED BY <2>1 DEF ListSound, NoLostWaiter
<1>4. HolderSound'
  BY DEF HolderSound, TypeOK
<1> QED BY <1>1, <1>2, <1>3, <1>4

\* MutexRelease gives the mutex to the first waiter.
LEMMA StepHandOff ==
  ASSUME MutexInv, NEW t \in Threads, HandOff(t)
  PROVE  MutexInv'
<1> USE MutexAssumption DEF MutexInv, HandOff, Goto
<1>1. /\ Head(WaitingList) \in Waiting
      /\ Waiting' = Waiting \ {Head(WaitingList)}
      /\ IsInjective(WaitingList')
  BY RangeTail DEF TypeOK, ListSound, Waiting
<1>2. Head(WaitingList) \in Threads
  BY DEF TypeOK
<1>3. TypeOK'
  BY <1>2 DEF TypeOK, Locations
<1>4. NoLostWaiter'
  BY <1>1, <1>2 DEF NoLostWaiter, HolderSound, TypeOK
<1>5. ListSound'
  BY <1>1, <1>2 DEF ListSound
<1>6. HolderSound'
  BY <1>1, <1>2 DEF HolderSound, NoLostWaiter, TypeOK
<1> QED BY <1>3, <1>4, <1>5, <1>6

\* The waiter that owns the mutex is made ready.
LEMMA StepUnblock ==
  ASSUME MutexInv, NEW t \in Threads, Unblock(t)
  PROVE  MutexInv'
<1> USE MutexAssumption DEF MutexInv, Unblock
<1>0. /\ pThread \in Threads /\ pThread # t /\ Holder = pThread
      /\ pc' = [pc EXCEPT ![t] = "out", ![pThread] = "woken"]
  BY DEF HolderSound, TypeOK
<1>1. TypeOK'
  BY <1>0 DEF TypeOK, Locations
<1>2. pThread \notin Waiting
  BY <1>0 DEF ListSound
<1>3. NoLostWaiter'
  BY <1>0, <1>2 DEF NoLostWaiter, Waiting, TypeOK
<1>4. ListSound'
  BY DEF ListSound, Waiting
<1>5. HolderSound'
  BY <1>0 DEF HolderSound, TypeOK
<1> QED BY <1>1, <1>3, <1>4, <1>5

\* Every step preserves the inductive invariant.
LEMMA StepMutexInv == MutexInv /\ [Next]_vars => MutexInv'
<1> SUFFICES ASSUME MutexInv, [Next]_vars PROVE MutexInv'
  OBVIOUS
<1>1. ASSUME NEW t \in Threads,
             \/ AcquireRecursive(t) \/ ReadHolder(t)
             \/ KernelStep(t) \/ Release(t)
      PROVE  MutexInv'
  BY <1>1, StepDepth, StepLink, StepLocal, StepHandOff, StepUnblock
     DEF KernelStep, Release
<1> QED BY <1>1, StutterMutexInv DEF Next

\* The inductive invariant holds in every reachable state: no waiter is lost,
\* none is linked twice, and Holder is exactly who may proceed.
THEOREM MutexSafe == Spec => []MutexInv
BY InitMutexInv, StepMutexInv, PTL DEF Spec

\* MutexAcquire lets one thread at a time through.
THEOREM Exclusive == Spec => []MutualExclusion
<1>1. MutexInv => MutualExclusion
  BY DEF MutexInv, HolderSound, MutualExclusion
<1> QED BY <1>1, MutexSafe, PTL

\* The loop of MutexAcquire never has to wait a second time.
THEOREM NoSecondWait == Spec => []WokenOwns
<1>1. MutexInv => WokenOwns
  BY DEF MutexInv, HolderSound, WokenOwns
<1> QED BY <1>1, MutexSafe, PTL

-----------------------------------------------------------------------------
(***************************************************************************)
(* Refinement                                                              *)
(***************************************************************************)

\* A non-empty queue is the owner followed by those that wait.
LEMMA Cons ==
  ASSUME NEW S, NEW h \in S, NEW s \in Seq(S)
  PROVE  /\ <<h>> \o s \in Seq(S)
         /\ <<h>> \o s # <<>>
         /\ Head(<<h>> \o s) = h
         /\ Tail(<<h>> \o s) = s
         /\ Len(<<h>> \o s) = Len(s) + 1
         /\ Range(<<h>> \o s) = Range(s) \cup {h}
<1> DEFINE q == <<h>> \o s
<1>1. /\ q \in Seq(S) /\ Len(q) = Len(s) + 1 /\ Len(s) \in Nat
      /\ q[1] = h
      /\ \A i \in 1 .. Len(s) : q[i + 1] = s[i]
  OBVIOUS
<1>2. DOMAIN q = 1 .. Len(s) + 1 /\ DOMAIN s = 1 .. Len(s)
  BY <1>1
<1> HIDE DEF q
<1>3. q # <<>> /\ Head(q) = h
  BY <1>1
<1>4. Tail(q) \in Seq(S) /\ Len(Tail(q)) = Len(s) /\ \A i \in 1 .. Len(s) : Tail(q)[i] = s[i]
  BY <1>1, <1>3
<1>5. Tail(q) = s
  BY <1>4
<1>6. Range(q) \subseteq Range(s) \cup {h}
  <2> SUFFICES ASSUME NEW i \in 1 .. Len(s) + 1
               PROVE  q[i] \in Range(s) \cup {h}
    BY <1>2 DEF Range
  <2>1. CASE i = 1
    BY <2>1, <1>1
  <2>2. CASE i # 1
    <3>1. i - 1 \in 1 .. Len(s) /\ q[i] = s[i - 1]
      BY <2>2, <1>1
    <3> QED BY <3>1, <1>2 DEF Range
  <2> QED BY <2>1, <2>2
<1>7. Range(s) \cup {h} \subseteq Range(q)
  BY <1>1, <1>2 DEF Range
<1> QED BY <1>1, <1>3, <1>5, <1>6, <1>7 DEF q

\* Appending to a sequence that has a new head.
LEMMA ConsAppend ==
  ASSUME NEW S, NEW h \in S, NEW s \in Seq(S), NEW x \in S
  PROVE  <<h>> \o Append(s, x) = Append(<<h>> \o s, x)
OBVIOUS

\* A sequence is its head in front of its tail.
LEMMA ConsHeadTail ==
  ASSUME NEW S, NEW s \in Seq(S), s # <<>>
  PROVE  <<Head(s)>> \o Tail(s) = s
OBVIOUS

\* A step of the mutex is a step of the abstract lock or leaves it unchanged.
LEMMA StepFifo ==
  ASSUME MutexInv, MutexInv', [Next]_vars
  PROVE  [Fifo!Next]_(Fifo!vars)
<1> USE MutexAssumption
<1>0. ASSUME UNCHANGED <<Holder, CurrentRecursivityDepth, WaitingList>>
      PROVE  UNCHANGED Fifo!vars
  BY <1>0 DEF Fifo!vars
<1>1. CASE UNCHANGED vars
  BY <1>0, <1>1 DEF vars
<1>2. ASSUME NEW t \in Threads, AcquireRecursive(t)
      PROVE  Fifo!Reenter(t)
  <2>1. Holder = t /\ Holder # Nobody /\ WaitingList \in Seq(Threads)
    BY <1>2 DEF AcquireRecursive, MutexInv, TypeOK
  <2>2. <<Holder>> \o WaitingList # <<>> /\ Head(<<Holder>> \o WaitingList) = t
    BY <2>1, Cons
  <2> QED BY <1>2, <2>1, <2>2 DEF AcquireRecursive, Fifo!Reenter, Fifo!Owns
<1>3. ASSUME NEW t \in Threads, TakeFree(t)
      PROVE  Fifo!Request(t)
  <2>1. WaitingList = <<>> /\ Holder = Nobody /\ Holder' = t /\ t # Nobody
        /\ WaitingList' = <<>> /\ CurrentRecursivityDepth' = 1
    BY <1>3 DEF TakeFree, MutexInv, ListSound
  <2>2. Append(<<>>, t) = <<t>> \o <<>>
    OBVIOUS
  <2> QED BY <2>1, <2>2, EmptyRange DEF Fifo!Request, Fifo!Range, Range
<1>4. ASSUME NEW t \in Threads, WaitForOwner(t)
      PROVE  Fifo!Request(t)
  <2>1. /\ Holder \in Threads /\ Holder # Nobody /\ Holder # t
        /\ t \notin Range(WaitingList) /\ WaitingList \in Seq(Threads)
        /\ WaitingList' = Append(WaitingList, t)
        /\ UNCHANGED <<Holder, CurrentRecursivityDepth>>
    BY <1>4 DEF WaitForOwner, Link, Goto, MutexInv, TypeOK, NoLostWaiter, HolderSound, Waiting
  <2>2. /\ t \notin Range(<<Holder>> \o WaitingList)
        /\ <<Holder>> \o WaitingList # <<>>
        /\ <<Holder>> \o Append(WaitingList, t) = Append(<<Holder>> \o WaitingList, t)
    BY <2>1, Cons, ConsAppend
  <2> QED BY <2>1, <2>2 DEF Fifo!Request, Fifo!Range, Range
<1>5. ASSUME NEW t \in Threads, ReadHolder(t) \/ Block(t) \/ Recheck(t) \/ Unblock(t)
      PROVE  UNCHANGED Fifo!vars
  <2>1. UNCHANGED <<Holder, CurrentRecursivityDepth, WaitingList>>
    BY <1>5 DEF ReadHolder, Block, Recheck, Unblock, Link, Goto, MutexInv, HolderSound
  <2> QED BY <1>0, <2>1
<1>6. ASSUME NEW t \in Threads, Release(t)
      PROVE  Fifo!Leave(t)
  <2>1. Holder = t /\ Holder # Nobody /\ WaitingList \in Seq(Threads) /\ CurrentRecursivityDepth \in Nat
    BY <1>6 DEF Release, ReleaseRecursive, ReleaseFree, HandOff, Goto, MutexInv, TypeOK, HolderSound
  <2>2. /\ <<Holder>> \o WaitingList # <<>> /\ Head(<<Holder>> \o WaitingList) = t
        /\ Tail(<<Holder>> \o WaitingList) = WaitingList
        /\ Len(<<Holder>> \o WaitingList) = Len(WaitingList) + 1
    BY <2>1, Cons
  <2>3. Fifo!Owns(t)
    BY <2>1, <2>2 DEF Fifo!Owns
  <2>4. CASE ReleaseRecursive(t)
    BY <2>1, <2>3, <2>4 DEF ReleaseRecursive, Fifo!Leave
  <2>5. CASE ReleaseFree(t)
    <3>1. /\ ~(CurrentRecursivityDepth > 1) /\ WaitingList = <<>> /\ Holder' = Nobody
          /\ Len(WaitingList) = 0
      BY <2>5, <2>1 DEF ReleaseFree
    <3> QED BY <2>1, <2>2, <2>3, <3>1 DEF Fifo!Leave
  <2>6. CASE HandOff(t)
    <3>1. /\ ~(CurrentRecursivityDepth > 1) /\ WaitingList # <<>>
          /\ Holder' = Head(WaitingList) /\ WaitingList' = Tail(WaitingList)
          /\ CurrentRecursivityDepth' = 1
      BY <2>6, <2>1 DEF HandOff
    <3>2. Holder' # Nobody /\ Len(WaitingList) + 1 # 1
      BY <3>1, <2>1
    <3>3. <<Holder'>> \o WaitingList' = WaitingList
      BY <3>1, <2>1, ConsHeadTail
    <3> QED BY <2>1, <2>2, <2>3, <3>1, <3>2, <3>3 DEF Fifo!Leave
  <2> QED BY <1>6, <2>4, <2>5, <2>6 DEF Release
<1> QED
  BY <1>1, <1>2, <1>3, <1>4, <1>5, <1>6 DEF Next, KernelStep, Fifo!Next

\* The mutex grants exclusive, re-entrant access in order of arrival.
THEOREM ImplementsFifoLock == Spec => FifoSpec
<1>1. Init => Fifo!Init
  BY DEF Init, Fifo!Init
<1>2. MutexInv /\ MutexInv' /\ [Next]_vars => [Fifo!Next]_(Fifo!vars)
  BY StepFifo
<1>3. Spec => Fifo!Spec
  BY <1>1, <1>2, MutexSafe, PTL DEF Spec, Fifo!Spec
<1> QED BY <1>3 DEF FifoSpec
=============================================================================
