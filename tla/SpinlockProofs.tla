---------------------------- MODULE SpinlockProofs ----------------------------
(***************************************************************************)
(* SpinlockInv is an inductive invariant of Spinlock, for any set of CPUs, *)
(* either kind of lock, with or without callers of TryAcquire.             *)
(***************************************************************************)
EXTENDS Spinlock, TLAPS

\* The parts of a context, and two contexts of one CPU.
LEMMA ContextParts ==
  ASSUME NEW x \in Contexts
  PROVE  /\ cpu(x) \in CPUs
         /\ x = <<cpu(x), "thread">> \/ x = <<cpu(x), "isr">>
         /\ x[2] \in {"thread", "isr"}
         /\ x = <<cpu(x), x[2]>>
  BY DEF Contexts, cpu

\* The two contexts of a CPU.
LEMMA ContextOf ==
  ASSUME NEW c \in CPUs
  PROVE  /\ <<c, "thread">> \in Contexts /\ cpu(<<c, "thread">>) = c
         /\ <<c, "isr">> \in Contexts /\ cpu(<<c, "isr">>) = c
         /\ <<c, "thread">>[2] = "thread" /\ <<c, "isr">>[2] = "isr"
  BY DEF Contexts, cpu

\* The initial state: the lock is free and nobody is in its functions.
LEMMA InitSpinlockInv == Init => SpinlockInv
  <1> SUFFICES ASSUME Init PROVE SpinlockInv
    OBVIOUS
  <1> USE SpinlockAssumption DEF Init
  <1>1. TypeOK
    BY DEF TypeOK, Places
  <1>2. \A x \in Contexts : pc[x] = "idle"
    OBVIOUS
  <1>3. MutualExclusion /\ LockBusy /\ HolderCleared /\ NoLostWakeup
    BY <1>2 DEF MutualExclusion, LockBusy, HolderCleared, NoLostWakeup, Inside
  <1>4. InterruptsRestored
    BY DEF InterruptsRestored
  <1>5. OneContextPerCpu
    BY <1>2, ContextOf DEF OneContextPerCpu
  <1> QED
    BY <1>1, <1>3, <1>4, <1>5 DEF SpinlockInv

\* A context in the functions of the lock is the only one of its CPU.
LEMMA OnlyOne ==
  ASSUME SpinlockInv, NEW x \in Contexts, NEW y \in Contexts,
         pc[x] # "idle", pc[y] # "idle", cpu(x) = cpu(y)
  PROVE  x = y
  BY ContextParts DEF SpinlockInv, OneContextPerCpu

\* The call turns interrupts off and saves what its level ran with.
LEMMA StepAcquire ==
  ASSUME SpinlockInv, NEW x \in Contexts, Acquire(x)
  PROVE  SpinlockInv'
  <1> USE SpinlockAssumption
  <1>1. TypeOK /\ MutualExclusion /\ LockBusy /\ HolderCleared /\ InterruptsRestored
        /\ OneContextPerCpu /\ NoLostWakeup
    BY DEF SpinlockInv
  <1>2. cpu(x) \in CPUs /\ (x = <<cpu(x), "thread">> \/ x = <<cpu(x), "isr">>)
    BY ContextParts
  <1>3. \A y \in Contexts : cpu(y) = cpu(x) /\ pc[y] # "idle" /\ pc[x] # "idle" => y = x
    BY OnlyOne
  <1>4. pc' \in [Contexts -> Places] /\ \A y \in Contexts : y # x => pc'[y] = pc[y]
    BY <1>1 DEF TypeOK, Places, Acquire, Goto, DisableInterrupts, Executes
  <1>5. TypeOK'
    BY <1>1, <1>2, <1>3, <1>4 DEF TypeOK, Places, Acquire, Goto,
       DisableInterrupts, Executes
  <1>6. MutualExclusion'
    BY <1>1, <1>2, <1>3, <1>4 DEF TypeOK, MutualExclusion, Inside, Acquire, Goto,
       DisableInterrupts, Executes
  <1>7. LockBusy'
    BY <1>1, <1>2, <1>3, <1>4 DEF TypeOK, LockBusy, Inside, MutualExclusion,
       Acquire, Goto, DisableInterrupts, Executes
  <1>8. HolderCleared'
    BY <1>1, <1>2, <1>3, <1>4 DEF TypeOK, HolderCleared, MutualExclusion,
       LockBusy, Inside, Acquire, Goto, DisableInterrupts, Executes
  <1>9. InterruptsRestored'
    BY <1>1, <1>2, <1>3, <1>4, ContextOf, ContextParts DEF TypeOK,
       InterruptsRestored, OneContextPerCpu, Acquire, Goto, DisableInterrupts,
       Executes
  <1>10. OneContextPerCpu'
    <2>1. pc[x] = "idle" /\ inIsr' = inIsr /\ intr'[cpu(x)] = FALSE /\ IntrState'[x] = intr[cpu(x)]
      BY <1>1, <1>2 DEF Acquire, Goto, DisableInterrupts, TypeOK
    <2>2. /\ x = <<cpu(x), "thread">> => ~inIsr[cpu(x)] /\ intr[cpu(x)]
          /\ x = <<cpu(x), "isr">> => inIsr[cpu(x)] /\ ~intr[cpu(x)]
      BY <2>1, <1>1, <1>2, ContextParts DEF Acquire, Goto, Executes, InterruptsRestored
    <2>3. \A y \in Contexts : y # x => IntrState'[y] = IntrState[y]
      BY <1>1 DEF Acquire, DisableInterrupts, TypeOK
    <2>4. \A c \in CPUs : c # cpu(x) => intr'[c] = intr[c]
      BY <1>1 DEF Acquire, DisableInterrupts, TypeOK
    <2>5. ASSUME NEW c \in CPUs, c # cpu(x)
          PROVE  pc'[<<c, "thread">>] = pc[<<c, "thread">>] /\ pc'[<<c, "isr">>] = pc[<<c, "isr">>]
                 /\ IntrState'[<<c, "thread">>] = IntrState[<<c, "thread">>]
                 /\ IntrState'[<<c, "isr">>] = IntrState[<<c, "isr">>]
      BY <2>5, <2>3, <1>4, ContextOf
    <2>6. x = <<cpu(x), "thread">> => pc'[<<cpu(x), "isr">>] = "idle"
      BY <2>2, <1>1, <1>2, <1>4, ContextOf DEF OneContextPerCpu
    <2>7. x = <<cpu(x), "isr">> => pc'[<<cpu(x), "thread">>] = "idle"
      BY <2>2, <1>1, <1>2, <1>4, ContextOf DEF OneContextPerCpu
    <2> QED
      BY <2>1, <2>2, <2>4, <2>5, <2>6, <2>7, <1>1, <1>2 DEF OneContextPerCpu
  <1>11. NoLostWakeup'
    BY <1>1, <1>2, <1>3, <1>4, ContextParts DEF TypeOK, NoLostWakeup, LockBusy,
       Inside, Acquire, Goto, DisableInterrupts, Executes
  <1> QED
    BY <1>5, <1>6, <1>7, <1>8, <1>9, <1>10, <1>11 DEF SpinlockInv

\* Arming the monitor takes nothing.
LEMMA StepMonitor ==
  ASSUME SpinlockInv, NEW x \in Contexts, Monitor(x)
  PROVE  SpinlockInv'
  <1> USE SpinlockAssumption
  <1>1. TypeOK /\ MutualExclusion /\ LockBusy /\ HolderCleared /\ InterruptsRestored
        /\ OneContextPerCpu /\ NoLostWakeup
    BY DEF SpinlockInv
  <1>2. cpu(x) \in CPUs /\ (x = <<cpu(x), "thread">> \/ x = <<cpu(x), "isr">>)
    BY ContextParts
  <1>3. \A y \in Contexts : cpu(y) = cpu(x) /\ pc[y] # "idle" /\ pc[x] # "idle" => y = x
    BY OnlyOne
  <1>4. pc' \in [Contexts -> Places] /\ \A y \in Contexts : y # x => pc'[y] = pc[y]
    BY <1>1 DEF TypeOK, Places, Monitor, Goto, Executes
  <1>5. TypeOK'
    BY <1>1, <1>2, <1>3, <1>4 DEF TypeOK, Places, Monitor, Goto, Executes
  <1>6. MutualExclusion'
    BY <1>1, <1>2, <1>3, <1>4 DEF TypeOK, MutualExclusion, Inside, Monitor, Goto,
       Executes
  <1>7. LockBusy'
    BY <1>1, <1>2, <1>3, <1>4 DEF TypeOK, LockBusy, Inside, MutualExclusion,
       Monitor, Goto, Executes
  <1>8. HolderCleared'
    BY <1>1, <1>2, <1>3, <1>4 DEF TypeOK, HolderCleared, MutualExclusion,
       LockBusy, Inside, Monitor, Goto, Executes
  <1>9. InterruptsRestored'
    BY <1>1, <1>2, <1>3, <1>4, ContextOf, ContextParts DEF TypeOK,
       InterruptsRestored, OneContextPerCpu, Monitor, Goto, Executes
  <1>10. OneContextPerCpu'
    BY <1>1, <1>2, <1>3, <1>4, ContextOf, ContextParts DEF TypeOK,
       InterruptsRestored, OneContextPerCpu, Monitor, Goto, Executes
  <1>11. NoLostWakeup'
    BY <1>1, <1>2, <1>3, <1>4, ContextParts DEF TypeOK, NoLostWakeup, LockBusy,
       Inside, Monitor, Goto, Executes
  <1> QED
    BY <1>5, <1>6, <1>7, <1>8, <1>9, <1>10, <1>11 DEF SpinlockInv

\* The byte was free, so nobody was inside and Holder was clear.
LEMMA StepExchangeTakes ==
  ASSUME SpinlockInv, NEW x \in Contexts, ExchangeTakes(x)
  PROVE  SpinlockInv'
  <1> USE SpinlockAssumption
  <1>1. TypeOK /\ MutualExclusion /\ LockBusy /\ HolderCleared /\ InterruptsRestored
        /\ OneContextPerCpu /\ NoLostWakeup
    BY DEF SpinlockInv
  <1>2. cpu(x) \in CPUs /\ (x = <<cpu(x), "thread">> \/ x = <<cpu(x), "isr">>)
    BY ContextParts
  <1>3. \A y \in Contexts : cpu(y) = cpu(x) /\ pc[y] # "idle" /\ pc[x] # "idle" => y = x
    BY OnlyOne
  <1>4. pc' \in [Contexts -> Places] /\ \A y \in Contexts : y # x => pc'[y] = pc[y]
    BY <1>1 DEF TypeOK, Places, ExchangeTakes, Goto, StoreToLock, Executes
  <1>5. TypeOK'
    BY <1>1, <1>2, <1>3, <1>4 DEF TypeOK, Places, ExchangeTakes, Goto,
       StoreToLock, Executes
  <1>6. MutualExclusion'
    <2>1. \A y \in Contexts : ~Inside(y)
      BY <1>1 DEF LockBusy, ExchangeTakes
    <2>2. \A y \in Contexts : y # x => ~Inside(y)'
      BY <2>1, <1>4 DEF Inside
    <2> QED
      BY <2>2 DEF MutualExclusion
  <1>7. LockBusy'
    BY <1>1, <1>2, <1>3, <1>4 DEF TypeOK, LockBusy, Inside, MutualExclusion,
       ExchangeTakes, Goto, StoreToLock, Executes
  <1>8. HolderCleared'
    BY <1>1, <1>2, <1>3, <1>4 DEF TypeOK, HolderCleared, MutualExclusion,
       LockBusy, Inside, ExchangeTakes, Goto, StoreToLock, Executes
  <1>9. InterruptsRestored'
    BY <1>1, <1>2, <1>3, <1>4, ContextOf, ContextParts DEF TypeOK,
       InterruptsRestored, OneContextPerCpu, ExchangeTakes, Goto, StoreToLock,
       Executes
  <1>10. OneContextPerCpu'
    BY <1>1, <1>2, <1>3, <1>4, ContextOf, ContextParts DEF TypeOK,
       InterruptsRestored, OneContextPerCpu, ExchangeTakes, Goto, StoreToLock,
       Executes
  <1>11. NoLostWakeup'
    BY <1>1, <1>2, <1>3, <1>4, ContextParts DEF TypeOK, NoLostWakeup, LockBusy,
       Inside, ExchangeTakes, Goto, StoreToLock, Executes
  <1> QED
    BY <1>5, <1>6, <1>7, <1>8, <1>9, <1>10, <1>11 DEF SpinlockInv

\* The byte is taken when the CPU goes to sleep.
LEMMA StepExchangeFails ==
  ASSUME SpinlockInv, NEW x \in Contexts, ExchangeFails(x)
  PROVE  SpinlockInv'
  <1> USE SpinlockAssumption
  <1>1. TypeOK /\ MutualExclusion /\ LockBusy /\ HolderCleared /\ InterruptsRestored
        /\ OneContextPerCpu /\ NoLostWakeup
    BY DEF SpinlockInv
  <1>2. cpu(x) \in CPUs /\ (x = <<cpu(x), "thread">> \/ x = <<cpu(x), "isr">>)
    BY ContextParts
  <1>3. \A y \in Contexts : cpu(y) = cpu(x) /\ pc[y] # "idle" /\ pc[x] # "idle" => y = x
    BY OnlyOne
  <1>4. pc' \in [Contexts -> Places] /\ \A y \in Contexts : y # x => pc'[y] = pc[y]
    BY <1>1 DEF TypeOK, Places, ExchangeFails, Goto, Executes
  <1>5. TypeOK'
    BY <1>1, <1>2, <1>3, <1>4 DEF TypeOK, Places, ExchangeFails, Goto, Executes
  <1>6. MutualExclusion'
    BY <1>1, <1>2, <1>3, <1>4 DEF TypeOK, MutualExclusion, Inside, ExchangeFails,
       Goto, Executes
  <1>7. LockBusy'
    BY <1>1, <1>2, <1>3, <1>4 DEF TypeOK, LockBusy, Inside, MutualExclusion,
       ExchangeFails, Goto, Executes
  <1>8. HolderCleared'
    BY <1>1, <1>2, <1>3, <1>4 DEF TypeOK, HolderCleared, MutualExclusion,
       LockBusy, Inside, ExchangeFails, Goto, Executes
  <1>9. InterruptsRestored'
    BY <1>1, <1>2, <1>3, <1>4, ContextOf, ContextParts DEF TypeOK,
       InterruptsRestored, OneContextPerCpu, ExchangeFails, Goto, Executes
  <1>10. OneContextPerCpu'
    BY <1>1, <1>2, <1>3, <1>4, ContextOf, ContextParts DEF TypeOK,
       InterruptsRestored, OneContextPerCpu, ExchangeFails, Goto, Executes
  <1>11. NoLostWakeup'
    BY <1>1, <1>2, <1>3, <1>4, ContextParts DEF TypeOK, NoLostWakeup, LockBusy,
       Inside, ExchangeFails, Goto, Executes
  <1> QED
    BY <1>5, <1>6, <1>7, <1>8, <1>9, <1>10, <1>11 DEF SpinlockInv

\* Waking up takes nothing.
LEMMA StepMwait ==
  ASSUME SpinlockInv, NEW x \in Contexts, Mwait(x)
  PROVE  SpinlockInv'
  <1> USE SpinlockAssumption
  <1>1. TypeOK /\ MutualExclusion /\ LockBusy /\ HolderCleared /\ InterruptsRestored
        /\ OneContextPerCpu /\ NoLostWakeup
    BY DEF SpinlockInv
  <1>2. cpu(x) \in CPUs /\ (x = <<cpu(x), "thread">> \/ x = <<cpu(x), "isr">>)
    BY ContextParts
  <1>3. \A y \in Contexts : cpu(y) = cpu(x) /\ pc[y] # "idle" /\ pc[x] # "idle" => y = x
    BY OnlyOne
  <1>4. pc' \in [Contexts -> Places] /\ \A y \in Contexts : y # x => pc'[y] = pc[y]
    BY <1>1 DEF TypeOK, Places, Mwait, Goto, Executes
  <1>5. TypeOK'
    BY <1>1, <1>2, <1>3, <1>4 DEF TypeOK, Places, Mwait, Goto, Executes
  <1>6. MutualExclusion'
    BY <1>1, <1>2, <1>3, <1>4 DEF TypeOK, MutualExclusion, Inside, Mwait, Goto,
       Executes
  <1>7. LockBusy'
    BY <1>1, <1>2, <1>3, <1>4 DEF TypeOK, LockBusy, Inside, MutualExclusion,
       Mwait, Goto, Executes
  <1>8. HolderCleared'
    BY <1>1, <1>2, <1>3, <1>4 DEF TypeOK, HolderCleared, MutualExclusion,
       LockBusy, Inside, Mwait, Goto, Executes
  <1>9. InterruptsRestored'
    BY <1>1, <1>2, <1>3, <1>4, ContextOf, ContextParts DEF TypeOK,
       InterruptsRestored, OneContextPerCpu, Mwait, Goto, Executes
  <1>10. OneContextPerCpu'
    BY <1>1, <1>2, <1>3, <1>4, ContextOf, ContextParts DEF TypeOK,
       InterruptsRestored, OneContextPerCpu, Mwait, Goto, Executes
  <1>11. NoLostWakeup'
    BY <1>1, <1>2, <1>3, <1>4, ContextParts DEF TypeOK, NoLostWakeup, LockBusy,
       Inside, Mwait, Goto, Executes
  <1> QED
    BY <1>5, <1>6, <1>7, <1>8, <1>9, <1>10, <1>11 DEF SpinlockInv

\* The only context inside names its CPU.
LEMMA StepTakeHolder ==
  ASSUME SpinlockInv, NEW x \in Contexts, TakeHolder(x)
  PROVE  SpinlockInv'
  <1> USE SpinlockAssumption
  <1>1. TypeOK /\ MutualExclusion /\ LockBusy /\ HolderCleared /\ InterruptsRestored
        /\ OneContextPerCpu /\ NoLostWakeup
    BY DEF SpinlockInv
  <1>2. cpu(x) \in CPUs /\ (x = <<cpu(x), "thread">> \/ x = <<cpu(x), "isr">>)
    BY ContextParts
  <1>3. \A y \in Contexts : cpu(y) = cpu(x) /\ pc[y] # "idle" /\ pc[x] # "idle" => y = x
    BY OnlyOne
  <1>4. pc' \in [Contexts -> Places] /\ \A y \in Contexts : y # x => pc'[y] = pc[y]
    BY <1>1 DEF TypeOK, Places, TakeHolder, Goto, StoreToLock, Executes
  <1>5. TypeOK'
    BY <1>1, <1>2, <1>3, <1>4 DEF TypeOK, Places, TakeHolder, Goto, StoreToLock,
       Executes
  <1>6. MutualExclusion'
    BY <1>1, <1>2, <1>3, <1>4 DEF TypeOK, MutualExclusion, Inside, TakeHolder,
       Goto, StoreToLock, Executes
  <1>7. LockBusy'
    BY <1>1, <1>2, <1>3, <1>4 DEF TypeOK, LockBusy, Inside, MutualExclusion,
       TakeHolder, Goto, StoreToLock, Executes
  <1>8. HolderCleared'
    BY <1>1, <1>2, <1>3, <1>4 DEF TypeOK, HolderCleared, MutualExclusion,
       LockBusy, Inside, TakeHolder, Goto, StoreToLock, Executes
  <1>9. InterruptsRestored'
    BY <1>1, <1>2, <1>3, <1>4, ContextOf, ContextParts DEF TypeOK,
       InterruptsRestored, OneContextPerCpu, TakeHolder, Goto, StoreToLock,
       Executes
  <1>10. OneContextPerCpu'
    BY <1>1, <1>2, <1>3, <1>4, ContextOf, ContextParts DEF TypeOK,
       InterruptsRestored, OneContextPerCpu, TakeHolder, Goto, StoreToLock,
       Executes
  <1>11. NoLostWakeup'
    BY <1>1, <1>2, <1>3, <1>4, ContextParts DEF TypeOK, NoLostWakeup, LockBusy,
       Inside, TakeHolder, Goto, StoreToLock, Executes
  <1> QED
    BY <1>5, <1>6, <1>7, <1>8, <1>9, <1>10, <1>11 DEF SpinlockInv

\* TryAcquire takes a free byte and names no holder.
LEMMA StepTryAcquire ==
  ASSUME SpinlockInv, NEW x \in Contexts, TryAcquire(x)
  PROVE  SpinlockInv'
  <1> USE SpinlockAssumption
  <1>1. TypeOK /\ MutualExclusion /\ LockBusy /\ HolderCleared /\ InterruptsRestored
        /\ OneContextPerCpu /\ NoLostWakeup
    BY DEF SpinlockInv
  <1>2. cpu(x) \in CPUs /\ (x = <<cpu(x), "thread">> \/ x = <<cpu(x), "isr">>)
    BY ContextParts
  <1>3. \A y \in Contexts : cpu(y) = cpu(x) /\ pc[y] # "idle" /\ pc[x] # "idle" => y = x
    BY OnlyOne
  <1>4. pc' \in [Contexts -> Places] /\ \A y \in Contexts : y # x => pc'[y] = pc[y]
    BY <1>1 DEF TypeOK, Places, TryAcquire, DisableInterrupts, StoreToLock, Executes
  <1>5. TypeOK'
    <2>1. CASE State = "taken"
      BY <2>1, <1>1 DEF TypeOK, TryAcquire
    <2>2. CASE State = "free"
      BY <2>2, <1>1, <1>2, <1>4 DEF TypeOK, TryAcquire, StoreToLock, DisableInterrupts
    <2> QED
      BY <2>1, <2>2, <1>1 DEF TypeOK
  <1>6. MutualExclusion'
    <2>1. CASE State = "taken"
      BY <2>1, <1>1 DEF MutualExclusion, Inside, TryAcquire
    <2>2. CASE State = "free"
      <3>1. \A y \in Contexts : ~Inside(y)
        BY <2>2, <1>1 DEF LockBusy
      <3>2. \A y \in Contexts : y # x => ~Inside(y)'
        BY <3>1, <1>4 DEF Inside
      <3> QED
        BY <3>2 DEF MutualExclusion
    <2> QED
      BY <2>1, <2>2, <1>1 DEF TypeOK
  <1>7. LockBusy'
    BY <1>1, <1>2, <1>3, <1>4 DEF TypeOK, LockBusy, Inside, MutualExclusion,
       TryAcquire, DisableInterrupts, StoreToLock, Executes
  <1>8. HolderCleared'
    BY <1>1, <1>2, <1>3, <1>4 DEF TypeOK, HolderCleared, MutualExclusion,
       LockBusy, Inside, TryAcquire, DisableInterrupts, StoreToLock, Executes
  <1>9. InterruptsRestored' /\ OneContextPerCpu'
    <2>1. CASE State = "taken"
      BY <2>1, <1>1 DEF InterruptsRestored, OneContextPerCpu, TryAcquire
    <2>2. CASE State = "free"
      <3>1. pc[x] = "idle" /\ inIsr' = inIsr /\ intr'[cpu(x)] = FALSE /\ IntrState'[x] = intr[cpu(x)]
            /\ pc'[x] = "held"
        BY <2>2, <1>1, <1>2 DEF TryAcquire, DisableInterrupts, TypeOK
      <3>2. /\ x = <<cpu(x), "thread">> => ~inIsr[cpu(x)] /\ intr[cpu(x)]
            /\ x = <<cpu(x), "isr">> => inIsr[cpu(x)] /\ ~intr[cpu(x)]
        <4>1. Executes(x)
          BY DEF TryAcquire
        <4>2. CASE x = <<cpu(x), "thread">>
          <5>1. x[2] = "thread" /\ x # <<cpu(x), "isr">>
            BY <4>2
          <5> QED
            BY <4>1, <4>2, <5>1, <3>1, <1>1, <1>2 DEF Executes, InterruptsRestored
        <4>3. CASE x = <<cpu(x), "isr">>
          <5>1. x[2] = "isr" /\ x # <<cpu(x), "thread">>
            BY <4>3
          <5> QED
            BY <4>1, <4>3, <5>1, <3>1, <1>1, <1>2 DEF Executes, InterruptsRestored
        <4> QED
          BY <4>2, <4>3, <1>2
      <3>3. \A y \in Contexts : y # x => IntrState'[y] = IntrState[y]
        BY <2>2, <1>1 DEF TryAcquire, DisableInterrupts, TypeOK
      <3>4. \A c \in CPUs : c # cpu(x) => intr'[c] = intr[c]
        BY <2>2, <1>1 DEF TryAcquire, DisableInterrupts, TypeOK
      <3>5. InterruptsRestored'
        BY <3>1, <3>2, <3>4, <1>1, <1>2, <1>4, ContextOf
           DEF InterruptsRestored
      <3>6. OneContextPerCpu'
        <4>1. ASSUME NEW c \in CPUs, c # cpu(x)
              PROVE  pc'[<<c, "thread">>] = pc[<<c, "thread">>] /\ pc'[<<c, "isr">>] = pc[<<c, "isr">>]
                     /\ IntrState'[<<c, "thread">>] = IntrState[<<c, "thread">>]
                     /\ IntrState'[<<c, "isr">>] = IntrState[<<c, "isr">>]
          BY <4>1, <3>3, <1>4, ContextOf
        <4>2. x = <<cpu(x), "thread">> => pc'[<<cpu(x), "isr">>] = "idle"
          BY <3>2, <1>1, <1>2, <1>4, ContextOf DEF OneContextPerCpu
        <4>3. x = <<cpu(x), "isr">> => pc'[<<cpu(x), "thread">>] = "idle"
          BY <3>2, <1>1, <1>2, <1>4, ContextOf DEF OneContextPerCpu
        <4> QED
          BY <3>1, <3>2, <3>4, <4>1, <4>2, <4>3, <1>1, <1>2 DEF OneContextPerCpu
      <3> QED
        BY <3>5, <3>6
    <2> QED
      BY <2>1, <2>2, <1>1 DEF TypeOK
  <1>11. NoLostWakeup'
    BY <1>1, <1>2, <1>3, <1>4, ContextParts DEF TypeOK, NoLostWakeup, LockBusy,
       Inside, TryAcquire, DisableInterrupts, StoreToLock, Executes
  <1> QED
    BY <1>5, <1>6, <1>7, <1>8, <1>9, <1>11 DEF SpinlockInv

\* The holder clears Holder, or the assertion stops a CPU that is not the holder.
LEMMA StepRelease ==
  ASSUME SpinlockInv, NEW x \in Contexts, Release(x)
  PROVE  SpinlockInv'
  <1> USE SpinlockAssumption
  <1>1. TypeOK /\ MutualExclusion /\ LockBusy /\ HolderCleared /\ InterruptsRestored
        /\ OneContextPerCpu /\ NoLostWakeup
    BY DEF SpinlockInv
  <1>2. cpu(x) \in CPUs /\ (x = <<cpu(x), "thread">> \/ x = <<cpu(x), "isr">>)
    BY ContextParts
  <1>3. \A y \in Contexts : cpu(y) = cpu(x) /\ pc[y] # "idle" /\ pc[x] # "idle" => y = x
    BY OnlyOne
  <1>4. pc' \in [Contexts -> Places] /\ \A y \in Contexts : y # x => pc'[y] = pc[y]
    BY <1>1 DEF TypeOK, Places, Release, Goto, StoreToLock, Executes
  <1>5. TypeOK'
    <2>1. Holder' \in CPUs \union {NoCpu} /\ armed' \in [CPUs -> BOOLEAN]
      <3>1. CASE Holder = cpu(x)
        BY <3>1, <1>1 DEF TypeOK, Release, StoreToLock
      <3>2. CASE Holder # cpu(x)
        BY <3>2, <1>1 DEF TypeOK, Release
      <3> QED
        BY <3>1, <3>2
    <2>2. UNCHANGED <<State, intr, inIsr, IntrState>>
      BY DEF Release
    <2> QED
      BY <2>1, <2>2, <1>1, <1>4 DEF TypeOK
  <1>6. MutualExclusion'
    BY <1>1, <1>2, <1>3, <1>4 DEF TypeOK, MutualExclusion, Inside, Release, Goto,
       StoreToLock, Executes
  <1>7. LockBusy'
    BY <1>1, <1>2, <1>3, <1>4 DEF TypeOK, LockBusy, Inside, MutualExclusion,
       Release, Goto, StoreToLock, Executes
  <1>8. HolderCleared'
    BY <1>1, <1>2, <1>3, <1>4 DEF TypeOK, HolderCleared, MutualExclusion,
       LockBusy, Inside, Release, Goto, StoreToLock, Executes
  <1>9. InterruptsRestored'
    BY <1>1, <1>2, <1>3, <1>4, ContextOf, ContextParts DEF TypeOK,
       InterruptsRestored, OneContextPerCpu, Release, Goto, StoreToLock, Executes
  <1>10. OneContextPerCpu'
    BY <1>1, <1>2, <1>3, <1>4, ContextOf, ContextParts DEF TypeOK,
       InterruptsRestored, OneContextPerCpu, Release, Goto, StoreToLock, Executes
  <1>11. NoLostWakeup'
    BY <1>1, <1>2, <1>3, <1>4, ContextParts DEF TypeOK, NoLostWakeup, LockBusy,
       Inside, Release, Goto, StoreToLock, Executes
  <1> QED
    BY <1>5, <1>6, <1>7, <1>8, <1>9, <1>10, <1>11 DEF SpinlockInv

\* The byte is freed and every sleeping CPU is woken.
LEMMA StepFreeState ==
  ASSUME SpinlockInv, NEW x \in Contexts, FreeState(x)
  PROVE  SpinlockInv'
  <1> USE SpinlockAssumption
  <1>1. TypeOK /\ MutualExclusion /\ LockBusy /\ HolderCleared /\ InterruptsRestored
        /\ OneContextPerCpu /\ NoLostWakeup
    BY DEF SpinlockInv
  <1>2. cpu(x) \in CPUs /\ (x = <<cpu(x), "thread">> \/ x = <<cpu(x), "isr">>)
    BY ContextParts
  <1>3. \A y \in Contexts : cpu(y) = cpu(x) /\ pc[y] # "idle" /\ pc[x] # "idle" => y = x
    BY OnlyOne
  <1>4. pc' \in [Contexts -> Places] /\ \A y \in Contexts : y # x => pc'[y] = pc[y]
    BY <1>1 DEF TypeOK, Places, FreeState, Goto, StoreToLock, Executes
  <1>5. TypeOK'
    BY <1>1, <1>2, <1>3, <1>4 DEF TypeOK, Places, FreeState, Goto, StoreToLock,
       Executes
  <1>6. MutualExclusion'
    BY <1>1, <1>2, <1>3, <1>4 DEF TypeOK, MutualExclusion, Inside, FreeState,
       Goto, StoreToLock, Executes
  <1>7. LockBusy'
    BY <1>1, <1>2, <1>3, <1>4 DEF TypeOK, LockBusy, Inside, MutualExclusion,
       FreeState, Goto, StoreToLock, Executes
  <1>8. HolderCleared'
    BY <1>1, <1>2, <1>3, <1>4 DEF TypeOK, HolderCleared, MutualExclusion,
       LockBusy, Inside, FreeState, Goto, StoreToLock, Executes
  <1>9. InterruptsRestored'
    BY <1>1, <1>2, <1>3, <1>4, ContextOf, ContextParts DEF TypeOK,
       InterruptsRestored, OneContextPerCpu, FreeState, Goto, StoreToLock,
       Executes
  <1>10. OneContextPerCpu'
    BY <1>1, <1>2, <1>3, <1>4, ContextOf, ContextParts DEF TypeOK,
       InterruptsRestored, OneContextPerCpu, FreeState, Goto, StoreToLock,
       Executes
  <1>11. NoLostWakeup'
    BY <1>1, <1>2, <1>3, <1>4, ContextParts DEF TypeOK, NoLostWakeup, LockBusy,
       Inside, FreeState, Goto, StoreToLock, Executes
  <1> QED
    BY <1>5, <1>6, <1>7, <1>8, <1>9, <1>10, <1>11 DEF SpinlockInv

\* The flag goes back to that of the level of the context.
LEMMA StepRestoreInterrupts ==
  ASSUME SpinlockInv, NEW x \in Contexts, RestoreInterrupts(x)
  PROVE  SpinlockInv'
  <1> USE SpinlockAssumption
  <1>1. TypeOK /\ MutualExclusion /\ LockBusy /\ HolderCleared /\ InterruptsRestored
        /\ OneContextPerCpu /\ NoLostWakeup
    BY DEF SpinlockInv
  <1>2. cpu(x) \in CPUs /\ (x = <<cpu(x), "thread">> \/ x = <<cpu(x), "isr">>)
    BY ContextParts
  <1>3. \A y \in Contexts : cpu(y) = cpu(x) /\ pc[y] # "idle" /\ pc[x] # "idle" => y = x
    BY OnlyOne
  <1>4. pc' \in [Contexts -> Places] /\ \A y \in Contexts : y # x => pc'[y] = pc[y]
    BY <1>1 DEF TypeOK, Places, RestoreInterrupts, Goto, Executes
  <1>5. TypeOK'
    BY <1>1, <1>2, <1>3, <1>4 DEF TypeOK, Places, RestoreInterrupts, Goto, Executes
  <1>6. MutualExclusion'
    BY <1>1, <1>2, <1>3, <1>4 DEF TypeOK, MutualExclusion, Inside,
       RestoreInterrupts, Goto, Executes
  <1>7. LockBusy'
    BY <1>1, <1>2, <1>3, <1>4 DEF TypeOK, LockBusy, Inside, MutualExclusion,
       RestoreInterrupts, Goto, Executes
  <1>8. HolderCleared'
    BY <1>1, <1>2, <1>3, <1>4 DEF TypeOK, HolderCleared, MutualExclusion,
       LockBusy, Inside, RestoreInterrupts, Goto, Executes
  <1>9. InterruptsRestored'
    <2> SUFFICES ASSUME NEW c \in CPUs
                 PROVE  /\ inIsr'[c] => ~intr'[c]
                        /\ ~inIsr'[c] /\ pc'[<<c, "thread">>] = "idle" => intr'[c]
      BY DEF InterruptsRestored
    <2>1. pc[x] = "restore" /\ inIsr' = inIsr
      BY <1>1 DEF RestoreInterrupts, Goto, TypeOK
    <2>2. CASE c = cpu(x)
      <3>1. intr'[c] = IntrState[x]
        BY <2>2, <1>1, <1>2 DEF RestoreInterrupts, TypeOK
      <3>2. IF x = <<c, "thread">> THEN ~inIsr[c] /\ IntrState[x] ELSE inIsr[c] /\ ~IntrState[x]
        BY <2>1, <2>2, <1>1, <1>2 DEF OneContextPerCpu
      <3> QED
        BY <3>1, <3>2, <2>1
    <2>3. CASE c # cpu(x)
      <3>1. intr'[c] = intr[c]
        BY <2>3, <1>1, <1>2 DEF RestoreInterrupts, TypeOK
      <3>2. pc'[<<c, "thread">>] = pc[<<c, "thread">>]
        BY <2>3, <1>4, ContextOf
      <3> QED
        BY <3>1, <3>2, <2>1, <1>1 DEF InterruptsRestored
    <2> QED
      BY <2>2, <2>3
  <1>10. OneContextPerCpu'
    BY <1>1, <1>2, <1>3, <1>4, ContextOf, ContextParts DEF TypeOK,
       InterruptsRestored, OneContextPerCpu, RestoreInterrupts, Goto, Executes
  <1>11. NoLostWakeup'
    BY <1>1, <1>2, <1>3, <1>4, ContextParts DEF TypeOK, NoLostWakeup, LockBusy,
       Inside, RestoreInterrupts, Goto, Executes
  <1> QED
    BY <1>5, <1>6, <1>7, <1>8, <1>9, <1>10, <1>11 DEF SpinlockInv

\* A handler starts only where the thread of its CPU is outside the lock.
LEMMA StepInterrupt ==
  ASSUME SpinlockInv, NEW c \in CPUs, Interrupt(c)
  PROVE  SpinlockInv'
  <1>1. TypeOK /\ MutualExclusion /\ LockBusy /\ HolderCleared /\ InterruptsRestored
        /\ OneContextPerCpu /\ NoLostWakeup
    BY DEF SpinlockInv
  <1>2. TypeOK'
    BY <1>1 DEF TypeOK, Interrupt
  <1>3. MutualExclusion' /\ LockBusy' /\ HolderCleared' /\ NoLostWakeup'
    BY <1>1 DEF MutualExclusion, LockBusy, HolderCleared, NoLostWakeup, Inside,
       Interrupt
  <1>4. InterruptsRestored' /\ OneContextPerCpu'
    BY <1>1, ContextOf DEF InterruptsRestored, OneContextPerCpu, Interrupt, TypeOK
  <1> QED
    BY <1>2, <1>3, <1>4 DEF SpinlockInv

\* A handler returns outside the lock, to a thread outside the lock.
LEMMA StepReturn ==
  ASSUME SpinlockInv, NEW c \in CPUs, ReturnFromInterrupt(c)
  PROVE  SpinlockInv'
  <1>1. TypeOK /\ MutualExclusion /\ LockBusy /\ HolderCleared /\ InterruptsRestored
        /\ OneContextPerCpu /\ NoLostWakeup
    BY DEF SpinlockInv
  <1>2. TypeOK'
    BY <1>1 DEF TypeOK, ReturnFromInterrupt
  <1>3. MutualExclusion' /\ LockBusy' /\ HolderCleared' /\ NoLostWakeup'
    BY <1>1 DEF MutualExclusion, LockBusy, HolderCleared, NoLostWakeup, Inside,
                ReturnFromInterrupt
  <1>4. InterruptsRestored' /\ OneContextPerCpu'
    BY <1>1, ContextOf DEF InterruptsRestored, OneContextPerCpu,
       ReturnFromInterrupt, TypeOK
  <1> QED
    BY <1>2, <1>3, <1>4 DEF SpinlockInv

\* Steps that leave the lock, the CPUs and the contexts alone.
LEMMA StutterSpinlockInv ==
  ASSUME SpinlockInv, UNCHANGED vars
  PROVE  SpinlockInv'
  BY DEF SpinlockInv, vars, TypeOK, MutualExclusion, LockBusy, HolderCleared,
         InterruptsRestored, OneContextPerCpu, NoLostWakeup, Inside

\* The state of the lock, its holder, the interrupt flags and the monitors
\* agree in every reachable state.
THEOREM SpinlockSafe == Spec => []SpinlockInv
  <1>1. Init => SpinlockInv
    BY InitSpinlockInv
  <1>2. SpinlockInv /\ [Next]_vars => SpinlockInv'
    <2> SUFFICES ASSUME SpinlockInv, [Next]_vars PROVE SpinlockInv'
      OBVIOUS
    <2>1. CASE UNCHANGED vars
      BY <2>1, StutterSpinlockInv
    <2>2. ASSUME NEW x \in Contexts, Acquire(x) \/ TryAcquire(x) \/ LockStep(x)
          PROVE  SpinlockInv'
      BY <2>2, StepAcquire, StepTryAcquire, StepMonitor, StepExchangeTakes,
         StepExchangeFails, StepMwait, StepTakeHolder, StepRelease, StepFreeState,
         StepRestoreInterrupts DEF LockStep
    <2>3. ASSUME NEW c \in CPUs, Interrupt(c) \/ ReturnFromInterrupt(c)
          PROVE  SpinlockInv'
      BY <2>3, StepInterrupt, StepReturn
    <2> QED
      BY <2>1, <2>2, <2>3 DEF Next
  <1> QED
    BY <1>1, <1>2, PTL DEF Spec

\* At most one thread or handler is inside the lock, for any number of CPUs.
THEOREM Exclusion == Spec => []MutualExclusion
  <1>1. SpinlockInv => MutualExclusion
    BY DEF SpinlockInv
  <1> QED
    BY <1>1, SpinlockSafe, PTL

\* A handler never waits for a lock that the thread it interrupted holds.
THEOREM NeverSelfDeadlock == Spec => []NoSelfDeadlock
  <1>1. SpinlockInv => NoSelfDeadlock
    BY ContextOf DEF SpinlockInv, OneContextPerCpu, NoSelfDeadlock, Inside, Waiting
  <1> QED
    BY <1>1, SpinlockSafe, PTL

\* No CPU stays in MWAIT after the lock was freed.
THEOREM WakeupNotLost == Spec => []NoLostWakeup
  <1>1. SpinlockInv => NoLostWakeup
    BY DEF SpinlockInv
  <1> QED
    BY <1>1, SpinlockSafe, PTL
=============================================================================
