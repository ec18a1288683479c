------------------------------- MODULE ExEvent -------------------------------
(***************************************************************************)
(* Executive events (ex_event.c): threads block until an event is          *)
(* signalled.  A notification event stays signalled until it is cleared; a *)
(* synchronization event is consumed by the wait that returns.             *)
(*                                                                         *)
(* The actors are threads (an interrupt handler signals on behalf of the   *)
(* thread it interrupts).  EventLock protects the WaitingList; Signaled is *)
(* read, set and cleared by interlocked instructions, without EventLock in *)
(* ExEventWaitForSignal and ExEventClearSignal.                            *)
(*                                                                         *)
(* ExEventSignal takes the first waiter off the list but passes to         *)
(* ThreadUnblock a fixed pointer instead of that waiter.  The address is   *)
(* not canonical: the first access to it raises #GP, which no kernel       *)
(* handler takes, and the signaller stops with EventLock held.             *)
(***************************************************************************)
EXTENDS Naturals, Sequences, Functions

CONSTANTS
  Threads,
  MaxSignals,           \* bound on the signals, an initial one included
  Nobody

ASSUME EventAssumption ==
  /\ MaxSignals \in Nat \ {0}
  /\ Nobody \notin Threads

VARIABLES
  EventType,
  Signaled,
  WaitingList,
  EventLock,         \* the thread that holds it in a state between two steps
  pThreadToSignal,   \* what ThreadUnblock is called with
  pc,
  signals,           \* history: calls of ExEventSignal, and an initial signal
  consumed           \* history: waits that took the signal away

exEventVars == <<EventType, Signaled, WaitingList, EventLock, pThreadToSignal, pc,
          signals, consumed>>

\* 0xFFFF700000003000: no thread.
WildPointer == "wild"

Locations == { "out",       \* outside ex_event.c
               "try",       \* about to test and take the signal
               "link",      \* saw no signal, wants EventLock
               "linked",    \* on the WaitingList, not yet switched out
               "blocked",   \* switched out
               "unblock" }  \* in ThreadUnblock, called by ExEventSignal

Goto(t, from, to) ==
  /\ pc[t] = from
  /\ pc' = [pc EXCEPT ![t] = to]

\* The type and the initial signal are the caller's choice.
ExEventInit ==
  /\ EventType \in {"Notification", "Synchronization"}
  /\ Signaled \in BOOLEAN
  /\ WaitingList = <<>>
  /\ EventLock = Nobody
  /\ pThreadToSignal = Nobody
  /\ pc = [t \in Threads |-> "out"]
  /\ signals = IF Signaled THEN 1 ELSE 0
  /\ consumed = 0

-----------------------------------------------------------------------------
CallWait(t) ==
  /\ Goto(t, "out", "try")
  /\ UNCHANGED <<EventType, Signaled, WaitingList, EventLock, pThreadToSignal, signals,
                 consumed>>

\* Mutant: a synchronization event is not reset by the wait that returns.
TakeSignal_NoReset(t) ==
  /\ Goto(t, "try", "out")
  /\ Signaled
  /\ consumed < MaxSignals + 2
  /\ consumed' = consumed + 1
  /\ UNCHANGED <<EventType, Signaled, WaitingList, EventLock, pThreadToSignal, signals>>

\* The compare-exchange succeeds: the wait returns.
TakeSignal(t) ==
  /\ Goto(t, "try", "out")
  /\ Signaled
  /\ Signaled' = (EventType = "Notification")
  /\ consumed' = IF Signaled' THEN consumed ELSE consumed + 1
  /\ UNCHANGED <<EventType, WaitingList, EventLock, pThreadToSignal, signals>>

\* The compare-exchange fails: the thread will wait, whatever happens to the
\* event from now on.
MissSignal(t) ==
  /\ Goto(t, "try", "link")
  /\ ~Signaled
  /\ UNCHANGED <<EventType, Signaled, WaitingList, EventLock, pThreadToSignal, signals,
                 consumed>>

\* Under EventLock: link the thread and take its BlockLock.
Link(t) ==
  /\ Goto(t, "link", "linked")
  /\ EventLock = Nobody
  /\ WaitingList' = Append(WaitingList, t)
  /\ UNCHANGED <<EventType, Signaled, EventLock, pThreadToSignal, signals, consumed>>

\* ThreadBlock.
Block(t) ==
  /\ Goto(t, "linked", "blocked")
  /\ UNCHANGED <<EventType, Signaled, WaitingList, EventLock, pThreadToSignal, signals,
                 consumed>>

-----------------------------------------------------------------------------
\* ExEventSignal with nobody on the list.
SignalNobody(t) ==
  /\ pc[t] = "out"
  /\ signals < MaxSignals
  /\ EventLock = Nobody
  /\ WaitingList = <<>>
  /\ Signaled' = TRUE
  /\ signals' = signals + 1
  /\ UNCHANGED <<EventType, WaitingList, EventLock, pThreadToSignal, pc, consumed>>

\* ExEventSignal takes the first waiter off the list and calls ThreadUnblock,
\* which faults on the wild pointer: nothing follows.
SignalWaiter(t) ==
  /\ Goto(t, "out", "unblock")
  /\ signals < MaxSignals
  /\ EventLock = Nobody
  /\ WaitingList # <<>>
  /\ Signaled' = TRUE
  /\ signals' = signals + 1
  /\ WaitingList' = Tail(WaitingList)
  /\ pThreadToSignal' = WildPointer
  /\ EventLock' = t
  /\ UNCHANGED <<EventType, consumed>>

ExEventClearSignal(t) ==
  /\ pc[t] = "out"
  /\ Signaled' = FALSE
  /\ UNCHANGED <<EventType, WaitingList, EventLock, pThreadToSignal, pc, signals,
                 consumed>>

Wait(t) ==
  \/ CallWait(t)
  \/ TakeSignal(t)
  \/ MissSignal(t)
  \/ Link(t)
  \/ Block(t)

ExEventNext ==
  \E t \in Threads :
    \/ Wait(t)
    \/ SignalNobody(t)
    \/ SignalWaiter(t)
    \/ ExEventClearSignal(t)

ExEventSpec == ExEventInit /\ [][ExEventNext]_exEventVars

-----------------------------------------------------------------------------
\* The variables have their types.
ExEventTypeOK ==
  /\ EventType \in {"Notification", "Synchronization"}
  /\ Signaled \in BOOLEAN
  /\ WaitingList \in Seq(Threads)
  /\ EventLock \in Threads \cup {Nobody}
  /\ pThreadToSignal \in Threads \cup {Nobody, WildPointer}
  /\ pc \in [Threads -> Locations]
  /\ signals \in 0 .. MaxSignals
  /\ consumed \in Nat

Asleep == { t \in Threads : pc[t] \in {"linked", "blocked"} }

\* The list holds each sleeping thread once and nobody else.  Only a
\* signaller that has EventLock has taken one off.
ListExact ==
  /\ IsInjective(WaitingList)
  /\ Range(WaitingList) \subseteq Asleep
  /\ IF EventLock = Nobody
     THEN Asleep = Range(WaitingList)
     ELSE \E t \in Asleep : Asleep \ Range(WaitingList) = {t}

\* A signal of a synchronization event ends at most one wait
\* (ExEventTypeSynchronization: "sorry, we only wake one thread").
ConsumedOnce ==
  EventType = "Synchronization" =>
    consumed + (IF Signaled THEN 1 ELSE 0) <= signals

\* No sleeper is lost and no signal is used twice: the waiting list is exactly
\* the threads that ExEventWaitForSignal put to sleep, whatever the order of
\* their steps and those of ExEventSignal.
EventSound == ListExact /\ ConsumedOnce
=============================================================================
