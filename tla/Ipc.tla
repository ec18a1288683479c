--------------------------------- MODULE Ipc ---------------------------------
(***************************************************************************)
(* Inter-processor calls (smp.c, ipc.c): a thread queues an event on the   *)
(* EventList of every matching CPU, sends them an interrupt, and each CPU  *)
(* runs the function of one event per interrupt.  The last CPU to finish   *)
(* signals the sender if it waits.                                         *)
(*                                                                         *)
(* The actors are the senders, one call of SmpSendGenericIpiEx and one     *)
(* IPC_EVENT each, and the interrupt handlers of the CPUs.  A sender is a  *)
(* thread: it runs with interrupts enabled, does not run while its CPU is  *)
(* in the handler, and may be moved to another CPU.  The local APIC keeps  *)
(* one request per vector: an interrupt sent to a CPU that already has one *)
(* pending is merged with it.                                              *)
(***************************************************************************)
EXTENDS Integers, Sequences, FiniteSets, Functions

CONSTANTS
  CPUs,
  Events,            \* the IPC_EVENTs, one per sender
  Calls,             \* the calls to consider: sets of arguments per sender
  NoEvent

Modes == {"ToCpu", "ToSelf", "AllIncludingSelf", "AllExcludingSelf", "ToGroup"}

\* The arguments of SmpSendGenericIpiEx, and whether the scheduler may move
\* the sender to another CPU during the call.  Destination is the set of CPUs
\* that ToCpu or ToGroup means.
Arguments ==
  [ SendMode : Modes, Destination : SUBSET CPUs, WaitForHandling : BOOLEAN,
    MayMigrate : BOOLEAN ]

ASSUME IpcAssumption ==
  /\ Calls \subseteq [Events -> Arguments]
  /\ NoEvent \notin Events
  /\ IsFiniteSet(CPUs) /\ IsFiniteSet(Events)

VARIABLES
  call,          \* the arguments of each sender
  sender,        \* where each sender is
  cpu,           \* the CPU each sender runs on
  matching,      \* pMatchingCpus
  inserted,      \* those whose list already has the event
  EventList,     \* PCPU.EventList, with NoOfEventsInList its length
  requested,     \* the vector's bit in the IRR of each local APIC
  handler,       \* where the interrupt handler of each CPU is
  current,       \* the event it has removed from the list
  ReferenceCount,
  freed,
  TerminationEvent,
  executed       \* history: the CPUs that have run the function of an event

sendVars   == <<call, sender, cpu, matching, inserted>>
handleVars == <<handler, current>>
eventVars  == <<ReferenceCount, freed, TerminationEvent, executed>>
vars       == <<sendVars, EventList, requested, handleVars, eventVars>>

Init ==
  /\ call \in Calls
  /\ sender = [e \in Events |-> "start"]
  /\ cpu \in [Events -> CPUs]
  /\ matching = [e \in Events |-> {}]
  /\ inserted = [e \in Events |-> {}]
  /\ EventList = [c \in CPUs |-> <<>>]
  /\ requested = [c \in CPUs |-> FALSE]
  /\ handler = [c \in CPUs |-> "idle"]
  /\ current = [c \in CPUs |-> NoEvent]
  /\ ReferenceCount = [e \in Events |-> 0]
  /\ freed = {}
  /\ TerminationEvent = [e \in Events |-> FALSE]
  /\ executed = [e \in Events |-> {}]

-----------------------------------------------------------------------------
(***************************************************************************)
(* SmpSendGenericIpiEx                                                     *)
(***************************************************************************)

\* _SmpDoesCpuMatchDestination over the CPU list, as the CPU the sender runs
\* on sees it; the shorthands of the APIC mean the same CPUs when the
\* interrupt is sent.
Matches(e) ==
  CASE call[e].SendMode = "AllExcludingSelf"     -> CPUs \ {cpu[e]}
    [] call[e].SendMode = "AllIncludingSelf"     -> CPUs
    [] call[e].SendMode = "ToSelf"               -> {cpu[e]}
    [] call[e].SendMode \in {"ToCpu", "ToGroup"} -> call[e].Destination

\* A sender executes only when its CPU is not in the handler.
Step(e, from, to) ==
  /\ sender[e] = from
  /\ handler[cpu[e]] = "idle"
  /\ sender' = [sender EXCEPT ![e] = to]

\* Mutant: the reference of a waiting sender is forgotten.
IpcGenerateEvent_NoWaiterReference(e) ==
  /\ Step(e, "start", "insert")
  /\ Matches(e) # {}
  /\ matching' = [matching EXCEPT ![e] = Matches(e)]
  /\ ReferenceCount' = [ReferenceCount EXCEPT ![e] = Cardinality(Matches(e))]
  /\ UNCHANGED <<call, cpu, inserted, EventList, requested, handleVars, freed,
                 TerminationEvent, executed>>

\* The matching CPUs are collected and the event is created with one
\* reference per CPU and one for a sender that waits.
IpcGenerateEvent(e) ==
  /\ Step(e, "start", "insert")
  /\ Matches(e) # {}
  /\ matching' = [matching EXCEPT ![e] = Matches(e)]
  /\ ReferenceCount' =
       [ReferenceCount EXCEPT ![e] =
          Cardinality(Matches(e)) + (IF call[e].WaitForHandling THEN 1 ELSE 0)]
  /\ UNCHANGED <<call, cpu, inserted, EventList, requested, handleVars, freed,
                 TerminationEvent, executed>>

\* STATUS_CPU_NO_MATCHES.
NoMatches(e) ==
  /\ Step(e, "start", "done")
  /\ Matches(e) = {}
  /\ UNCHANGED <<call, cpu, matching, inserted, EventList, requested, handleVars,
                 eventVars>>

\* One iteration of the loop, under the EventListLock of the CPU.
InsertEvent(e, c) ==
  /\ Step(e, "insert", "insert")
  /\ c \in matching[e] \ inserted[e]
  /\ EventList' = [EventList EXCEPT ![c] = Append(@, e)]
  /\ inserted' = [inserted EXCEPT ![e] = @ \cup {c}]
  /\ UNCHANGED <<call, cpu, matching, requested, handleVars, eventVars>>

\* _SmpSendIpcIpi; a sender that does not wait returns.
SendIpcIpi(e) ==
  /\ Step(e, "insert", IF call[e].WaitForHandling THEN "wait" ELSE "done")
  /\ inserted[e] = matching[e]
  /\ requested' = [c \in CPUs |-> requested[c] \/ c \in Matches(e)]
  /\ UNCHANGED <<call, cpu, matching, inserted, EventList, handleVars, eventVars>>

\* RfcDereference; _IpcFreeEvent at zero.
Dereference(e) ==
  /\ ReferenceCount' = [ReferenceCount EXCEPT ![e] = @ - 1]
  /\ freed' = IF ReferenceCount[e] = 1 THEN freed \cup {e} ELSE freed

\* EvtWaitForSignal returns and the sender drops its reference.
IpcWaitForEventHandling(e) ==
  /\ Step(e, "wait", "done")
  /\ TerminationEvent[e]
  /\ TerminationEvent' = [TerminationEvent EXCEPT ![e] = FALSE]
  /\ Dereference(e)
  /\ UNCHANGED <<call, cpu, matching, inserted, EventList, requested, handleVars,
                 executed>>

\* The timer preempts the sender and another CPU goes on with it.
Migrate(e, c) ==
  /\ call[e].MayMigrate
  /\ sender[e] \in {"start", "insert", "wait"}
  /\ handler[cpu[e]] = "idle"
  /\ handler[c] = "idle"
  /\ cpu' = [cpu EXCEPT ![e] = c]
  /\ UNCHANGED <<call, sender, matching, inserted, EventList, requested, handleVars,
                 eventVars>>

-----------------------------------------------------------------------------
(***************************************************************************)
(* _SmpIpcIpiIsr, IpcProcessEvent                                          *)
(***************************************************************************)
Handle(c, from, to) ==
  /\ handler[c] = from
  /\ handler' = [handler EXCEPT ![c] = to]

\* The CPU accepts the interrupt.  The handler is not interrupted by its own
\* vector.
AcceptInterrupt(c) ==
  /\ Handle(c, "idle", "isr")
  /\ requested[c]
  /\ requested' = [requested EXCEPT ![c] = FALSE]
  /\ UNCHANGED <<sendVars, EventList, current, eventVars>>

\* Behind ASSERT(NULL != pListEntry): one event, under EventListLock.
RemoveEvent(c) ==
  /\ Handle(c, "isr", "process")
  /\ EventList[c] # <<>>
  /\ current' = [current EXCEPT ![c] = Head(EventList[c])]
  /\ EventList' = [EventList EXCEPT ![c] = Tail(@)]
  /\ UNCHANGED <<sendVars, requested, eventVars>>

\* The function runs; SignalTermination is read before the reference goes.
ProcessEvent(c) ==
  LET e == current[c] IN
  /\ Handle(c, "process", "dereference")
  /\ executed' = [executed EXCEPT ![e] = @ \cup {c}]
  /\ UNCHANGED <<sendVars, EventList, requested, current, ReferenceCount,
                 freed, TerminationEvent>>

\* Mutant: the last CPU is recognised by a count of zero, as if the sender
\* had no reference.
DereferenceEvent_NoSignal(c) ==
  LET e == current[c] IN
  /\ Handle(c, "dereference",
            IF call[e].WaitForHandling /\ ReferenceCount[e] = 1
            THEN "signal" ELSE "idle")
  /\ Dereference(e)
  /\ UNCHANGED <<sendVars, EventList, requested, current, TerminationEvent,
                 executed>>

\* The reference of this CPU goes; if only the waiting sender's is left, the
\* sender is signalled.
DereferenceEvent(c) ==
  LET e == current[c] IN
  /\ Handle(c, "dereference",
            IF call[e].WaitForHandling /\ ReferenceCount[e] = 2
            THEN "signal" ELSE "idle")
  /\ Dereference(e)
  /\ UNCHANGED <<sendVars, EventList, requested, current, TerminationEvent,
                 executed>>

SignalTermination(c) ==
  /\ Handle(c, "signal", "idle")
  /\ TerminationEvent' = [TerminationEvent EXCEPT ![current[c]] = TRUE]
  /\ UNCHANGED <<sendVars, EventList, requested, current, ReferenceCount,
                 freed, executed>>

-----------------------------------------------------------------------------
HandlerStep(c) ==
  \/ AcceptInterrupt(c)
  \/ RemoveEvent(c)
  \/ ProcessEvent(c)
  \/ DereferenceEvent(c)
  \/ SignalTermination(c)

SenderStep(e) ==
  \/ IpcGenerateEvent(e)
  \/ NoMatches(e)
  \/ \E c \in CPUs : InsertEvent(e, c)
  \/ SendIpcIpi(e)
  \/ IpcWaitForEventHandling(e)

Next ==
  \/ \E c \in CPUs : HandlerStep(c)
  \/ \E e \in Events : SenderStep(e) \/ \E c \in CPUs : Migrate(e, c)

Spec == Init /\ [][Next]_vars

\* Interrupts are enabled, so a requested one is accepted and its handler
\* runs to the end; senders are scheduled, however often they are moved or
\* interrupted.
Fairness ==
  /\ \A c \in CPUs : WF_vars(HandlerStep(c))
  /\ \A e \in Events : SF_vars(SenderStep(e))
FairSpec == Spec /\ Fairness

-----------------------------------------------------------------------------
\* The variables have their types.
TypeOK ==
  /\ call \in Calls
  /\ sender \in [Events -> {"start", "insert", "wait", "done"}]
  /\ cpu \in [Events -> CPUs]
  /\ matching \in [Events -> SUBSET CPUs]
  /\ inserted \in [Events -> SUBSET CPUs]
  /\ EventList \in [CPUs -> Seq(Events)]
  /\ requested \in [CPUs -> BOOLEAN]
  /\ handler \in [CPUs -> {"idle", "isr", "process", "dereference", "signal"}]
  /\ current \in [CPUs -> Events \cup {NoEvent}]
  /\ ReferenceCount \in [Events -> 0 .. Cardinality(CPUs) + 1]
  /\ freed \subseteq Events
  /\ TerminationEvent \in [Events -> BOOLEAN]
  /\ executed \in [Events -> SUBSET CPUs]

InHand(e) ==
  { c \in CPUs : current[c] = e /\ handler[c] \in {"process", "dereference"} }

\* An event is freed only when nobody can reach it any more: no list has it,
\* no handler works on it or is about to signal its sender, and its sender
\* neither waits nor still fills in the lists.
NoUseAfterFree ==
  \A e \in freed :
    /\ \A c \in CPUs : e \notin Range(EventList[c])
    /\ \A c \in CPUs : handler[c] \in {"process", "dereference", "signal"}
                         => current[c] # e
    /\ sender[e] = "done" \/ inserted[e] = matching[e]

\* The reference count is exact: one per CPU that still has to run the
\* function, one for a sender that waits.
ReferencesExact ==
  \A e \in Events : sender[e] # "start" =>
    ReferenceCount[e] =
      Cardinality({ c \in CPUs : e \in Range(EventList[c]) })
      + Cardinality(InHand(e)) + Cardinality(matching[e] \ inserted[e])
      + (IF call[e].WaitForHandling /\ sender[e] \in {"insert", "wait"}
         THEN 1 ELSE 0)

\* "if TRUE waits until each CPU executes the BroadcastFunction" (smp.h): a
\* waiting sender returns only when every matching CPU has run it.
WaitCoversAll ==
  \A e \in Events :
    (sender[e] = "done" /\ call[e].WaitForHandling) => executed[e] = matching[e]

\* ASSERT(NULL != pListEntry) of _SmpIpcIpiIsr: the handler of an interrupt
\* finds an event, however the calls overlap.
IsrFindsEvent ==
  \A c \in CPUs : handler[c] = "isr" => EventList[c] # <<>>

\* Events and the calls that send them: nothing is used after it was freed,
\* no reference is lost or counted twice, a wait covers every CPU, and no
\* handler runs without an event.
CallsSound == NoUseAfterFree /\ ReferencesExact /\ WaitCoversAll /\ IsrFindsEvent

\* "executes the BroadcastFunction" (smp.h): an event in the list of a CPU is
\* eventually executed there.
QueuedEventRuns ==
  \A e \in Events, c \in CPUs :
    e \in Range(EventList[c]) ~> c \in executed[e]

\* Calls that reach no common CPU.
Alone(e) == \A f \in Events \ {e} : Matches(f) \cap Matches(e) = {}

\* A sender that waits returns, when no other call interrupts the same CPUs:
\* each CPU counts once and the last one signals.
WaitReturns ==
  \A e \in Events : sender[e] = "wait" /\ Alone(e) ~> sender[e] = "done"
=============================================================================
