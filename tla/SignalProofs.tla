----------------------------- MODULE SignalProofs -----------------------------
(***************************************************************************)
(* Where one side leaves work and tells the other, for any number of CPUs, *)
(* threads, calls, signals, frames, descriptors and keys: inter-processor  *)
(* calls, executive events, the frame lists and rings of the network, the  *)
(* system time and its timers, the keyboard and its reader, the start of   *)
(* the processors, the way from a device's interrupt to its handler, the   *)
(* requests to the disk and the PCI buses.                                 *)
(*                                                                         *)
(* The references of a call's event are exact, nothing is used after it    *)
(* was freed, and a wait covers every CPU.  That the interrupt handler     *)
(* finds an event needs more: a sender whose set of CPUs depends on its    *)
(* own CPU must stay there.  The saved screen is kept where one processor  *)
(* at a time changes it; no lock sees to that.  The routes of interrupts   *)
(* are sound where the tables that come late leave the lines in use alone  *)
(* and devices on a line ask for one priority.  Requests to the disk are   *)
(* exact; of the assertions on their transfer one can fail, when two       *)
(* threads ask at once.  The buses are found completely where one root     *)
(* complex covers them and a bridge comes before what is behind it; their  *)
(* routing tables are placed right where no bridge is behind one without a *)
(* bus number; their configuration is exact where one thread at a time     *)
(* accesses it.                                                            *)
(***************************************************************************)
EXTENDS Ipc, ExEvent, Network, Time, Keyboard, Startup, Interrupts, Storage, Pci, DataFacts, FiniteSetTheorems, SequenceTheorems, TLAPS

(***************************************************************************)
(* Inter-processor calls.                                                  *)
(***************************************************************************)

\* The variables without the counters, whose signs need Counting.
Types ==
  /\ call \in [Events -> Arguments]
  /\ sender \in [Events -> {"start", "insert", "wait", "done"}]
  /\ cpu \in [Events -> CPUs]
  /\ matching \in [Events -> SUBSET CPUs]
  /\ inserted \in [Events -> SUBSET CPUs]
  /\ EventList \in [CPUs -> Seq(Events)]
  /\ requested \in [CPUs -> BOOLEAN]
  /\ handler \in [CPUs -> {"idle", "isr", "process", "dereference", "signal"}]
  /\ current \in [CPUs -> Events \cup {NoEvent}]
  /\ ReferenceCount \in [Events -> Int]
  /\ freed \subseteq Events
  /\ TerminationEvent \in [Events -> BOOLEAN]
  /\ executed \in [Events -> SUBSET CPUs]

\* Every CPU that has been given the event still has it in its list, works on
\* it, or has run its function: it goes through the three in this order, once.
Passage ==
  /\ \A e \in Events : inserted[e] \subseteq matching[e]
  /\ \A e \in Events : sender[e] = "start" => matching[e] = {}
  /\ \A e \in Events : sender[e] \in {"wait", "done"} => inserted[e] = matching[e]
  /\ \A c \in CPUs : IsInjective(EventList[c])
  /\ \A c \in CPUs : \A e \in Range(EventList[c]) : c \in inserted[e]
  /\ \A c \in CPUs : handler[c] \in {"process", "dereference", "signal"} => current[c] \in Events
  /\ \A c \in CPUs : handler[c] \in {"process", "dereference"} =>
       c \in inserted[current[c]] /\ current[c] \notin Range(EventList[c])
  /\ \A e \in Events : executed[e] =
       {c \in inserted[e] : e \notin Range(EventList[c])
                            /\ ~(current[c] = e /\ handler[c] = "process")}

Listed(e) == {c \in CPUs : e \in Range(EventList[c])}
Missing(e) == matching[e] \ inserted[e]
Waiter(e) == IF call[e].WaitForHandling /\ sender[e] \in {"insert", "wait"} THEN 1 ELSE 0

Counted(e) ==
  ReferenceCount[e] =
    Cardinality(Listed(e)) + Cardinality(InHand(e)) + Cardinality(Missing(e)) + Waiter(e)

\* The references of an event; when only the waiting sender's is left, one
\* CPU at most is about to signal it, or has.
Counting ==
  /\ \A e \in Events : Counted(e)
  /\ \A e \in freed : ReferenceCount[e] = 0 /\ sender[e] # "start"
  /\ \A e \in Events : sender[e] = "done" /\ call[e].WaitForHandling => ReferenceCount[e] = 0
  /\ \A c \in CPUs : handler[c] = "signal" =>
       /\ Waiter(current[c]) = 1 /\ ReferenceCount[current[c]] = 1
       /\ ~TerminationEvent[current[c]]
  /\ \A c, d \in CPUs :
       handler[c] = "signal" /\ handler[d] = "signal" /\ current[c] = current[d] => c = d
  /\ \A e \in Events : TerminationEvent[e] => Waiter(e) = 1 /\ ReferenceCount[e] = 1

\* A sender whose destination depends on the CPU it runs on is not moved.
SendersStay ==
  \A f \in Calls, e \in Events :
    f[e].MayMigrate => f[e].SendMode \notin {"AllExcludingSelf", "ToSelf"}

\* Those that have queued their event on the CPU and not interrupted it yet.
Unannounced(c) == {e \in Events : sender[e] = "insert" /\ c \in inserted[e]}

\* The interrupts of a CPU.
Handled(c) == IF handler[c] = "isr" THEN 1 ELSE 0
Requested(c) == IF requested[c] THEN 1 ELSE 0

\* There is an event for each interrupt that is handled, requested or still
\* to be sent.
Announced ==
  /\ \A e \in Events : call[e].MayMigrate => call[e].SendMode \notin {"AllExcludingSelf", "ToSelf"}
  /\ \A e \in Events : sender[e] = "insert" => matching[e] = Matches(e)
  /\ \A c \in CPUs :
       Len(EventList[c]) >= Cardinality(Unannounced(c)) + Handled(c) + Requested(c)

(***************************************************************************)
(* Types and the passage of an event.                                      *)
(***************************************************************************)

\* The CPUs a call means.
LEMMA MatchesType ==
  ASSUME Types, NEW e \in Events
  PROVE  Matches(e) \in SUBSET CPUs
<1>1. call[e] \in Arguments /\ cpu[e] \in CPUs
  BY DEF Types
<1>2. call[e].SendMode \in Modes /\ call[e].Destination \in SUBSET CPUs
  BY <1>1 DEF Arguments
<1>3. CASE call[e].SendMode = "AllExcludingSelf"
  BY <1>1, <1>2, <1>3 DEF Matches
<1>4. CASE call[e].SendMode = "AllIncludingSelf"
  BY <1>1, <1>2, <1>4 DEF Matches
<1>5. CASE call[e].SendMode = "ToSelf"
  BY <1>1, <1>2, <1>5 DEF Matches
<1>6. CASE call[e].SendMode \in {"ToCpu", "ToGroup"}
  BY <1>1, <1>2, <1>6 DEF Matches
<1> QED
  BY <1>2, <1>3, <1>4, <1>5, <1>6 DEF Modes

\* A sender starts: nobody has its event yet.
LEMMA PassageGenerateEvent ==
  ASSUME Types, Passage, NEW e \in Events, IpcGenerateEvent(e)
  PROVE  Types' /\ Passage'
<1>a. /\ sender[e] = "start" /\ sender' = [sender EXCEPT ![e] = "insert"]
      /\ matching' = [matching EXCEPT ![e] = Matches(e)]
      /\ UNCHANGED <<call, cpu, inserted, EventList, requested, handleVars, freed,
                     TerminationEvent, executed>>
      /\ \E n : ReferenceCount' = [ReferenceCount EXCEPT ![e] = n]
                  /\ n = Cardinality(Matches(e)) + (IF call[e].WaitForHandling THEN 1 ELSE 0)
  BY DEF IpcGenerateEvent, Step
<1>b. Matches(e) \in SUBSET CPUs /\ Cardinality(Matches(e)) \in Nat
  BY MatchesType, FS_Subset, FS_CardinalityType, IpcAssumption
<1>1. Types'
  BY <1>a, <1>b DEF Types, handleVars
<1>2. inserted[e] = {}
  BY <1>a DEF Passage
<1>3. Passage'
  BY <1>a, <1>2 DEF Passage, Types, handleVars
<1> QED
  BY <1>1, <1>3

\* A sender moves on without touching lists and counts, and queues no more.
LEMMA PassageSenderMoves ==
  ASSUME Types, Passage, NEW e \in Events, NEW to \in {"wait", "done"},
         inserted[e] = matching[e], sender' = [sender EXCEPT ![e] = to],
         UNCHANGED <<call, cpu, matching, inserted, EventList, handleVars, executed>>,
         Types'
  PROVE  Passage'
BY DEF Passage, Types, handleVars

\* The event is queued on one more CPU.
LEMMA PassageInsertEvent ==
  ASSUME Types, Passage, NEW e \in Events, NEW c \in CPUs, InsertEvent(e, c)
  PROVE  /\ Types' /\ Passage'
         /\ e \notin Range(EventList[c]) /\ Range(EventList'[c]) = Range(EventList[c]) \cup {e}
<1>a. /\ sender[e] = "insert" /\ sender' = sender
      /\ c \in matching[e] /\ c \notin inserted[e]
      /\ EventList' = [EventList EXCEPT ![c] = Append(@, e)]
      /\ inserted' = [inserted EXCEPT ![e] = @ \cup {c}]
      /\ UNCHANGED <<call, cpu, matching, requested, handleVars, eventVars>>
  BY DEF InsertEvent, Step, Types
<1>1. Types'
  BY <1>a DEF Types, handleVars, eventVars
<1>2. e \notin Range(EventList[c])
  BY <1>a DEF Passage
<1>3. EventList[c] \in Seq(Events) /\ EventList'[c] = Append(EventList[c], e)
  BY <1>a DEF Types
<1>4. Range(EventList'[c]) = Range(EventList[c]) \cup {e} /\ IsInjective(EventList'[c])
  BY <1>2, <1>3, RangeAppend, InjectiveAppend DEF Passage
<1>5. /\ \A d \in CPUs : d # c => EventList'[d] = EventList[d]
      /\ \A f \in Events : f # e => inserted'[f] = inserted[f]
      /\ inserted'[e] = inserted[e] \cup {c}
      /\ UNCHANGED <<sender, matching, handler, current, executed>>
  BY <1>a DEF Types, handleVars, eventVars
<1>6. ~(current[c] = e /\ handler[c] \in {"process", "dereference"})
  BY <1>a DEF Passage
<1>7. \A f \in Events : executed'[f] =
        {d \in inserted'[f] : f \notin Range(EventList'[d])
                              /\ ~(current'[d] = f /\ handler'[d] = "process")}
  <2>1. \A f \in Events : f # e => \A d \in CPUs : f \in Range(EventList'[d]) <=> f \in Range(EventList[d])
    BY <1>4, <1>5
  <2>2. \A d \in CPUs : d # c => (e \in Range(EventList'[d]) <=> e \in Range(EventList[d]))
    BY <1>5
  <2>3. e \in Range(EventList'[c])
    BY <1>4
  <2>4. \A f \in Events : inserted[f] \subseteq CPUs
    BY DEF Types
  <2>5. executed'[e] = {d \in inserted'[e] : e \notin Range(EventList'[d])
                              /\ ~(current'[d] = e /\ handler'[d] = "process")}
    BY <1>a, <1>5, <2>2, <2>3, <2>4 DEF Passage
  <2> QED
    BY <1>5, <2>1, <2>4, <2>5 DEF Passage
<1>8. Passage'
  BY <1>a, <1>4, <1>5, <1>6, <1>7 DEF Passage
<1> QED
  BY <1>1, <1>2, <1>4, <1>8

\* The handler takes the first event of its CPU.
LEMMA PassageRemoveEvent ==
  ASSUME Types, Passage, NEW c \in CPUs, RemoveEvent(c)
  PROVE  /\ Types' /\ Passage'
         /\ current'[c] \in Range(EventList[c])
         /\ Range(EventList'[c]) = Range(EventList[c]) \ {current'[c]}
<1>a. /\ handler[c] = "isr" /\ handler' = [handler EXCEPT ![c] = "process"]
      /\ EventList[c] # <<>> /\ EventList[c] \in Seq(Events)
      /\ current' = [current EXCEPT ![c] = Head(EventList[c])]
      /\ EventList' = [EventList EXCEPT ![c] = Tail(@)]
      /\ UNCHANGED <<sendVars, requested, eventVars>>
  BY DEF RemoveEvent, Handle, Types
<1>1. /\ Head(EventList[c]) \in Events /\ Tail(EventList[c]) \in Seq(Events)
      /\ current'[c] = Head(EventList[c]) /\ EventList'[c] = Tail(EventList[c])
      /\ \A d \in CPUs : d # c => EventList'[d] = EventList[d] /\ current'[d] = current[d]
                                    /\ handler'[d] = handler[d]
      /\ handler'[c] = "process"
  BY <1>a DEF Types
<1>2. Types'
  BY <1>a, <1>1 DEF Types, sendVars, eventVars
<1>3. /\ Head(EventList[c]) \in Range(EventList[c])
      /\ Range(EventList'[c]) = Range(EventList[c]) \ {Head(EventList[c])}
      /\ IsInjective(EventList'[c])
  BY <1>a, <1>1, RangeTail DEF Passage
<1>4. UNCHANGED <<sender, matching, inserted, executed>>
  BY <1>a DEF sendVars, eventVars
<1>5. \A f \in Events : executed'[f] =
        {d \in inserted'[f] : f \notin Range(EventList'[d])
                              /\ ~(current'[d] = f /\ handler'[d] = "process")}
  <2>1. ASSUME NEW f \in Events, NEW d \in inserted[f]
        PROVE  (f \notin Range(EventList'[d]) /\ ~(current'[d] = f /\ handler'[d] = "process"))
                 <=> (f \notin Range(EventList[d]) /\ ~(current[d] = f /\ handler[d] = "process"))
    <3>1. d \in CPUs
      BY DEF Types
    <3> QED
      BY <3>1, <1>a, <1>1, <1>3
  <2> QED
    BY <1>4, <2>1 DEF Passage
<1>6. Passage'
  BY <1>1, <1>3, <1>4, <1>5 DEF Passage
<1> QED
  BY <1>1, <1>2, <1>3, <1>6

\* The function runs.
LEMMA PassageProcessEvent ==
  ASSUME Types, Passage, NEW c \in CPUs, ProcessEvent(c)
  PROVE  Types' /\ Passage'
<1>a. /\ handler[c] = "process" /\ handler' = [handler EXCEPT ![c] = "dereference"]
      /\ executed' = [executed EXCEPT ![current[c]] = @ \cup {c}]
      /\ UNCHANGED <<sendVars, EventList, requested, current, ReferenceCount, freed, TerminationEvent>>
  BY DEF ProcessEvent, Handle
<1>b. /\ current[c] \in Events /\ c \in inserted[current[c]]
      /\ current[c] \notin Range(EventList[c])
  BY <1>a DEF Passage
<1>1. Types'
  BY <1>a, <1>b DEF Types, sendVars
<1>2. /\ UNCHANGED <<sender, matching, inserted, EventList, current>>
      /\ \A d \in CPUs : d # c => handler'[d] = handler[d]
      /\ handler'[c] = "dereference"
      /\ \A f \in Events : f # current[c] => executed'[f] = executed[f]
      /\ executed'[current[c]] = executed[current[c]] \cup {c}
  BY <1>a, <1>b DEF Types, sendVars
<1>3. ASSUME NEW f \in Events
      PROVE  executed'[f] = {d \in inserted'[f] : f \notin Range(EventList'[d])
                               /\ ~(current'[d] = f /\ handler'[d] = "process")}
  <2>1. executed[f] = {d \in inserted[f] : f \notin Range(EventList[d])
                               /\ ~(current[d] = f /\ handler[d] = "process")}
        /\ inserted[f] \subseteq CPUs
    BY DEF Passage, Types
  <2>2. CASE f = current[c]
    BY <1>a, <1>b, <1>2, <2>1, <2>2
  <2>3. CASE f # current[c]
    BY <1>a, <1>b, <1>2, <2>1, <2>3
  <2> QED
    BY <2>2, <2>3
<1>4. Passage'
  BY <1>a, <1>2, <1>3 DEF Passage
<1> QED
  BY <1>1, <1>4

\* The rest of the handler leaves lists and senders alone.
LEMMA PassageHandlerMoves ==
  ASSUME Types, Passage, NEW c \in CPUs, AcceptInterrupt(c) \/ DereferenceEvent(c) \/ SignalTermination(c)
  PROVE  Types' /\ Passage'
<1>a. /\ UNCHANGED <<sendVars, EventList, current, executed>>
      /\ \E to \in {"idle", "isr", "signal"} :
           /\ handler' = [handler EXCEPT ![c] = to]
           /\ to = "signal" => handler[c] = "dereference"
      /\ handler[c] # "process"
  BY DEF AcceptInterrupt, DereferenceEvent, SignalTermination, Handle, eventVars
<1>b. handler[c] \in {"dereference", "signal"} => current[c] \in Events
  BY DEF Passage
<1>1. Types'
  <2>1. CASE AcceptInterrupt(c)
    BY <2>1 DEF AcceptInterrupt, Handle, Types, sendVars, eventVars
  <2>2. CASE DereferenceEvent(c)
    <3>1. /\ ReferenceCount' = [ReferenceCount EXCEPT ![current[c]] = @ - 1]
          /\ freed' = freed \/ freed' = freed \cup {current[c]}
          /\ current[c] \in Events
          /\ UNCHANGED <<requested, TerminationEvent>>
      BY <1>b, <2>2 DEF DereferenceEvent, Handle, Dereference
    <3> QED
      BY <1>a, <3>1 DEF Types, sendVars
  <2>3. CASE SignalTermination(c)
    BY <1>a, <1>b, <2>3 DEF SignalTermination, Handle, Types, sendVars
  <2> QED
    BY <2>1, <2>2, <2>3
<1>2. \A d \in CPUs : /\ handler'[d] = "process" <=> handler[d] = "process"
                      /\ handler'[d] = "dereference" => handler[d] = "dereference"
                      /\ handler'[d] = "signal" => handler[d] \in {"signal", "dereference"}
  BY <1>a DEF Types
<1>3. \A f \in Events : inserted[f] \subseteq CPUs
  BY DEF Types
<1>4. Passage'
  BY <1>a, <1>2, <1>3 DEF Passage, sendVars
<1> QED
  BY <1>1, <1>4

\* Every step keeps the types and the passage of events.
LEMMA NextPassage == Types /\ Passage /\ [Next]_vars => Types' /\ Passage'
<1> SUFFICES ASSUME Types, Passage, [Next]_vars PROVE Types' /\ Passage'
  OBVIOUS
<1>1. ASSUME NEW c \in CPUs, HandlerStep(c) PROVE Types' /\ Passage'
  BY <1>1, PassageRemoveEvent, PassageProcessEvent, PassageHandlerMoves DEF HandlerStep
<1>2. ASSUME NEW e \in Events, NoMatches(e) PROVE Types' /\ Passage'
  <2>1. /\ sender[e] = "start" /\ sender' = [sender EXCEPT ![e] = "done"]
        /\ UNCHANGED <<call, cpu, matching, inserted, EventList, requested, handleVars, eventVars>>
    BY <1>2 DEF NoMatches, Step
  <2>2. inserted[e] = matching[e]
    BY <2>1 DEF Passage
  <2>3. sender' \in [Events -> {"start", "insert", "wait", "done"}]
    BY <2>1 DEF Types
  <2>4. Types'
    BY <2>1, <2>3 DEF Types, handleVars, eventVars
  <2> QED
    BY <2>1, <2>2, <2>4, PassageSenderMoves DEF eventVars
<1>3. ASSUME NEW e \in Events, SendIpcIpi(e) PROVE Types' /\ Passage'
  <2>1. /\ inserted[e] = matching[e]
        /\ \E to \in {"wait", "done"} : sender' = [sender EXCEPT ![e] = to]
        /\ UNCHANGED <<call, cpu, matching, inserted, EventList, handleVars, eventVars>>
        /\ requested' \in [CPUs -> BOOLEAN]
    BY <1>3 DEF SendIpcIpi, Step, Types
  <2>2. Types'
    BY <2>1 DEF Types, handleVars, eventVars
  <2> QED
    BY <2>1, <2>2, PassageSenderMoves DEF eventVars
<1>4. ASSUME NEW e \in Events, IpcWaitForEventHandling(e) PROVE Types' /\ Passage'
  <2>1. /\ sender[e] = "wait" /\ sender' = [sender EXCEPT ![e] = "done"]
        /\ TerminationEvent' = [TerminationEvent EXCEPT ![e] = FALSE]
        /\ ReferenceCount' = [ReferenceCount EXCEPT ![e] = @ - 1]
        /\ freed' \subseteq freed \cup {e}
        /\ UNCHANGED <<call, cpu, matching, inserted, EventList, requested, handleVars, executed>>
    BY <1>4 DEF IpcWaitForEventHandling, Step, Dereference
  <2>2. inserted[e] = matching[e]
    BY <2>1 DEF Passage
  <2>3. sender' \in [Events -> {"start", "insert", "wait", "done"}]
    BY <2>1 DEF Types
  <2>4. /\ TerminationEvent' \in [Events -> BOOLEAN]
        /\ ReferenceCount' \in [Events -> Int]
        /\ freed' \subseteq Events
    BY <2>1 DEF Types
  <2>5. Types'
    BY <2>1, <2>3, <2>4 DEF Types, handleVars
  <2> QED
    BY <2>1, <2>2, <2>5, PassageSenderMoves
<1>5. ASSUME NEW e \in Events, NEW c \in CPUs, Migrate(e, c) PROVE Types' /\ Passage'
  BY <1>5 DEF Migrate, Types, Passage, handleVars, eventVars
<1>6. CASE UNCHANGED vars
  BY <1>6 DEF vars, sendVars, handleVars, eventVars, Types, Passage
<1> QED
  BY <1>1, <1>2, <1>3, <1>4, <1>5, <1>6, PassageGenerateEvent, PassageInsertEvent DEF Next, SenderStep

(***************************************************************************)
(* The references.                                                         *)
(***************************************************************************)

\* The places where an event is are finite sets of CPUs.
LEMMA FinitePlaces ==
  ASSUME Types, NEW e \in Events
  PROVE  /\ IsFiniteSet(Listed(e)) /\ IsFiniteSet(InHand(e)) /\ IsFiniteSet(Missing(e))
         /\ Cardinality(Listed(e)) \in Nat
         /\ Cardinality(InHand(e)) \in Nat
         /\ Cardinality(Missing(e)) \in Nat
         /\ Waiter(e) \in {0, 1}
<1>1. Listed(e) \in SUBSET CPUs /\ InHand(e) \in SUBSET CPUs /\ Missing(e) \in SUBSET CPUs
  BY DEF Types, Listed, InHand, Missing
<1>2. IsFiniteSet(Listed(e)) /\ IsFiniteSet(InHand(e)) /\ IsFiniteSet(Missing(e))
  BY <1>1, FS_Subset, IpcAssumption
<1> QED
  BY <1>2, FS_CardinalityType DEF Waiter

\* The count of an event nothing happens to.
LEMMA CountedKept ==
  ASSUME NEW e \in Events, Counted(e), ReferenceCount'[e] = ReferenceCount[e],
         Listed(e)' = Listed(e), InHand(e)' = InHand(e), Missing(e)' = Missing(e),
         Waiter(e)' = Waiter(e)
  PROVE  Counted(e)'
BY DEF Counted

\* The sender takes one reference per CPU, and its own if it waits.
LEMMA CountingGenerateEvent ==
  ASSUME Types, Passage, Counting, NEW e \in Events, IpcGenerateEvent(e)
  PROVE  Counting'
<1>a. /\ sender[e] = "start" /\ sender' = [sender EXCEPT ![e] = "insert"]
      /\ matching' = [matching EXCEPT ![e] = Matches(e)]
      /\ UNCHANGED <<call, cpu, inserted, EventList, requested, handler, current, freed,
                     TerminationEvent, executed>>
      /\ ReferenceCount' = [ReferenceCount EXCEPT ![e] =
           Cardinality(Matches(e)) + (IF call[e].WaitForHandling THEN 1 ELSE 0)]
  BY DEF IpcGenerateEvent, Step, handleVars
<1>b. \A f \in Events : Listed(f)' = Listed(f) /\ InHand(f)' = InHand(f)
  BY <1>a DEF Listed, InHand
<1>c. \A f \in Events : f # e => /\ sender'[f] = sender[f] /\ matching'[f] = matching[f]
                                 /\ ReferenceCount'[f] = ReferenceCount[f] /\ Waiter(f)' = Waiter(f)
  BY <1>a DEF Types, Waiter
<1>1. ASSUME NEW f \in Events, f # e PROVE Counted(f)'
  BY <1>1, <1>a, <1>b, <1>c, CountedKept DEF Counting, Missing
<1>2. Counted(e)'
  <2>1. inserted[e] = {} /\ Listed(e) = {} /\ InHand(e) = {}
    BY <1>a DEF Passage, Listed, InHand
  <2>2. Missing(e)' = Matches(e)
    BY <1>a, <2>1 DEF Missing, Types
  <2>3. Cardinality(Matches(e)) \in Nat
    BY MatchesType, FS_Subset, FS_CardinalityType, IpcAssumption
  <2>4. Waiter(e)' = IF call[e].WaitForHandling THEN 1 ELSE 0
    BY <1>a DEF Waiter, Types
  <2>5. ReferenceCount'[e] = Cardinality(Matches(e)) + (IF call[e].WaitForHandling THEN 1 ELSE 0)
    BY <1>a DEF Types
  <2>6. Cardinality(Listed(e))' = 0 /\ Cardinality(InHand(e))' = 0
    BY <1>b, <2>1, FS_EmptySet
  <2> QED
    BY <2>2, <2>3, <2>4, <2>5, <2>6 DEF Counted
<1>3. Waiter(e) = 0 /\ sender'[e] = "insert"
  BY <1>a DEF Waiter, Types
<1>4. \A c \in CPUs : handler[c] = "signal" => current[c] \in Events /\ current[c] # e
  BY <1>3 DEF Counting, Passage
<1>5. \A f \in freed : f \in Events /\ f # e
  BY <1>a DEF Counting, Types
<1> QED
  BY <1>a, <1>c, <1>1, <1>2, <1>3, <1>4, <1>5 DEF Counting

\* The reference of a CPU that has not got the event becomes that of one
\* that has.
LEMMA CountingInsertEvent ==
  ASSUME Types, Passage, Counting, NEW e \in Events, NEW c \in CPUs, InsertEvent(e, c)
  PROVE  Counting'
<1>a. /\ c \in matching[e] /\ c \notin inserted[e]
      /\ EventList' = [EventList EXCEPT ![c] = Append(@, e)]
      /\ inserted' = [inserted EXCEPT ![e] = @ \cup {c}]
      /\ UNCHANGED <<call, cpu, sender, matching, handler, current, ReferenceCount, freed, TerminationEvent>>
  BY DEF InsertEvent, Step, Types, handleVars, eventVars
<1>b. e \notin Range(EventList[c]) /\ Range(EventList'[c]) = Range(EventList[c]) \cup {e}
  BY PassageInsertEvent
<1>c. \A f \in Events : InHand(f)' = InHand(f) /\ Waiter(f)' = Waiter(f)
  BY <1>a DEF InHand, Waiter
<1>d. \A d \in CPUs : d # c => EventList'[d] = EventList[d]
  BY <1>a
<1>1. ASSUME NEW f \in Events, f # e PROVE Counted(f)'
  <2>1. Listed(f)' = Listed(f) /\ Missing(f)' = Missing(f)
    BY <1>1, <1>a, <1>b, <1>d DEF Listed, Missing
  <2> QED
    BY <1>a, <1>c, <2>1, CountedKept DEF Counting
<1>2. Counted(e)'
  <2>1. Listed(e)' = Listed(e) \cup {c} /\ c \notin Listed(e)
    BY <1>b, <1>d DEF Listed
  <2>2. Missing(e)' = Missing(e) \ {c} /\ c \in Missing(e)
    BY <1>a DEF Missing, Types
  <2>3. Cardinality(Listed(e))' = Cardinality(Listed(e)) + 1
    BY <2>1, FinitePlaces, FS_AddElement
  <2>4. Cardinality(Missing(e))' = Cardinality(Missing(e)) - 1
    BY <2>2, FinitePlaces, FS_RemoveElement
  <2>5. Cardinality(InHand(e))' = Cardinality(InHand(e)) /\ ReferenceCount'[e] = ReferenceCount[e]
    BY <1>a, <1>c
  <2> QED
    BY <1>c, <2>3, <2>4, <2>5, FinitePlaces DEF Counted, Counting
<1> QED
  BY <1>a, <1>c, <1>1, <1>2 DEF Counting, Passage

\* The reference goes with the event from the list to the handler.
LEMMA CountingRemoveEvent ==
  ASSUME Types, Passage, Counting, NEW c \in CPUs, RemoveEvent(c)
  PROVE  Counting'
<1>a. /\ handler[c] = "isr" /\ handler' = [handler EXCEPT ![c] = "process"]
      /\ current' = [current EXCEPT ![c] = Head(EventList[c])]
      /\ EventList' = [EventList EXCEPT ![c] = Tail(@)]
      /\ UNCHANGED <<call, sender, matching, inserted, ReferenceCount, freed, TerminationEvent>>
  BY DEF RemoveEvent, Handle, sendVars, eventVars
<1>b. PICK e \in Events :
        /\ current'[c] = e /\ e \in Range(EventList[c])
        /\ Range(EventList'[c]) = Range(EventList[c]) \ {e}
  <2>1. current'[c] \in Range(EventList[c])
    BY PassageRemoveEvent
  <2>2. Range(EventList[c]) \subseteq Events
    BY DEF Types, Range
  <2> QED
    BY <2>1, <2>2, PassageRemoveEvent
<1>c. \A d \in CPUs : d # c => /\ EventList'[d] = EventList[d]
                               /\ current'[d] = current[d] /\ handler'[d] = handler[d]
  BY <1>a DEF Types
<1>d. handler'[c] = "process" /\ \A f \in Events : Missing(f)' = Missing(f) /\ Waiter(f)' = Waiter(f)
  BY <1>a DEF Missing, Waiter, Types
<1>1. ASSUME NEW f \in Events, f # e PROVE Counted(f)'
  <2>1. Listed(f)' = Listed(f) /\ InHand(f)' = InHand(f)
    BY <1>1, <1>a, <1>b, <1>c, <1>d DEF Listed, InHand
  <2> QED
    BY <1>a, <1>d, <2>1, CountedKept DEF Counting
<1>2. Counted(e)'
  <2>1. Listed(e)' = Listed(e) \ {c} /\ c \in Listed(e)
    BY <1>b, <1>c DEF Listed
  <2>2. InHand(e)' = InHand(e) \cup {c} /\ c \notin InHand(e)
    BY <1>a, <1>b, <1>c, <1>d DEF InHand
  <2>3. Cardinality(Listed(e))' = Cardinality(Listed(e)) - 1
    BY <2>1, FinitePlaces, FS_RemoveElement
  <2>4. Cardinality(InHand(e))' = Cardinality(InHand(e)) + 1
    BY <2>2, FinitePlaces, FS_AddElement
  <2>5. Cardinality(Missing(e))' = Cardinality(Missing(e)) /\ ReferenceCount'[e] = ReferenceCount[e]
    BY <1>a, <1>d
  <2> QED
    BY <1>d, <2>3, <2>4, <2>5, FinitePlaces DEF Counted, Counting
<1>3. \A d \in CPUs : handler'[d] = "signal" => d # c /\ handler[d] = "signal" /\ current'[d] = current[d]
                                                  /\ current[d] \in Events
  BY <1>c, <1>d DEF Passage
<1> QED
  BY <1>a, <1>d, <1>1, <1>2, <1>3 DEF Counting

\* Steps that move no event and count nothing.
LEMMA CountingUntouched ==
  ASSUME Types, Passage, Counting,
         UNCHANGED <<call, sender, matching, inserted, EventList, current, ReferenceCount,
                     freed, TerminationEvent>>,
         \A c \in CPUs : handler'[c] = handler[c]
           \/ {handler[c], handler'[c]} \subseteq {"idle", "isr"}
           \/ {handler[c], handler'[c]} \subseteq {"process", "dereference"}
  PROVE  Counting'
<1>1. \A c \in CPUs : /\ handler'[c] = "signal" => handler[c] = "signal"
                      /\ handler'[c] \in {"process", "dereference"}
                           <=> handler[c] \in {"process", "dereference"}
  OBVIOUS
<1>2. \A e \in Events : /\ Listed(e)' = Listed(e) /\ InHand(e)' = InHand(e)
                        /\ Missing(e)' = Missing(e) /\ Waiter(e)' = Waiter(e)
  BY <1>1 DEF Listed, InHand, Missing, Waiter
<1>3. \A e \in Events : Counted(e)'
  BY <1>2, CountedKept DEF Counting
<1>4. \A c \in CPUs : handler[c] = "signal" => current[c] \in Events
  BY DEF Passage
<1> QED
  BY <1>1, <1>2, <1>3, <1>4 DEF Counting

\* A sender that goes on and drops no reference.
LEMMA CountingSenderMoves ==
  ASSUME Types, Passage, Counting, NEW e \in Events, NEW to \in {"wait", "done"},
         sender' = [sender EXCEPT ![e] = to], Waiter(e)' = Waiter(e),
         to = "done" /\ call[e].WaitForHandling => ReferenceCount[e] = 0,
         UNCHANGED <<call, matching, inserted, EventList, handler, current, ReferenceCount,
                     freed, TerminationEvent>>
  PROVE  Counting'
<1>1. \A f \in Events : /\ Listed(f)' = Listed(f) /\ InHand(f)' = InHand(f)
                        /\ Missing(f)' = Missing(f) /\ Waiter(f)' = Waiter(f)
  BY DEF Listed, InHand, Missing, Waiter, Types
<1>2. \A f \in Events : Counted(f)'
  BY <1>1, CountedKept DEF Counting
<1>3. \A c \in CPUs : handler[c] = "signal" => current[c] \in Events
  BY DEF Passage
<1>4. freed \subseteq Events /\ sender'[e] = to /\ \A f \in Events : f # e => sender'[f] = sender[f]
  BY DEF Types
<1> QED
  BY <1>1, <1>2, <1>3, <1>4 DEF Counting

\* No CPU matches: there is nothing to count.
LEMMA CountingNoMatches ==
  ASSUME Types, Passage, Counting, NEW e \in Events, NoMatches(e)
  PROVE  Counting'
<1>a. /\ sender[e] = "start" /\ sender' = [sender EXCEPT ![e] = "done"]
      /\ UNCHANGED <<call, matching, inserted, EventList, handler, current, ReferenceCount,
                     freed, TerminationEvent>>
  BY DEF NoMatches, Step, handleVars, eventVars
<1>1. Listed(e) = {} /\ InHand(e) = {} /\ Missing(e) = {} /\ Waiter(e) = 0
  BY <1>a DEF Passage, Listed, InHand, Missing, Waiter
<1>2. ReferenceCount[e] = 0
  <2>1. /\ Cardinality(Listed(e)) = 0 /\ Cardinality(InHand(e)) = 0
        /\ Cardinality(Missing(e)) = 0
    BY <1>1, FS_EmptySet
  <2> QED
    BY <1>1, <2>1 DEF Counting, Counted
<1>3. Waiter(e)' = Waiter(e)
  BY <1>1, <1>a DEF Waiter, Types
<1> QED
  BY <1>a, <1>2, <1>3, CountingSenderMoves

\* The interrupts are sent: who waits keeps its reference.
LEMMA CountingSendIpcIpi ==
  ASSUME Types, Passage, Counting, NEW e \in Events, SendIpcIpi(e)
  PROVE  Counting'
<1>a. /\ sender[e] = "insert"
      /\ sender' = [sender EXCEPT ![e] = IF call[e].WaitForHandling THEN "wait" ELSE "done"]
      /\ UNCHANGED <<call, matching, inserted, EventList, handler, current, ReferenceCount,
                     freed, TerminationEvent>>
  BY DEF SendIpcIpi, Step, handleVars, eventVars
<1>1. Waiter(e)' = Waiter(e)
  BY <1>a DEF Waiter, Types
<1> QED
  BY <1>a, <1>1, CountingSenderMoves

\* The signalled sender drops the last reference.
LEMMA CountingWait ==
  ASSUME Types, Passage, Counting, NEW e \in Events, IpcWaitForEventHandling(e)
  PROVE  Counting'
<1>a. /\ sender[e] = "wait" /\ sender' = [sender EXCEPT ![e] = "done"]
      /\ TerminationEvent[e] /\ TerminationEvent' = [TerminationEvent EXCEPT ![e] = FALSE]
      /\ UNCHANGED <<call, matching, inserted, EventList, handler, current>>
      /\ ReferenceCount' = [ReferenceCount EXCEPT ![e] = @ - 1]
      /\ freed' = IF ReferenceCount[e] = 1 THEN freed \cup {e} ELSE freed
  BY DEF IpcWaitForEventHandling, Step, Dereference, handleVars
<1>1. Waiter(e) = 1 /\ ReferenceCount[e] = 1
  BY <1>a DEF Counting
<1>2. /\ sender'[e] = "done" /\ Waiter(e)' = 0 /\ ReferenceCount'[e] = 0 /\ ~TerminationEvent'[e]
      /\ freed' = freed \cup {e}
  BY <1>a, <1>1 DEF Waiter, Types
<1>3. \A f \in Events : f # e =>
        /\ sender'[f] = sender[f] /\ ReferenceCount'[f] = ReferenceCount[f]
        /\ TerminationEvent'[f] = TerminationEvent[f] /\ Waiter(f)' = Waiter(f)
  BY <1>a DEF Types, Waiter
<1>4. \A f \in Events : Listed(f)' = Listed(f) /\ InHand(f)' = InHand(f) /\ Missing(f)' = Missing(f)
  BY <1>a DEF Listed, InHand, Missing
<1>5. \A f \in Events : f # e => Counted(f)'
  BY <1>3, <1>4, CountedKept DEF Counting
<1>6. Counted(e)'
  <2>1. ReferenceCount[e] = Cardinality(Listed(e)) + Cardinality(InHand(e)) + Cardinality(Missing(e)) + Waiter(e)
    BY DEF Counting, Counted
  <2>2. /\ Cardinality(Listed(e))' = Cardinality(Listed(e)) /\ Cardinality(InHand(e))' = Cardinality(InHand(e))
        /\ Cardinality(Missing(e))' = Cardinality(Missing(e))
    BY <1>4
  <2> QED
    BY <1>1, <1>2, <2>1, <2>2, FinitePlaces DEF Counted
<1>7. \A c \in CPUs : handler[c] = "signal" => current[c] \in Events /\ current[c] # e
  BY <1>a DEF Counting, Passage
<1>8. freed \subseteq Events
  BY DEF Types
<1> QED
  BY <1>a, <1>2, <1>3, <1>5, <1>6, <1>7, <1>8 DEF Counting

\* The facts about the event a CPU is done with.
LEMMA LastReference ==
  ASSUME Types, Passage, Counting, NEW c \in CPUs, handler[c] = "dereference"
  PROVE  /\ current[c] \in Events /\ sender[current[c]] # "start"
         /\ IsFiniteSet(InHand(current[c])) /\ c \in InHand(current[c])
         /\ ReferenceCount[current[c]] >= 1 + Waiter(current[c])
         /\ call[current[c]].WaitForHandling => Waiter(current[c]) = 1
         /\ ~TerminationEvent[current[c]]
         /\ \A d \in CPUs : handler[d] = "signal" => current[d] # current[c]
<1>1. PICK e \in Events : e = current[c]
  BY DEF Passage
<1>2. c \in inserted[e] /\ sender[e] # "start"
  BY <1>1 DEF Passage, Types
<1>3. c \in InHand(e)
  BY <1>1 DEF InHand
<1>4. Cardinality(InHand(e)) >= 1
  BY <1>3, FinitePlaces, FS_EmptySet
<1>5. ReferenceCount[e] >= 1 + Waiter(e)
  BY <1>4, FinitePlaces DEF Counting, Counted
<1>6. call[e].WaitForHandling => Waiter(e) = 1
  <2>1. SUFFICES ASSUME call[e].WaitForHandling PROVE sender[e] \in {"insert", "wait"}
    BY DEF Waiter
  <2>2. sender[e] = "done" => ReferenceCount[e] = 0
    BY <2>1 DEF Counting
  <2>3. ReferenceCount[e] # 0
    BY <1>5 DEF Waiter
  <2>4. sender[e] \in {"start", "insert", "wait", "done"}
    BY DEF Types
  <2> QED
    BY <1>2, <2>2, <2>3, <2>4
<1>7. ~TerminationEvent[e] /\ \A d \in CPUs : handler[d] = "signal" => current[d] # e
  BY <1>5 DEF Counting
<1> QED
  BY <1>1, <1>2, <1>3, <1>5, <1>6, <1>7, FinitePlaces

\* A CPU drops its reference.  It signals when only the sender's is left, and
\* frees the event when none is.
LEMMA CountingDereferenceEvent ==
  ASSUME Types, Passage, Counting, NEW c \in CPUs, DereferenceEvent(c)
  PROVE  Counting'
<1>0. handler[c] = "dereference"
  BY DEF DereferenceEvent, Handle
<1>1. PICK e \in Events : e = current[c]
  BY <1>0, LastReference
<1>a. /\ handler' = [handler EXCEPT ![c] =
                       IF call[e].WaitForHandling /\ ReferenceCount[e] = 2 THEN "signal" ELSE "idle"]
      /\ ReferenceCount' = [ReferenceCount EXCEPT ![e] = @ - 1]
      /\ freed' = IF ReferenceCount[e] = 1 THEN freed \cup {e} ELSE freed
      /\ UNCHANGED <<call, sender, matching, inserted, EventList, current, TerminationEvent>>
  BY <1>1 DEF DereferenceEvent, Handle, Dereference, sendVars
<1>b. /\ sender[e] # "start" /\ IsFiniteSet(InHand(e)) /\ c \in InHand(e)
      /\ ReferenceCount[e] >= 1 + Waiter(e)
      /\ call[e].WaitForHandling => Waiter(e) = 1
      /\ ~TerminationEvent[e]
      /\ \A d \in CPUs : handler[d] = "signal" => current[d] # e
  BY <1>0, <1>1, LastReference
<1>c. /\ ReferenceCount'[e] = ReferenceCount[e] - 1 /\ ReferenceCount[e] \in Int
      /\ \A f \in Events : f # e => ReferenceCount'[f] = ReferenceCount[f]
      /\ \A d \in CPUs : d # c => handler'[d] = handler[d]
      /\ handler'[c] \in {"signal", "idle"}
      /\ handler'[c] = "signal" => call[e].WaitForHandling /\ ReferenceCount[e] = 2
  BY <1>a DEF Types
<1>d. \A f \in Events : Listed(f)' = Listed(f) /\ Missing(f)' = Missing(f) /\ Waiter(f)' = Waiter(f)
  BY <1>a DEF Listed, Missing, Waiter
<1>2. ASSUME NEW f \in Events, f # e PROVE Counted(f)'
  <2>1. InHand(f)' = InHand(f)
    BY <1>1, <1>2, <1>a, <1>c DEF InHand
  <2> QED
    BY <1>2, <1>c, <1>d, <2>1, CountedKept DEF Counting
<1>3. Counted(e)'
  <2>1. InHand(e)' = InHand(e) \ {c}
    BY <1>a, <1>c DEF InHand
  <2>2. Cardinality(InHand(e))' = Cardinality(InHand(e)) - 1
    BY <1>b, <2>1, FS_RemoveElement
  <2>3. Cardinality(Listed(e))' = Cardinality(Listed(e)) /\ Cardinality(Missing(e))' = Cardinality(Missing(e))
    BY <1>d
  <2> QED
    BY <1>c, <1>d, <2>2, <2>3, FinitePlaces DEF Counted, Counting
<1>4. Waiter(e) \in {0, 1}
  BY DEF Waiter
<1>5. \A f \in freed' : ReferenceCount'[f] = 0 /\ sender'[f] # "start"
  <2>1. freed \subseteq Events /\ e \notin freed
    BY <1>b, <1>4 DEF Counting, Types
  <2> QED
    BY <1>a, <1>b, <1>c, <2>1 DEF Counting
<1>6. \A f \in Events : sender'[f] = "done" /\ call'[f].WaitForHandling => ReferenceCount'[f] = 0
  BY <1>a, <1>b, <1>c DEF Counting, Waiter
<1>7. \A d \in CPUs : handler'[d] = "signal" =>
        /\ Waiter(current[d])' = 1 /\ ReferenceCount'[current'[d]] = 1 /\ ~TerminationEvent'[current'[d]]
  <2>1. ASSUME NEW d \in CPUs, d # c, handler'[d] = "signal"
        PROVE  Waiter(current[d])' = 1 /\ ReferenceCount'[current'[d]] = 1 /\ ~TerminationEvent'[current'[d]]
    <3>1. PICK f \in Events : f = current[d]
      BY <2>1, <1>c DEF Passage
    <3>2. Waiter(f) = 1 /\ ReferenceCount[f] = 1 /\ ~TerminationEvent[f] /\ f # e
      BY <2>1, <3>1, <1>b, <1>c DEF Counting
    <3>3. Waiter(f)' = 1 /\ ReferenceCount'[f] = 1 /\ ~TerminationEvent'[f]
      BY <3>2, <1>a, <1>c, <1>d
    <3> QED
      BY <3>1, <3>3, <1>a DEF Waiter
  <2>2. handler'[c] = "signal" =>
          Waiter(e)' = 1 /\ ReferenceCount'[e] = 1 /\ ~TerminationEvent'[e]
    BY <1>a, <1>b, <1>c, <1>d
  <2> QED
    BY <1>1, <1>a, <2>1, <2>2 DEF Waiter
<1>8. \A d, g \in CPUs :
        handler'[d] = "signal" /\ handler'[g] = "signal" /\ current'[d] = current'[g] => d = g
  BY <1>1, <1>a, <1>b, <1>c DEF Counting
<1>9. \A f \in Events : TerminationEvent'[f] => Waiter(f)' = 1 /\ ReferenceCount'[f] = 1
  BY <1>a, <1>b, <1>c, <1>d DEF Counting
<1> QED
  BY <1>2, <1>3, <1>5, <1>6, <1>7, <1>8, <1>9, <1>a DEF Counting, Waiter

\* The last CPU signals the sender.
LEMMA CountingSignalTermination ==
  ASSUME Types, Passage, Counting, NEW c \in CPUs, SignalTermination(c)
  PROVE  Counting'
<1>0. handler[c] = "signal"
  BY DEF SignalTermination, Handle
<1>1. PICK e \in Events : e = current[c]
  BY <1>0 DEF Passage
<1>a. /\ handler' = [handler EXCEPT ![c] = "idle"]
      /\ TerminationEvent' = [TerminationEvent EXCEPT ![e] = TRUE]
      /\ UNCHANGED <<call, sender, matching, inserted, EventList, current, ReferenceCount, freed>>
  BY <1>1 DEF SignalTermination, Handle, sendVars
<1>2. /\ Waiter(e) = 1 /\ ReferenceCount[e] = 1
      /\ \A d \in CPUs : d # c /\ handler[d] = "signal" => current[d] # e /\ current[d] \in Events
  BY <1>0, <1>1 DEF Counting, Passage
<1>3. /\ \A d \in CPUs : d # c => handler'[d] = handler[d]
      /\ handler'[c] = "idle"
      /\ \A f \in Events : f # e => TerminationEvent'[f] = TerminationEvent[f]
  BY <1>a DEF Types
<1>4. \A f \in Events : /\ Listed(f)' = Listed(f) /\ InHand(f)' = InHand(f)
                        /\ Missing(f)' = Missing(f) /\ Waiter(f)' = Waiter(f)
  BY <1>0, <1>a, <1>3 DEF Listed, InHand, Missing, Waiter
<1>5. \A f \in Events : Counted(f)'
  BY <1>4, <1>a, CountedKept DEF Counting
<1> QED
  BY <1>2, <1>3, <1>4, <1>5, <1>a DEF Counting

\* Every step keeps the references exact.
LEMMA NextCounting == Types /\ Passage /\ Counting /\ [Next]_vars => Counting'
<1> SUFFICES ASSUME Types, Passage, Counting, [Next]_vars PROVE Counting'
  OBVIOUS
<1>1. ASSUME NEW c \in CPUs, AcceptInterrupt(c) \/ ProcessEvent(c) PROVE Counting'
  <2>1. /\ UNCHANGED <<call, sender, matching, inserted, EventList, current, ReferenceCount,
                       freed, TerminationEvent>>
        /\ \E to \in {"isr", "dereference"} :
             /\ handler' = [handler EXCEPT ![c] = to]
             /\ to = "isr" => handler[c] = "idle"
             /\ to = "dereference" => handler[c] = "process"
    BY <1>1 DEF AcceptInterrupt, ProcessEvent, Handle, sendVars, eventVars
  <2>2. \A d \in CPUs : handler'[d] = handler[d]
           \/ {handler[d], handler'[d]} \subseteq {"idle", "isr"}
           \/ {handler[d], handler'[d]} \subseteq {"process", "dereference"}
    BY <2>1 DEF Types
  <2> QED
    BY <2>1, <2>2, CountingUntouched
<1>2. ASSUME NEW c \in CPUs, HandlerStep(c) PROVE Counting'
  BY <1>1, <1>2, CountingRemoveEvent, CountingDereferenceEvent, CountingSignalTermination DEF HandlerStep
<1>3. ASSUME NEW e \in Events, NEW c \in CPUs, Migrate(e, c) PROVE Counting'
  BY <1>3, CountingUntouched DEF Migrate, handleVars, eventVars
<1>4. CASE UNCHANGED vars
  BY <1>4, CountingUntouched DEF vars, sendVars, handleVars, eventVars
<1> QED
  BY <1>2, <1>3, <1>4, CountingGenerateEvent, CountingNoMatches, CountingInsertEvent,
     CountingSendIpcIpi, CountingWait DEF Next, SenderStep

\* Nothing is called yet.
LEMMA InitIpc == Init => Types /\ Passage /\ Counting
<1> SUFFICES ASSUME Init PROVE Types /\ Passage /\ Counting
  OBVIOUS
<1>1. Types
  BY IpcAssumption DEF Init, Types
<1>2. \A c \in CPUs : EventList[c] = <<>> /\ Range(EventList[c]) = {} /\ IsInjective(EventList[c])
  BY EmptyRange DEF Init, IsInjective
<1>3. Passage
  BY <1>2 DEF Init, Passage
<1>4. ASSUME NEW e \in Events
      PROVE  Listed(e) = {} /\ InHand(e) = {} /\ Missing(e) = {} /\ Waiter(e) = 0
  BY <1>2 DEF Init, Listed, InHand, Missing, Waiter
<1>5. ASSUME NEW e \in Events PROVE Counted(e)
  <2>1. /\ Cardinality(Listed(e)) = 0 /\ Cardinality(InHand(e)) = 0
        /\ Cardinality(Missing(e)) = 0 /\ ReferenceCount[e] = 0
    BY <1>4, FS_EmptySet DEF Init
  <2> QED
    BY <1>4, <2>1 DEF Counted
<1> QED
  BY <1>1, <1>3, <1>5 DEF Init, Counting

\* The inductive invariant.
LEMMA IpcInductive == Spec => [](Types /\ Passage /\ Counting)
BY InitIpc, NextPassage, NextCounting, PTL DEF Spec

\* What a sender that waited finds, and what is left of a freed event.
LEMMA NoReferences ==
  ASSUME Types, Passage, Counting, NEW e \in Events, ReferenceCount[e] = 0
  PROVE  /\ Listed(e) = {} /\ InHand(e) = {} /\ Missing(e) = {} /\ Waiter(e) = 0
         /\ executed[e] = inserted[e] /\ inserted[e] = matching[e]
<1>1. Listed(e) = {} /\ InHand(e) = {} /\ Missing(e) = {} /\ Waiter(e) = 0
  <2>1. /\ Cardinality(Listed(e)) = 0 /\ Cardinality(InHand(e)) = 0
        /\ Cardinality(Missing(e)) = 0 /\ Waiter(e) = 0
    BY FinitePlaces DEF Counting, Counted
  <2> QED
    BY <2>1, FinitePlaces, FS_EmptySet
<1>2. \A c \in inserted[e] : e \notin Range(EventList[c]) /\ ~(current[c] = e /\ handler[c] = "process")
  BY <1>1 DEF Types, Listed, InHand
<1>3. executed[e] = inserted[e]
  <2>1. executed[e] = {c \in inserted[e] : e \notin Range(EventList[c])
                                           /\ ~(current[c] = e /\ handler[c] = "process")}
    BY DEF Passage
  <2> QED
    BY <1>2, <2>1
<1>4. inserted[e] = matching[e]
  <2>1. inserted[e] \subseteq matching[e]
    BY DEF Passage
  <2> QED
    BY <1>1, <2>1 DEF Missing
<1> QED
  BY <1>1, <1>3, <1>4

\* The count of an event is the number of CPUs that still have to run its
\* function and of senders that wait, whatever calls overlap (RfcReference and
\* RfcDereference in IpcGenerateEvent, IpcProcessEvent and
\* IpcWaitForEventHandling).
THEOREM ReferencesSafe == Spec => []ReferencesExact
<1>1. Types /\ Passage /\ Counting => ReferencesExact
  BY DEF Counting, Counted, Listed, Missing, Waiter, ReferencesExact
<1> QED
  BY <1>1, IpcInductive, PTL

\* _IpcFreeEvent frees an event that no list and no handler holds and no
\* sender will touch.
THEOREM FreedSafe == Spec => []NoUseAfterFree
<1>1. ASSUME Types, Passage, Counting PROVE NoUseAfterFree
  <2>1. ASSUME NEW e \in freed
        PROVE  /\ \A c \in CPUs : e \notin Range(EventList[c])
               /\ \A c \in CPUs : handler[c] \in {"process", "dereference", "signal"}
                                    => current[c] # e
               /\ sender[e] = "done" \/ inserted[e] = matching[e]
    <3>1. e \in Events /\ ReferenceCount[e] = 0
      BY <1>1 DEF Types, Counting
    <3>2. Listed(e) = {} /\ InHand(e) = {} /\ inserted[e] = matching[e]
      BY <1>1, <3>1, NoReferences
    <3>3. \A c \in CPUs : handler[c] = "signal" => current[c] # e
      BY <1>1, <3>1 DEF Counting
    <3> QED
      BY <3>2, <3>3 DEF Listed, InHand
  <2> QED
    BY <2>1 DEF NoUseAfterFree
<1> QED
  BY <1>1, IpcInductive, PTL

\* A call of SmpSendGenericIpiEx that waits returns when all CPUs it collected
\* have run the function.
THEOREM WaitSafe == Spec => []WaitCoversAll
<1>1. ASSUME Types, Passage, Counting PROVE WaitCoversAll
  BY <1>1, NoReferences DEF Counting, WaitCoversAll
<1> QED
  BY <1>1, IpcInductive, PTL

(***************************************************************************)
(* The handler of an interrupt finds an event.                             *)
(***************************************************************************)

\* The CPU interrupted and the CPU asked are the same: moving a sender
\* changes no destination that its call may not follow.
LEMMA MatchesKept ==
  ASSUME Types, Announced, NEW f \in Events, [Next]_vars
  PROVE  Matches(f)' = Matches(f)
<1>1. call' = call
  BY DEF Next, vars, sendVars, HandlerStep, SenderStep, AcceptInterrupt, RemoveEvent, ProcessEvent,
         DereferenceEvent, SignalTermination, IpcGenerateEvent, NoMatches, InsertEvent, SendIpcIpi,
         IpcWaitForEventHandling, Migrate
<1>2. CASE cpu' = cpu
  BY <1>1, <1>2 DEF Matches
<1>3. ASSUME NEW e \in Events, NEW c \in CPUs, Migrate(e, c) PROVE Matches(f)' = Matches(f)
  <2>1. cpu' = [cpu EXCEPT ![e] = c] /\ call[e].MayMigrate
    BY <1>3 DEF Migrate
  <2>2. CASE f # e
    BY <1>1, <2>1, <2>2 DEF Matches, Types
  <2>3. CASE f = e
    <3>1. call[e].SendMode \in Modes
      BY DEF Types, Arguments
    <3>2. call[e].SendMode \in {"AllIncludingSelf", "ToCpu", "ToGroup"} /\ call'[e] = call[e]
      BY <1>1, <2>1, <3>1 DEF Announced, Modes
    <3> QED
      BY <2>3, <3>2 DEF Matches
  <2> QED
    BY <2>2, <2>3
<1>4. cpu' = cpu \/ \E e \in Events, c \in CPUs : Migrate(e, c)
  BY DEF Next, vars, sendVars, HandlerStep, SenderStep, AcceptInterrupt, RemoveEvent, ProcessEvent,
         DereferenceEvent, SignalTermination, IpcGenerateEvent, NoMatches, InsertEvent, SendIpcIpi,
         IpcWaitForEventHandling
<1> QED
  BY <1>2, <1>3, <1>4

\* The senders on their way to a CPU are finitely many, and its list has a
\* length.
LEMMA FiniteAnnouncements ==
  ASSUME Types, NEW c \in CPUs
  PROVE  /\ IsFiniteSet(Unannounced(c)) /\ Cardinality(Unannounced(c)) \in Nat
         /\ Len(EventList[c]) \in Nat
         /\ Handled(c) \in {0, 1} /\ Requested(c) \in {0, 1}
<1>1. Unannounced(c) \in SUBSET Events
  BY DEF Unannounced
<1>2. IsFiniteSet(Unannounced(c)) /\ Cardinality(Unannounced(c)) \in Nat
  BY <1>1, FS_Subset, FS_CardinalityType, IpcAssumption
<1>3. EventList[c] \in Seq(Events)
  BY DEF Types
<1> QED
  BY <1>2, <1>3 DEF Handled, Requested

\* A sender goes from one point to another without queueing or interrupting.
LEMMA AnnouncedKept ==
  ASSUME Types, Announced, [Next]_vars,
         UNCHANGED <<call, EventList, requested>>,
         \A f \in Events : sender'[f] = "insert" => sender[f] = "insert" /\ matching'[f] = matching[f],
         \A c \in CPUs : /\ handler'[c] = "isr" => handler[c] = "isr"
                         /\ Unannounced(c)' \subseteq Unannounced(c)
  PROVE  Announced'
<1>1. ASSUME NEW c \in CPUs
      PROVE  Len(EventList'[c]) >= Cardinality(Unannounced(c))' + Handled(c)' + Requested(c)'
  <2>1. Cardinality(Unannounced(c))' <= Cardinality(Unannounced(c)) /\ Cardinality(Unannounced(c))' \in Nat
    BY <1>1, FiniteAnnouncements, FS_Subset, FS_CardinalityType
  <2>2. Handled(c)' <= Handled(c) /\ Requested(c)' = Requested(c) /\ Handled(c)' \in {0, 1}
    BY DEF Handled, Requested
  <2>3. Len(EventList[c]) >= Cardinality(Unannounced(c)) + Handled(c) + Requested(c)
    BY DEF Announced
  <2> QED
    BY <2>1, <2>2, <2>3, FiniteAnnouncements
<1> QED
  BY <1>1, MatchesKept DEF Announced

\* The CPUs are collected where the sender runs.
LEMMA AnnouncedGenerateEvent ==
  ASSUME Types, Passage, Announced, NEW e \in Events, IpcGenerateEvent(e), [Next]_vars
  PROVE  Announced'
<1>a. /\ sender[e] = "start" /\ sender' = [sender EXCEPT ![e] = "insert"]
      /\ matching' = [matching EXCEPT ![e] = Matches(e)]
      /\ UNCHANGED <<call, inserted, EventList, requested, handler>>
  BY DEF IpcGenerateEvent, Step, handleVars
<1>1. inserted[e] = {}
  BY <1>a DEF Passage
<1>2. \A f \in Events : sender'[f] = "insert" => matching'[f] = Matches(f)'
  BY <1>a, MatchesKept DEF Announced, Types
<1>3. \A c \in CPUs : Unannounced(c)' = Unannounced(c)
  BY <1>a, <1>1 DEF Unannounced, Types
<1> QED
  BY <1>a, <1>2, <1>3 DEF Announced, Handled, Requested

\* The event is in the list before the interrupt is sent.
LEMMA AnnouncedInsertEvent ==
  ASSUME Types, Passage, Announced, NEW e \in Events, NEW c \in CPUs, InsertEvent(e, c), [Next]_vars
  PROVE  Announced'
<1>a. /\ sender' = sender
      /\ EventList' = [EventList EXCEPT ![c] = Append(@, e)]
      /\ inserted' = [inserted EXCEPT ![e] = @ \cup {c}]
      /\ UNCHANGED <<call, matching, requested, handler>>
  BY DEF InsertEvent, Step, Types, handleVars
<1>1. \A d \in CPUs : /\ Handled(d)' = Handled(d) /\ Requested(d)' = Requested(d)
                      /\ Len(EventList[d]) >= Cardinality(Unannounced(d)) + Handled(d) + Requested(d)
  BY <1>a DEF Handled, Requested, Announced
<1>2. Len(EventList'[c]) = Len(EventList[c]) + 1
  BY <1>a DEF Types
<1>3. Unannounced(c)' \subseteq Unannounced(c) \cup {e}
  BY <1>a DEF Unannounced, Types
<1>4. Cardinality(Unannounced(c))' <= Cardinality(Unannounced(c)) + 1 /\ Cardinality(Unannounced(c))' \in Nat
  <2>1. IsFiniteSet(Unannounced(c) \cup {e})
        /\ Cardinality(Unannounced(c) \cup {e}) <= Cardinality(Unannounced(c)) + 1
        /\ Cardinality(Unannounced(c) \cup {e}) \in Nat
    <3>1. CASE e \in Unannounced(c)
      <4>1. Unannounced(c) \cup {e} = Unannounced(c)
        BY <3>1
      <4>2. Cardinality(Unannounced(c) \cup {e}) = Cardinality(Unannounced(c))
            /\ IsFiniteSet(Unannounced(c) \cup {e})
        BY <4>1, FiniteAnnouncements
      <4> QED
        BY <4>2, FiniteAnnouncements
    <3>2. CASE e \notin Unannounced(c)
      BY <3>2, FiniteAnnouncements, FS_AddElement
    <3> QED
      BY <3>1, <3>2
  <2>2. /\ Cardinality(Unannounced(c)') <= Cardinality(Unannounced(c) \cup {e})
        /\ Cardinality(Unannounced(c)') \in Nat
    BY <1>3, <2>1, FS_Subset, FS_CardinalityType
  <2> QED
    BY <2>1, <2>2, FiniteAnnouncements
<1>5. ASSUME NEW d \in CPUs, d # c
      PROVE  Unannounced(d)' = Unannounced(d) /\ EventList'[d] = EventList[d]
  BY <1>5, <1>a DEF Unannounced, Types
<1>6. ASSUME NEW d \in CPUs
      PROVE  Len(EventList'[d]) >= Cardinality(Unannounced(d))' + Handled(d)' + Requested(d)'
  <2>1. CASE d = c
    BY <2>1, <1>1, <1>2, <1>4, FiniteAnnouncements
  <2>2. CASE d # c
    <3>1. Cardinality(Unannounced(d))' = Cardinality(Unannounced(d)) /\ EventList'[d] = EventList[d]
      BY <2>2, <1>5
    <3> QED
      BY <3>1, <1>1
  <2> QED
    BY <2>1, <2>2
<1> QED
  BY <1>a, <1>6, MatchesKept DEF Announced

\* Each interrupt sent is for an event queued on that CPU; one that is
\* merged with another leaves an event more.
LEMMA AnnouncedSendIpcIpi ==
  ASSUME Types, Passage, Announced, NEW e \in Events, SendIpcIpi(e), [Next]_vars
  PROVE  Announced'
<1>a. /\ sender[e] = "insert" /\ inserted[e] = matching[e]
      /\ sender' = [sender EXCEPT ![e] = IF call[e].WaitForHandling THEN "wait" ELSE "done"]
      /\ requested' = [c \in CPUs |-> requested[c] \/ c \in Matches(e)]
      /\ UNCHANGED <<call, matching, inserted, EventList, handler>>
  BY DEF SendIpcIpi, Step, handleVars
<1>1. inserted[e] = Matches(e)
  BY <1>a DEF Announced
<1>2. ASSUME NEW c \in CPUs
      PROVE  Len(EventList'[c]) >= Cardinality(Unannounced(c))' + Handled(c)' + Requested(c)'
  <2>1. Unannounced(c)' = Unannounced(c) \ {e}
    BY <1>a DEF Unannounced, Types
  <2>2. Len(EventList[c]) >= Cardinality(Unannounced(c)) + Handled(c) + Requested(c)
        /\ Handled(c)' = Handled(c) /\ EventList' = EventList
    BY <1>a DEF Announced, Handled
  <2>3. CASE c \in Matches(e)
    <3>1. e \in Unannounced(c)
      BY <1>a, <1>1, <2>3 DEF Unannounced
    <3>2. Cardinality(Unannounced(c))' = Cardinality(Unannounced(c)) - 1
      BY <2>1, <3>1, FiniteAnnouncements, FS_RemoveElement
    <3>3. Requested(c)' = 1
      BY <1>a, <2>3 DEF Requested
    <3> QED
      BY <2>2, <3>2, <3>3, FiniteAnnouncements
  <2>4. CASE c \notin Matches(e)
    <3>1. Unannounced(c)' = Unannounced(c)
      BY <2>1, <1>1, <2>4 DEF Unannounced
    <3>2. Requested(c)' = Requested(c)
      BY <1>a, <2>4 DEF Requested, Types
    <3> QED
      BY <2>2, <3>1, <3>2
  <2> QED
    BY <2>3, <2>4
<1>3. \A f \in Events : sender'[f] = "insert" => sender[f] = "insert" /\ matching'[f] = matching[f]
  BY <1>a DEF Types
<1> QED
  BY <1>a, <1>2, <1>3, MatchesKept DEF Announced

\* The interrupt is accepted, and then uses up one event.
LEMMA AnnouncedHandler ==
  ASSUME Types, Passage, Announced, NEW c \in CPUs, HandlerStep(c), [Next]_vars
  PROVE  Announced'
<1>1. UNCHANGED sendVars
  BY DEF HandlerStep, AcceptInterrupt, RemoveEvent, ProcessEvent, DereferenceEvent, SignalTermination
<1>2. \A d \in CPUs : Unannounced(d)' = Unannounced(d)
  BY <1>1 DEF Unannounced, sendVars
<1>3. \A f \in Events : sender'[f] = "insert" => sender[f] = "insert" /\ matching'[f] = matching[f]
  BY <1>1 DEF sendVars
<1>4. CASE AcceptInterrupt(c)
  <2>1. /\ handler[c] = "idle" /\ handler' = [handler EXCEPT ![c] = "isr"]
        /\ requested[c] /\ requested' = [requested EXCEPT ![c] = FALSE] /\ EventList' = EventList
    BY <1>4 DEF AcceptInterrupt, Handle
  <2>2. \A d \in CPUs : Handled(d)' + Requested(d)' = Handled(d) + Requested(d)
    BY <2>1 DEF Handled, Requested, Types
  <2>3. ASSUME NEW d \in CPUs
        PROVE  Len(EventList'[d]) >= Cardinality(Unannounced(d))' + Handled(d)' + Requested(d)'
    <3>1. Cardinality(Unannounced(d))' = Cardinality(Unannounced(d))
      BY <1>2
    <3>2. Handled(d)' \in {0, 1} /\ Requested(d)' \in {0, 1}
      BY DEF Handled, Requested
    <3>3. Len(EventList[d]) >= Cardinality(Unannounced(d)) + Handled(d) + Requested(d)
      BY DEF Announced
    <3> QED
      BY <2>1, <2>2, <3>1, <3>2, <3>3, FiniteAnnouncements
  <2> QED
    BY <1>1, <1>3, <2>3, MatchesKept DEF Announced, sendVars
<1>5. CASE RemoveEvent(c)
  <2>1. /\ handler[c] = "isr" /\ handler' = [handler EXCEPT ![c] = "process"]
        /\ EventList[c] # <<>> /\ EventList' = [EventList EXCEPT ![c] = Tail(@)]
        /\ EventList[c] \in Seq(Events) /\ requested' = requested
    BY <1>5 DEF RemoveEvent, Handle, Types
  <2>2. Len(EventList'[c]) = Len(EventList[c]) - 1 /\ Handled(c) = 1 /\ Handled(c)' = 0
    BY <2>1 DEF Handled, Types
  <2>3. \A d \in CPUs : Requested(d)' = Requested(d)
                        /\ (d # c => EventList'[d] = EventList[d] /\ Handled(d)' = Handled(d))
    BY <2>1 DEF Handled, Requested, Types
  <2>4. ASSUME NEW d \in CPUs
        PROVE  Len(EventList'[d]) >= Cardinality(Unannounced(d))' + Handled(d)' + Requested(d)'
    <3>1. Cardinality(Unannounced(d))' = Cardinality(Unannounced(d))
      BY <1>2
    <3>2. Len(EventList[d]) >= Cardinality(Unannounced(d)) + Handled(d) + Requested(d)
      BY DEF Announced
    <3> QED
      BY <2>2, <2>3, <3>1, <3>2, FiniteAnnouncements
  <2> QED
    BY <1>1, <1>3, <2>4, MatchesKept DEF Announced, sendVars
<1>6. CASE ProcessEvent(c) \/ DereferenceEvent(c) \/ SignalTermination(c)
  <2>1. /\ UNCHANGED <<EventList, requested>>
        /\ \E to \in {"dereference", "signal", "idle"} : handler' = [handler EXCEPT ![c] = to]
    BY <1>6 DEF ProcessEvent, DereferenceEvent, SignalTermination, Handle
  <2>2. \A d \in CPUs : handler'[d] = "isr" => handler[d] = "isr"
    BY <2>1 DEF Types
  <2> QED
    BY <1>1, <1>2, <1>3, <2>1, <2>2, AnnouncedKept DEF sendVars
<1> QED
  BY <1>4, <1>5, <1>6 DEF HandlerStep

\* Every step keeps the interrupts announced.
LEMMA NextAnnounced == Types /\ Passage /\ Announced /\ [Next]_vars => Announced'
<1> SUFFICES ASSUME Types, Passage, Announced, [Next]_vars PROVE Announced'
  OBVIOUS
<1>1. ASSUME NEW e \in Events, NoMatches(e) \/ IpcWaitForEventHandling(e) PROVE Announced'
  <2>1. /\ sender' = [sender EXCEPT ![e] = "done"]
        /\ UNCHANGED <<call, matching, inserted, EventList, requested, handler>>
    BY <1>1 DEF NoMatches, IpcWaitForEventHandling, Step, handleVars
  <2>2. \A f \in Events : sender'[f] = "insert" => sender[f] = "insert" /\ matching'[f] = matching[f]
    BY <2>1 DEF Types
  <2>3. \A c \in CPUs : Unannounced(c)' \subseteq Unannounced(c)
    BY <2>1, <2>2 DEF Unannounced
  <2> QED
    BY <2>1, <2>2, <2>3, AnnouncedKept
<1>2. ASSUME NEW e \in Events, NEW c \in CPUs, Migrate(e, c) PROVE Announced'
  BY <1>2, AnnouncedKept DEF Migrate, handleVars, Unannounced
<1>3. CASE UNCHANGED vars
  BY <1>3, AnnouncedKept DEF vars, sendVars, handleVars, Unannounced
<1> QED
  BY <1>1, <1>2, <1>3, AnnouncedGenerateEvent, AnnouncedInsertEvent, AnnouncedSendIpcIpi,
     AnnouncedHandler DEF Next, SenderStep

\* The handler of _SmpIpcIpiIsr finds an event (its ASSERT(NULL !=
\* pListEntry)), as long as a sender whose CPUs depend on its own stays there.
THEOREM IsrSafe ==
  ASSUME SendersStay
  PROVE  Spec => []IsrFindsEvent
<1>1. Init => Announced
  <2> SUFFICES ASSUME Init PROVE Announced
    OBVIOUS
  <2>1. \A e \in Events : call[e].MayMigrate => call[e].SendMode \notin {"AllExcludingSelf", "ToSelf"}
    BY DEF Init, SendersStay
  <2>2. \A e \in Events : sender[e] # "insert"
    BY DEF Init
  <2>3. ASSUME NEW c \in CPUs
        PROVE  Len(EventList[c]) >= Cardinality(Unannounced(c)) + Handled(c) + Requested(c)
    <3>1. Unannounced(c) = {}
      BY <2>2 DEF Unannounced
    <3>2. Cardinality(Unannounced(c)) = 0
      BY <3>1, FS_EmptySet
    <3>3. Len(EventList[c]) = 0 /\ Handled(c) = 0 /\ Requested(c) = 0
      BY DEF Init, Handled, Requested
    <3> QED
      BY <3>2, <3>3
  <2> QED
    BY <2>1, <2>2, <2>3 DEF Announced
<1>2. ASSUME Types, Announced PROVE IsrFindsEvent
  <2>1. SUFFICES ASSUME NEW c \in CPUs, handler[c] = "isr" PROVE EventList[c] # <<>>
    BY DEF IsrFindsEvent
  <2>2. Len(EventList[c]) >= Cardinality(Unannounced(c)) + Handled(c) + Requested(c) /\ Handled(c) = 1
    BY <1>2, <2>1 DEF Announced, Handled
  <2>3. Len(EventList[c]) >= 1
    BY <1>2, <2>2, FiniteAnnouncements
  <2> QED
    BY <2>3
<1> QED
  BY <1>1, <1>2, IpcInductive, NextAnnounced, PTL DEF Spec

\* Inter-processor calls are sound for any number of CPUs, senders and calls:
\* the four parts together, under the hypothesis the last one needs.
THEOREM CallsSafe ==
  ASSUME SendersStay
  PROVE  Spec => []CallsSound
BY ReferencesSafe, FreedSafe, WaitSafe, IsrSafe, PTL DEF CallsSound

(***************************************************************************)
(* Executive events.                                                       *)
(***************************************************************************)

\* EventSound needs nothing else to be inductive.
EventInductive == ExEventTypeOK /\ ListExact /\ ConsumedOnce

\* A thread that is no waiter goes on.
LEMMA EventThreadMoves ==
  ASSUME EventInductive, NEW t \in Threads, NEW to \in {"out", "try", "link"}, t \notin Asleep,
         pc' = [pc EXCEPT ![t] = to], UNCHANGED <<WaitingList, EventLock>>
  PROVE  ListExact'
<1>1. Asleep' = Asleep
  BY DEF Asleep, EventInductive, ExEventTypeOK
<1> QED
  BY <1>1 DEF ListExact, EventInductive

\* The waiting list after each step of the list.
LEMMA EventStep ==
  ASSUME EventInductive, NEW t \in Threads,
         Wait(t) \/ SignalNobody(t) \/ SignalWaiter(t) \/ ExEventClearSignal(t)
  PROVE  EventInductive'
<1> USE DEF EventInductive
<1>1. CASE CallWait(t)
  <2>1. t \notin Asleep /\ pc' = [pc EXCEPT ![t] = "try"]
        /\ UNCHANGED <<EventType, Signaled, WaitingList, EventLock, pThreadToSignal, signals, consumed>>
    BY <1>1 DEF CallWait, Goto, Asleep
  <2>2. ExEventTypeOK' /\ ConsumedOnce'
    BY <2>1 DEF ExEventTypeOK, ConsumedOnce, Locations
  <2> QED
    BY <2>1, <2>2, EventThreadMoves
<1>2. CASE TakeSignal(t)
  <2>1. /\ t \notin Asleep /\ pc' = [pc EXCEPT ![t] = "out"]
        /\ Signaled /\ Signaled' = (EventType = "Notification")
        /\ consumed' = IF Signaled' THEN consumed ELSE consumed + 1
        /\ UNCHANGED <<EventType, WaitingList, EventLock, pThreadToSignal, signals>>
    BY <1>2 DEF TakeSignal, Goto, Asleep
  <2>2. ExEventTypeOK'
    BY <2>1 DEF ExEventTypeOK, Locations
  <2>3. ConsumedOnce'
    BY <2>1 DEF ConsumedOnce, ExEventTypeOK
  <2> QED
    BY <2>1, <2>2, <2>3, EventThreadMoves
<1>3. CASE MissSignal(t)
  <2>1. t \notin Asleep /\ pc' = [pc EXCEPT ![t] = "link"]
        /\ UNCHANGED <<EventType, Signaled, WaitingList, EventLock, pThreadToSignal, signals, consumed>>
    BY <1>3 DEF MissSignal, Goto, Asleep
  <2>2. ExEventTypeOK' /\ ConsumedOnce'
    BY <2>1 DEF ExEventTypeOK, ConsumedOnce, Locations
  <2> QED
    BY <2>1, <2>2, EventThreadMoves
<1>4. CASE Link(t)
  <2>1. /\ pc[t] = "link" /\ pc' = [pc EXCEPT ![t] = "linked"]
        /\ EventLock = Nobody /\ WaitingList' = Append(WaitingList, t)
        /\ UNCHANGED <<EventType, Signaled, EventLock, pThreadToSignal, signals, consumed>>
    BY <1>4 DEF Link, Goto
  <2>2. ExEventTypeOK' /\ ConsumedOnce'
    BY <2>1 DEF ExEventTypeOK, ConsumedOnce, Locations
  <2>3. t \notin Asleep /\ Asleep' = Asleep \cup {t}
    BY <2>1 DEF Asleep, ExEventTypeOK
  <2>4. t \notin Range(WaitingList) /\ Asleep = Range(WaitingList)
    BY <2>1, <2>3 DEF ListExact
  <2>5. Range(WaitingList') = Range(WaitingList) \cup {t} /\ IsInjective(WaitingList')
    BY <2>1, <2>4, RangeAppend, InjectiveAppend DEF ListExact, ExEventTypeOK
  <2>6. ListExact'
    BY <2>1, <2>3, <2>4, <2>5 DEF ListExact
  <2> QED
    BY <2>2, <2>6
<1>5. CASE Block(t)
  <2>1. /\ pc[t] = "linked" /\ pc' = [pc EXCEPT ![t] = "blocked"]
        /\ UNCHANGED <<EventType, Signaled, WaitingList, EventLock, pThreadToSignal, signals, consumed>>
    BY <1>5 DEF Block, Goto
  <2>2. ExEventTypeOK' /\ ConsumedOnce'
    BY <2>1 DEF ExEventTypeOK, ConsumedOnce, Locations
  <2>3. Asleep' = Asleep
    BY <2>1 DEF Asleep, ExEventTypeOK
  <2> QED
    BY <2>1, <2>2, <2>3 DEF ListExact
<1>6. CASE SignalNobody(t)
  <2>1. /\ signals < MaxSignals /\ Signaled' = TRUE /\ signals' = signals + 1
        /\ UNCHANGED <<EventType, WaitingList, EventLock, pThreadToSignal, pc, consumed>>
    BY <1>6 DEF SignalNobody
  <2>2. ExEventTypeOK'
    BY <2>1, EventAssumption DEF ExEventTypeOK
  <2>3. ConsumedOnce'
    BY <2>1, EventAssumption DEF ConsumedOnce, ExEventTypeOK
  <2> QED
    BY <2>1, <2>2, <2>3 DEF ListExact, Asleep
<1>7. CASE SignalWaiter(t)
  <2>1. /\ pc[t] = "out" /\ pc' = [pc EXCEPT ![t] = "unblock"]
        /\ signals < MaxSignals /\ Signaled' = TRUE /\ signals' = signals + 1
        /\ EventLock = Nobody /\ EventLock' = t
        /\ WaitingList # <<>> /\ WaitingList' = Tail(WaitingList)
        /\ pThreadToSignal' = WildPointer
        /\ UNCHANGED <<EventType, consumed>>
    BY <1>7 DEF SignalWaiter, Goto
  <2>2. ExEventTypeOK'
    BY <2>1, EventAssumption DEF ExEventTypeOK, Locations
  <2>3. ConsumedOnce'
    BY <2>1, EventAssumption DEF ConsumedOnce, ExEventTypeOK
  <2>4. /\ Head(WaitingList) \in Range(WaitingList) /\ IsInjective(WaitingList')
        /\ Range(WaitingList') = Range(WaitingList) \ {Head(WaitingList)}
    BY <2>1, RangeTail DEF ExEventTypeOK, ListExact
  <2>5. Asleep' = Asleep /\ Asleep = Range(WaitingList) /\ EventLock' # Nobody
    BY <2>1, EventAssumption DEF Asleep, ListExact, ExEventTypeOK
  <2>6. Asleep' \ Range(WaitingList') = {Head(WaitingList)}
    BY <2>4, <2>5
  <2> QED
    BY <2>2, <2>3, <2>4, <2>5, <2>6 DEF ListExact
<1>8. CASE ExEventClearSignal(t)
  <2>1. Signaled' = FALSE
        /\ UNCHANGED <<EventType, WaitingList, EventLock, pThreadToSignal, pc, signals, consumed>>
    BY <1>8 DEF ExEventClearSignal
  <2>2. ExEventTypeOK'
    BY <2>1 DEF ExEventTypeOK
  <2>3. ConsumedOnce'
    BY <2>1 DEF ExEventTypeOK, ConsumedOnce
  <2> QED
    BY <2>1, <2>2, <2>3 DEF ListExact, Asleep
<1> QED
  BY <1>1, <1>2, <1>3, <1>4, <1>5, <1>6, <1>7, <1>8 DEF Wait

\* The waiting list is exactly the sleeping threads and a signal of a
\* synchronization event ends at most one wait, for any number of threads and
\* whatever the order of their steps (ExEventWaitForSignal, ExEventSignal,
\* ExEventClearSignal).
THEOREM EventSafe == ExEventSpec => []EventSound
<1>1. ExEventInit => EventInductive
  <2> SUFFICES ASSUME ExEventInit PROVE EventInductive
    OBVIOUS
  <2>1. ExEventTypeOK
    BY EventAssumption DEF ExEventInit, ExEventTypeOK, Locations
  <2>2. Asleep = {}
    BY DEF ExEventInit, Asleep
  <2>3. ListExact
    BY <2>2, EmptyRange DEF ExEventInit, ListExact
  <2> QED
    BY <2>1, <2>3 DEF ExEventInit, ConsumedOnce, EventInductive
<1>2. EventInductive /\ [ExEventNext]_exEventVars => EventInductive'
  <2>1. ASSUME EventInductive, UNCHANGED exEventVars PROVE EventInductive'
    BY <2>1 DEF EventInductive, exEventVars, ExEventTypeOK, ListExact, ConsumedOnce, Asleep
  <2> QED
    BY <2>1, EventStep DEF ExEventNext
<1>3. EventInductive => EventSound
  BY DEF EventInductive, EventSound
<1> QED
  BY <1>1, <1>2, <1>3, PTL DEF ExEventSpec

(***************************************************************************)
(* Network: the order of the frames in lists and rings, and the notices.   *)
(***************************************************************************)

\* A place in a ring of n descriptors, counted from a place before it.
Wrap(i, n) == IF i >= n THEN i - n ELSE i

TxPlaces == 0 .. TxDescriptors - 1
RxPlaces == 0 .. RxDescriptors - 1

\* The variables that the order of the frames depends on.
NetTypes ==
  /\ txRing \in [TxPlaces -> [frame : Nat, done : BOOLEAN]]
  /\ txHead \in TxPlaces /\ txTail \in TxPlaces /\ txCurrent \in TxPlaces
  /\ txList \in Seq(Nat) /\ accepted \in Seq(Nat) /\ wire \in Seq(Nat)
  /\ transmitter \in [ pc : {"wait_frame", "wait_descriptor", "check", "lock", "full",
                             "unlock", "tail"}, frame : Nat ]
  /\ rxRing \in [RxPlaces -> Nat]
  /\ rxHead \in RxPlaces /\ rxTail \in RxPlaces /\ rxCurrent \in RxPlaces
  /\ rxList \in Seq(Nat) /\ arrived \in Seq(Nat) /\ delivered \in Seq(Nat)
  /\ cause \subseteq {"rx", "tx", "link"}
  /\ netIsr \in [ pc : {"idle", "rx", "rx_signal", "tx"}, cause : SUBSET {"rx", "tx", "link"},
                  wasEmpty : BOOLEAN ]
  /\ netIsr.pc = "idle" => netIsr.cause = {}
  /\ caller \in [NetThreads -> {"idle", "signal", "receive", "empty", "wait"}]
  /\ txEvent \in BOOLEAN /\ rxEvent \in BOOLEAN /\ txAvailable \in BOOLEAN
  /\ txLock \in BOOLEAN /\ netHalted \in BOOLEAN

\* The frames that are in the transmit ring, and whether the card has been
\* told of the last of them.
InTxRing ==
  Len(accepted) - Len(txList) - Len(wire) - (IF transmitter.pc = "wait_descriptor" THEN 1 ELSE 0)
Untold == IF transmitter.pc \in {"check", "lock", "full", "unlock", "tail"} THEN 1 ELSE 0

\* Sent frames are the first accepted ones, queued frames the last.
SentInOrder ==
  /\ \A i \in 1 .. Len(accepted) : accepted[i] = i
  /\ \A i \in 1 .. Len(wire) : wire[i] = i
  /\ Len(wire) <= Len(accepted)
  /\ \A i \in 1 .. Len(txList) : txList[i] = Len(accepted) - Len(txList) + i
  /\ transmitter.pc = "wait_descriptor" => transmitter.frame = Len(accepted) - Len(txList)

\* The frames between are in the ring, in order, and not done.
TxRingExact ==
  ~netHalted =>
    /\ Untold <= InTxRing /\ InTxRing <= TxDescriptors
    /\ txCurrent = Wrap(txHead + InTxRing, TxDescriptors)
    /\ txTail = Wrap(txHead + InTxRing - Untold, TxDescriptors)
    /\ \A k \in 0 .. InTxRing - 1 :
         txRing[Wrap(txHead + k, TxDescriptors)] = [frame |-> Len(wire) + k + 1, done |-> FALSE]

\* A frame that is in the receive ring and in the list, and the frames in the
\* ring.
Unreturned == IF netIsr.pc = "rx_signal" THEN 1 ELSE 0
InRxRing == Len(arrived) - Len(delivered) - Len(rxList) + Unreturned

ReceivedInOrder ==
  /\ \A i \in 1 .. Len(arrived) : arrived[i] = i
  /\ \A i \in 1 .. Len(delivered) : delivered[i] = i
  /\ \A i \in 1 .. Len(rxList) : rxList[i] = Len(delivered) + i

RxRingExact ==
  /\ Unreturned <= InRxRing /\ InRxRing <= RxDescriptors - 1
  /\ rxHead = Wrap(rxCurrent + InRxRing, RxDescriptors)
  /\ rxTail = Wrap(rxCurrent + RxDescriptors - 1, RxDescriptors)
  /\ \A k \in 0 .. RxDescriptors - 1 :
       rxRing[Wrap(rxCurrent + k, RxDescriptors)] =
         IF k < InRxRing THEN Len(arrived) - InRxRing + k + 1 ELSE 0

\* The notices of the lists: a list with frames has its event set, or whoever
\* found it empty is about to set it.
ListsNoticed ==
  /\ txList # <<>> => txEvent \/ \E t \in NetThreads : caller[t] = "signal"
  /\ rxList # <<>> => rxEvent \/ (netIsr.pc = "rx_signal" /\ netIsr.wasEmpty)

\* The notice of the ring: it is withdrawn only while the ring is full.
RingNoticed ==
  /\ DescriptorNoticePending
  /\ transmitter.pc \in {"check", "lock", "full", "unlock"} => txAvailable
  /\ transmitter.pc = "full" \/ (transmitter.pc = "tail" /\ ~txAvailable) => InTxRing < TxDescriptors

\* EthGetNextDescriptor, without a division.
LEMMA NextDescriptor ==
  ASSUME NEW n \in Nat \ {0}, NEW i \in 0 .. n - 1
  PROVE  (i + 1) % n = Wrap(i + 1, n) /\ Wrap(i + 1, n) \in 0 .. n - 1
<1>1. (i + 1) % n = IF i = n - 1 THEN 0 ELSE i + 1
  OBVIOUS
<1> QED
  BY <1>1 DEF Wrap

LEMMA NextPlaces ==
  /\ \A i \in TxPlaces : NextTx(i) = Wrap(i + 1, TxDescriptors) /\ NextTx(i) \in TxPlaces
  /\ \A i \in RxPlaces : NextRx(i) = Wrap(i + 1, RxDescriptors) /\ NextRx(i) \in RxPlaces
<1>1. TxDescriptors \in Nat \ {0} /\ RxDescriptors \in Nat \ {0}
  BY NetworkAssumption
<1>2. \A i \in TxPlaces : NextTx(i) = Wrap(i + 1, TxDescriptors) /\ NextTx(i) \in TxPlaces
  BY <1>1, NextDescriptor DEF NextTx, TxPlaces
<1>3. \A i \in RxPlaces : NextRx(i) = Wrap(i + 1, RxDescriptors) /\ NextRx(i) \in RxPlaces
  BY <1>1, NextDescriptor DEF NextRx, RxPlaces
<1> QED
  BY <1>2, <1>3

(***************************************************************************)
(* Types.                                                                  *)
(***************************************************************************)

\* The card.
LEMMA NetTypesCard ==
  ASSUME NetTypes, StackTurnsOff \/ CardReceives \/ CardTransmits \/ LinkChanges
  PROVE  NetTypes'
<1>1. CASE StackTurnsOff
  BY <1>1 DEF StackTurnsOff, NetTypes, rxVars, txVars
<1>2. CASE CardReceives
  <2>1. NextRx(rxHead) \in RxPlaces
    BY NextPlaces DEF NetTypes
  <2> QED
    BY <1>2, <2>1 DEF CardReceives, NetTypes, txVars
<1>3. CASE CardTransmits
  <2>1. NextTx(txHead) \in TxPlaces
    BY NextPlaces DEF NetTypes
  <2>2. txRing[txHead].frame \in Nat /\ txRing' \in [TxPlaces -> [frame : Nat, done : BOOLEAN]]
    <3>1. txHead \in TxPlaces /\ txRing[txHead] \in [frame : Nat, done : BOOLEAN]
      BY DEF NetTypes
    <3>2. [txRing[txHead] EXCEPT !.done = TRUE] \in [frame : Nat, done : BOOLEAN]
      BY <3>1
    <3>3. txRing' = [txRing EXCEPT ![txHead] = [txRing[txHead] EXCEPT !.done = TRUE]]
      BY <1>3 DEF CardTransmits
    <3>4. txRing \in [TxPlaces -> [frame : Nat, done : BOOLEAN]]
      BY DEF NetTypes
    <3> QED
      BY <3>1, <3>2, <3>3, <3>4
  <2>3. wire' \in Seq(Nat)
    BY <1>3, <2>2 DEF CardTransmits, NetTypes
  <2>4. cause' \subseteq {"rx", "tx", "link"} /\ txHead' \in TxPlaces
    BY <1>3, <2>1 DEF CardTransmits, NetTypes
  <2>5. UNCHANGED <<rxVars, txTail, txCurrent, txList, txAvailable, txLock, txEvent, accepted,
                    netIsr, transmitter, caller, netHalted>>
    BY <1>3 DEF CardTransmits
  <2> QED
    BY <2>2, <2>3, <2>4, <2>5 DEF NetTypes, rxVars
<1>4. CASE LinkChanges
  BY <1>4 DEF LinkChanges, NetTypes, rxVars, txVars
<1> QED
  BY <1>1, <1>2, <1>3, <1>4

\* The interrupt handler.
LEMMA NetTypesInterrupt ==
  ASSUME NetTypes, EthInterrupt
  PROVE  NetTypes'
<1>1. CASE EthHandleInterrupt
  BY <1>1 DEF EthHandleInterrupt, NetTypes, rxVars, txVars
<1>2. CASE NetworkPortNotifyReceiveBuffer
  <2>1. rxRing[rxCurrent] \in Nat
    BY DEF NetTypes
  <2>2. rxList' \in Seq(Nat)
    <3>1. rxList' = Append(rxList, rxRing[rxCurrent]) \/ rxList' = rxList
      BY <1>2 DEF NetworkPortNotifyReceiveBuffer
    <3>2. rxList \in Seq(Nat)
      BY DEF NetTypes
    <3> QED
      BY <2>1, <3>1, <3>2
  <2>3. netIsr' \in [ pc : {"idle", "rx", "rx_signal", "tx"}, cause : SUBSET {"rx", "tx", "link"},
                  wasEmpty : BOOLEAN ]
    BY <1>2 DEF NetworkPortNotifyReceiveBuffer, NetTypes
  <2>4. netIsr'.pc # "idle"
    BY <1>2 DEF NetworkPortNotifyReceiveBuffer, NetTypes
  <2>5. UNCHANGED <<rxRing, rxHead, rxTail, rxCurrent, rxEvent, arrived, delivered, txVars, cause,
                    transmitter, caller, netHalted>>
    BY <1>2 DEF NetworkPortNotifyReceiveBuffer
  <2> QED
    BY <2>2, <2>3, <2>4, <2>5 DEF NetTypes, txVars
<1>3. CASE EthReceiveFrame
  <2>1. NextRx(rxCurrent) \in RxPlaces
    BY NextPlaces DEF NetTypes
  <2> QED
    BY <1>3, <2>1 DEF EthReceiveFrame, NetTypes, txVars
<1>4. CASE NetworkPortNotifyTxDescriptorAvailable
  BY <1>4 DEF NetworkPortNotifyTxDescriptorAvailable, NetTypes, rxVars, IsrIdle
<1> QED
  BY <1>1, <1>2, <1>3, <1>4 DEF EthInterrupt

\* The transmit thread.
LEMMA NetTypesTransmit ==
  ASSUME NetTypes, NetPortTransmitFunction
  PROVE  NetTypes'
<1> USE DEF otherThanTx, rxVars
<1>1. CASE TransmitTakesFrame
  <2>1. CASE txList = <<>>
    BY <1>1, <2>1 DEF TransmitTakesFrame, NetTypes
  <2>2. CASE txList # <<>>
    <3>1. Head(txList) \in Nat /\ Tail(txList) \in Seq(Nat)
      BY <2>2 DEF NetTypes
    <3>2. /\ txList' \in Seq(Nat)
          /\ transmitter' \in [ pc : {"wait_frame", "wait_descriptor", "check", "lock", "full",
                                      "unlock", "tail"}, frame : Nat ]
          /\ UNCHANGED <<otherThanTx, txRing, txHead, txTail, txCurrent, txAvailable, txLock,
                         accepted, wire, netHalted, txEvent>>
      BY <1>1, <2>2, <3>1 DEF TransmitTakesFrame
    <3> QED
      BY <3>2 DEF NetTypes
  <2> QED
    BY <2>1, <2>2
<1>2. CASE EthSendFrame
  <2>1. NextTx(txCurrent) \in TxPlaces
    BY NextPlaces DEF NetTypes
  <2>2. netHalted' \in BOOLEAN /\ txRing' \in [TxPlaces -> [frame : Nat, done : BOOLEAN]]
    BY <1>2 DEF EthSendFrame, NetTypes
  <2>3. transmitter' \in [ pc : {"wait_frame", "wait_descriptor", "check", "lock", "full",
                                "unlock", "tail"}, frame : Nat ]
    BY <1>2 DEF EthSendFrame, TransmitterTo, NetTypes
  <2>4. /\ txCurrent' \in TxPlaces
        /\ UNCHANGED <<otherThanTx, txHead, txTail, txList, txEvent, txAvailable, txLock,
                       accepted, wire>>
    BY <1>2, <2>1 DEF EthSendFrame
  <2> QED
    BY <2>2, <2>3, <2>4 DEF NetTypes
<1>3. CASE EthSignalTxQueueFullIfNecessary
  BY <1>3 DEF EthSignalTxQueueFullIfNecessary, TransmitterTo, NetTypes, txVars
<1>4. CASE EthTxQueueFullLocked
  <2>1. transmitter' \in [ pc : {"wait_frame", "wait_descriptor", "check", "lock", "full",
                                "unlock", "tail"}, frame : Nat ]
    BY <1>4 DEF EthTxQueueFullLocked, TransmitterTo, NetTypes
  <2>2. /\ txLock'
        /\ UNCHANGED <<otherThanTx, txRing, txHead, txTail, txCurrent, txList, txEvent,
                       txAvailable, accepted, wire, netHalted>>
    BY <1>4 DEF EthTxQueueFullLocked
  <2> QED
    BY <2>1, <2>2 DEF NetTypes
<1>5. CASE NetworkPortNotifyTxQueueFull
  BY <1>5 DEF NetworkPortNotifyTxQueueFull, TransmitterTo, NetTypes
<1>6. CASE EthSetTxTail
  BY <1>6 DEF EthSetTxTail, NetTypes
<1> QED
  BY <1>1, <1>2, <1>3, <1>4, <1>5, <1>6 DEF NetPortTransmitFunction

\* The calls.
LEMMA NetTypesCalls ==
  ASSUME NetTypes, NEW t \in NetThreads, NetPortDeviceControl(t)
  PROVE  NetTypes'
<1> USE DEF otherThanCalls, CallerTo
<1>1. CASE NetDispatchSendFrame(t)
  <2>1. accepted' \in Seq(Nat) /\ txList' \in Seq(Nat)
    BY <1>1 DEF NetDispatchSendFrame, NetTypes
  <2>2. caller' \in [NetThreads -> {"idle", "signal", "receive", "empty", "wait"}]
    BY <1>1 DEF NetDispatchSendFrame, NetTypes
  <2>3. UNCHANGED <<otherThanCalls, rxVars, txRing, txHead, txTail, txCurrent, txEvent,
                    txAvailable, txLock, wire>>
    BY <1>1 DEF NetDispatchSendFrame
  <2> QED
    BY <2>1, <2>2, <2>3 DEF NetTypes, rxVars
<1>2. CASE SendSignals(t)
  BY <1>2 DEF SendSignals, NetTypes, rxVars
<1>3. ASSUME NEW fits \in BOOLEAN, NetDispatchReceiveFrame(t, fits) PROVE NetTypes'
  <2>1. delivered' \in Seq(Nat) /\ rxList' \in Seq(Nat)
    <3>1. \/ rxList' = rxList /\ delivered' = delivered
          \/ /\ rxList # <<>> /\ rxList' = Tail(rxList)
             /\ delivered' = Append(delivered, Head(rxList))
      BY <1>3 DEF NetDispatchReceiveFrame
    <3>2. rxList \in Seq(Nat) /\ delivered \in Seq(Nat)
      BY DEF NetTypes
    <3>3. rxList # <<>> => Head(rxList) \in Nat /\ Tail(rxList) \in Seq(Nat)
      BY <3>2
    <3>4. CASE rxList' = rxList /\ delivered' = delivered
      BY <3>2, <3>4
    <3>5. CASE /\ rxList # <<>> /\ rxList' = Tail(rxList)
               /\ delivered' = Append(delivered, Head(rxList))
      <4>1. Append(delivered, Head(rxList)) \in Seq(Nat)
        BY <3>2, <3>3, <3>5
      <4> QED
        BY <3>3, <3>5, <4>1
    <3> QED
      BY <3>1, <3>4, <3>5
  <2>2. caller' \in [NetThreads -> {"idle", "signal", "receive", "empty", "wait"}]
        /\ rxEvent' \in BOOLEAN
    BY <1>3 DEF NetDispatchReceiveFrame, NetTypes
  <2>3. UNCHANGED <<otherThanCalls, rxRing, rxHead, rxTail, rxCurrent, arrived, txVars>>
    BY <1>3 DEF NetDispatchReceiveFrame
  <2> QED
    BY <2>1, <2>2, <2>3 DEF NetTypes, txVars
<1>4. CASE ReceiveFinds(t) \/ ReceiveWakes(t)
  BY <1>4 DEF ReceiveFinds, ReceiveWakes, NetTypes, rxVars, txVars
<1>5. ASSUME NEW rx \in BOOLEAN, NEW tx \in BOOLEAN, NetDispatchChangeDeviceStatus(t, rx, tx)
      PROVE  NetTypes'
  <2>1. UNCHANGED <<otherThanCalls, rxVars, txVars, caller>>
    BY <1>5 DEF NetDispatchChangeDeviceStatus
  <2> QED
    BY <2>1 DEF NetTypes, rxVars, txVars
<1> QED
  BY <1>1, <1>2, <1>3, <1>4, <1>5 DEF NetPortDeviceControl, NetSendFrame, NetReceiveFrame

\* Every step keeps the types.
LEMMA NextNetTypes == NetTypes /\ [NetNext]_netVars => NetTypes'
<1> SUFFICES ASSUME NetTypes, [NetNext]_netVars PROVE NetTypes'
  OBVIOUS
<1>1. CASE UNCHANGED netVars
  BY <1>1 DEF netVars, rxVars, txVars, NetTypes
<1> QED
  BY <1>1, NetTypesCard, NetTypesInterrupt, NetTypesTransmit, NetTypesCalls DEF NetNext

(***************************************************************************)
(* Rings.                                                                  *)
(***************************************************************************)

\* Places of a ring, counted from one of them.
LEMMA WrapFacts ==
  ASSUME NEW n \in Nat \ {0}, NEW i \in 0 .. n - 1
  PROVE  /\ Wrap(i, n) = i /\ Wrap(i + n, n) = i
         /\ \A k \in 0 .. n : Wrap(i + k, n) \in 0 .. n - 1
         /\ \A k, l \in 0 .. n - 1 : Wrap(i + k, n) = Wrap(i + l, n) => k = l
BY DEF Wrap

\* The same place, counted from the next one.
LEMMA WrapStep ==
  ASSUME NEW n \in Nat \ {0}, NEW i \in 0 .. n - 1, NEW k \in 1 .. n
  PROVE  Wrap(Wrap(i + 1, n) + (k - 1), n) = Wrap(i + k, n)
BY DEF Wrap

\* The numbers of the transmit side.
LEMMA SendNumbers ==
  ASSUME NetTypes
  PROVE  /\ TxDescriptors \in Nat \ {0} /\ TxPlaces = 0 .. TxDescriptors - 1
         /\ txHead \in TxPlaces /\ txTail \in TxPlaces /\ txCurrent \in TxPlaces
         /\ Len(accepted) \in Nat /\ Len(txList) \in Nat /\ Len(wire) \in Nat
         /\ InTxRing \in Int /\ Untold \in {0, 1}
         /\ transmitter.frame \in Nat
<1>1. /\ accepted \in Seq(Nat) /\ txList \in Seq(Nat) /\ wire \in Seq(Nat)
      /\ txHead \in TxPlaces /\ txTail \in TxPlaces /\ txCurrent \in TxPlaces
      /\ transmitter.frame \in Nat
  BY DEF NetTypes
<1>2. Len(accepted) \in Nat /\ Len(txList) \in Nat /\ Len(wire) \in Nat
  BY <1>1
<1> QED
  BY <1>1, <1>2, NetworkAssumption DEF InTxRing, Untold, TxPlaces

(***************************************************************************)
(* Sending.                                                                *)
(***************************************************************************)

\* The transmit thread goes on between the filling of a descriptor and the
\* write of the tail, or nothing of the transmit side changes.
LEMMA SendingKept ==
  ASSUME SentInOrder, TxRingExact,
         UNCHANGED <<txRing, txHead, txTail, txCurrent, txList, accepted, wire, netHalted>>,
         \/ transmitter' = transmitter
         \/ {transmitter.pc, transmitter'.pc} \subseteq {"check", "lock", "full", "unlock", "tail"}
  PROVE  SentInOrder' /\ TxRingExact' /\ InTxRing' = InTxRing
<1>1. InTxRing' = InTxRing /\ Untold' = Untold
  BY DEF InTxRing, Untold
<1>2. SentInOrder'
  BY DEF SentInOrder
<1>3. TxRingExact'
  BY <1>1 DEF TxRingExact
<1> QED
  BY <1>1, <1>2, <1>3

\* The card sends the oldest frame of the ring.
LEMMA SendingCardTransmits ==
  ASSUME NetTypes, SentInOrder, TxRingExact, CardTransmits
  PROVE  SentInOrder' /\ TxRingExact' /\ InTxRing' = InTxRing - 1
<1>a. /\ ~netHalted /\ txHead # txTail
      /\ wire' = Append(wire, txRing[txHead].frame)
      /\ txRing' = [txRing EXCEPT ![txHead] = [@ EXCEPT !.done = TRUE]]
      /\ txHead' = NextTx(txHead)
      /\ UNCHANGED <<txTail, txCurrent, txList, accepted, transmitter, netHalted>>
  BY DEF CardTransmits, Up
<1>b. /\ TxDescriptors \in Nat \ {0} /\ txHead \in 0 .. TxDescriptors - 1
      /\ Len(wire) \in Nat /\ Len(accepted) \in Nat /\ Len(txList) \in Nat
      /\ InTxRing \in Int /\ Untold \in {0, 1}
  BY SendNumbers
<1>c. /\ Untold <= InTxRing /\ InTxRing <= TxDescriptors
      /\ txCurrent = Wrap(txHead + InTxRing, TxDescriptors)
      /\ txTail = Wrap(txHead + InTxRing - Untold, TxDescriptors)
      /\ \A k \in 0 .. InTxRing - 1 :
           txRing[Wrap(txHead + k, TxDescriptors)] = [frame |-> Len(wire) + k + 1, done |-> FALSE]
  BY <1>a DEF TxRingExact
<1>1. Untold < InTxRing
  BY <1>a, <1>b, <1>c DEF Wrap
<1>2. txRing[txHead].frame = Len(wire) + 1
  <2>1. Wrap(txHead + 0, TxDescriptors) = txHead
    BY <1>b DEF Wrap
  <2>2. txRing[Wrap(txHead + 0, TxDescriptors)] = [frame |-> Len(wire) + 0 + 1, done |-> FALSE]
    BY <1>b, <1>c, <1>1
  <2> QED
    BY <1>b, <2>1, <2>2
<1>3. /\ Len(wire') = Len(wire) + 1 /\ wire'[Len(wire) + 1] = Len(wire) + 1
      /\ \A i \in 1 .. Len(wire) : wire'[i] = wire[i]
  <2>1. wire \in Seq(Nat) /\ Len(wire) + 1 \in Nat /\ wire' = Append(wire, Len(wire) + 1)
    BY <1>a, <1>b, <1>2 DEF NetTypes
  <2> QED
    BY <2>1
<1>4. InTxRing' = InTxRing - 1 /\ Untold' = Untold
  BY <1>a, <1>b, <1>3 DEF InTxRing, Untold
<1>5. txHead' = Wrap(txHead + 1, TxDescriptors)
  BY <1>a, NextPlaces, SendNumbers
<1>6. SentInOrder'
  <2>1. Len(wire) + 1 <= Len(accepted)
    BY <1>b, <1>1 DEF InTxRing
  <2>2. \A i \in 1 .. Len(wire) : wire[i] = i
    BY DEF SentInOrder
  <2>3. \A i \in 1 .. Len(wire') : wire'[i] = i
    <3>1. SUFFICES ASSUME NEW i \in 1 .. Len(wire) + 1 PROVE wire'[i] = i
      BY <1>3
    <3>2. CASE i \in 1 .. Len(wire)
      BY <1>3, <2>2, <3>2
    <3>3. CASE i = Len(wire) + 1
      BY <1>b, <1>3, <3>3
    <3> QED
      BY <1>b, <3>2, <3>3
  <2> QED
    BY <1>a, <1>3, <2>1, <2>3 DEF SentInOrder
<1>7. TxRingExact'
  <2>1. \A k \in 1 .. TxDescriptors :
          Wrap(txHead' + (k - 1), TxDescriptors) = Wrap(txHead + k, TxDescriptors)
    BY <1>b, <1>5, WrapStep
  <2>2. ASSUME NEW k \in 1 .. InTxRing - 1
        PROVE  txRing'[Wrap(txHead + k, TxDescriptors)] = [frame |-> Len(wire') + k, done |-> FALSE]
    <3>1. k \in 0 .. InTxRing - 1 /\ k \in 1 .. TxDescriptors - 1
      BY <1>b, <1>c
    <3>2. Wrap(txHead + k, TxDescriptors) # txHead /\ Wrap(txHead + k, TxDescriptors) \in TxPlaces
      BY <1>b, <3>1 DEF Wrap, TxPlaces
    <3>3. txRing[Wrap(txHead + k, TxDescriptors)] = [frame |-> Len(wire) + k + 1, done |-> FALSE]
      BY <1>c, <3>1
    <3>4. txRing'[Wrap(txHead + k, TxDescriptors)] = txRing[Wrap(txHead + k, TxDescriptors)]
      BY <1>a, <3>2 DEF NetTypes
    <3>5. Len(wire') + k = Len(wire) + k + 1
      BY <1>b, <1>3, <3>1
    <3> QED
      BY <3>3, <3>4, <3>5
  <2>3. ASSUME NEW k \in 0 .. InTxRing' - 1
        PROVE  txRing'[Wrap(txHead' + k, TxDescriptors)] = [frame |-> Len(wire') + k + 1, done |-> FALSE]
    <3>1. /\ k + 1 \in 1 .. InTxRing - 1 /\ k + 1 \in 1 .. TxDescriptors
          /\ (k + 1) - 1 = k /\ Len(wire') + (k + 1) = Len(wire') + k + 1
      <4>1. k \in 0 .. InTxRing - 2
        BY <1>b, <1>4
      <4>2. Len(wire') \in Nat
        BY <1>b, <1>3
      <4>3. k + 1 \in 1 .. InTxRing - 1 /\ k + 1 \in 1 .. TxDescriptors
        BY <1>b, <1>c, <4>1
      <4> QED
        BY <1>b, <4>1, <4>2, <4>3
    <3>2. Wrap(txHead' + ((k + 1) - 1), TxDescriptors) = Wrap(txHead + (k + 1), TxDescriptors)
      BY <2>1, <3>1
    <3> QED
      BY <2>2, <3>1, <3>2
  <2>4. txCurrent' = Wrap(txHead' + InTxRing', TxDescriptors)
    <3>1. InTxRing \in 1 .. TxDescriptors
      BY <1>b, <1>c, <1>1
    <3> QED
      BY <1>a, <1>c, <1>4, <2>1, <3>1
  <2>5. txTail' = Wrap(txHead' + InTxRing' - Untold', TxDescriptors)
    <3>1. InTxRing - Untold \in 1 .. TxDescriptors
      BY <1>b, <1>c, <1>1
    <3>2. /\ txHead + (InTxRing - Untold) = txHead + InTxRing - Untold
          /\ txHead' + ((InTxRing - Untold) - 1) = txHead' + InTxRing' - Untold'
      BY <1>a, <1>b, <1>4, SendNumbers, NextPlaces DEF TxPlaces
    <3> QED
      BY <1>a, <1>c, <2>1, <3>1, <3>2
  <2> QED
    BY <1>a, <1>b, <1>c, <1>1, <1>4, <2>3, <2>4, <2>5 DEF TxRingExact
<1> QED
  BY <1>4, <1>6, <1>7

\* A frame goes from the list to the transmit thread.
LEMMA SendingTakesFrame ==
  ASSUME NetTypes, SentInOrder, TxRingExact, TransmitTakesFrame
  PROVE  SentInOrder' /\ TxRingExact' /\ InTxRing' = InTxRing
<1>a. /\ transmitter.pc = "wait_frame"
      /\ UNCHANGED <<txRing, txHead, txTail, txCurrent, accepted, wire, netHalted>>
      /\ \/ txList = <<>> /\ UNCHANGED <<txList, transmitter>>
         \/ /\ txList # <<>> /\ txList' = Tail(txList)
            /\ transmitter' = [pc |-> "wait_descriptor", frame |-> Head(txList)]
  BY DEF TransmitTakesFrame, Transmitter
<1>1. CASE UNCHANGED <<txList, transmitter>>
  BY <1>1, <1>a, SendingKept
<1>2. CASE txList # <<>> /\ txList' = Tail(txList)
           /\ transmitter' = [pc |-> "wait_descriptor", frame |-> Head(txList)]
  <2>1. /\ Len(txList) > 0 /\ Len(txList') = Len(txList) - 1
        /\ \A i \in 1 .. Len(txList) - 1 : txList'[i] = txList[i + 1]
        /\ Head(txList) = txList[1]
    <3>1. txList \in Seq(Nat)
      BY DEF NetTypes
    <3> QED
      BY <1>2, <3>1
  <2>2. InTxRing' = InTxRing /\ Untold' = Untold
    <3>1. transmitter'.pc = "wait_descriptor"
      BY <1>2
    <3> QED
      BY <1>a, <2>1, <3>1, SendNumbers DEF InTxRing, Untold
  <2>3. Head(txList) = Len(accepted) - Len(txList')
    BY <2>1, SendNumbers DEF SentInOrder
  <2>4. SentInOrder'
    <3>1. \A i \in 1 .. Len(txList') : txList'[i] = Len(accepted) - Len(txList') + i
      BY <2>1, SendNumbers DEF SentInOrder
    <3>2. transmitter'.pc = "wait_descriptor" => transmitter'.frame = Len(accepted) - Len(txList')
      BY <1>2, <2>3
    <3> QED
      BY <1>a, <3>1, <3>2 DEF SentInOrder
  <2>5. TxRingExact'
    BY <1>a, <2>2 DEF TxRingExact
  <2> QED
    BY <2>2, <2>4, <2>5
<1> QED
  BY <1>a, <1>1, <1>2

\* The transmit thread fills in the current descriptor.  On one that is not
\* done the assertion stops the driver.
LEMMA SendingSendFrame ==
  ASSUME NetTypes, SentInOrder, TxRingExact, EthSendFrame
  PROVE  SentInOrder' /\ TxRingExact'
<1>a. /\ ~netHalted /\ transmitter.pc = "wait_descriptor"
      /\ netHalted' = ~txRing[txCurrent].done
      /\ txRing' = [txRing EXCEPT ![txCurrent] = [frame |-> transmitter.frame, done |-> FALSE]]
      /\ txCurrent' = NextTx(txCurrent)
      /\ transmitter' = [transmitter EXCEPT !.pc = "check"]
      /\ UNCHANGED <<txHead, txTail, txList, accepted, wire>>
  BY DEF EthSendFrame, Transmitter, Up, TransmitterTo
<1>b. /\ TxDescriptors \in Nat \ {0} /\ txHead \in 0 .. TxDescriptors - 1
      /\ Len(wire) \in Nat /\ Len(accepted) \in Nat /\ Len(txList) \in Nat
      /\ InTxRing \in Int
  BY SendNumbers
<1>c. /\ 0 <= InTxRing /\ InTxRing <= TxDescriptors
      /\ txCurrent = Wrap(txHead + InTxRing, TxDescriptors)
      /\ txTail = Wrap(txHead + InTxRing, TxDescriptors)
      /\ \A k \in 0 .. InTxRing - 1 :
           txRing[Wrap(txHead + k, TxDescriptors)] = [frame |-> Len(wire) + k + 1, done |-> FALSE]
  <2>1. Untold = 0
    BY <1>a DEF Untold
  <2> QED
    BY <1>a, <1>b, <2>1, SendNumbers DEF TxRingExact
<1>1. transmitter'.pc = "check"
  BY <1>a DEF NetTypes
<1>2. SentInOrder'
  BY <1>a, <1>1 DEF SentInOrder
<1>3. InTxRing' = InTxRing + 1 /\ Untold' = 1
  BY <1>a, <1>b, <1>1 DEF InTxRing, Untold
<1>4. transmitter.frame = Len(wire) + InTxRing + 1
  BY <1>a, <1>b DEF SentInOrder, InTxRing
<1>5. ASSUME ~netHalted' PROVE TxRingExact'
  <2>1. InTxRing < TxDescriptors
    <3>1. SUFFICES ASSUME InTxRing = TxDescriptors PROVE FALSE
      BY <1>b, <1>c
    <3>2. txCurrent = Wrap(txHead + 0, TxDescriptors)
      BY <1>b, <1>c, <3>1 DEF Wrap
    <3>3. txRing[Wrap(txHead + 0, TxDescriptors)] = [frame |-> Len(wire) + 0 + 1, done |-> FALSE]
      BY <1>b, <1>c, <3>1
    <3>4. txRing[txCurrent] = [frame |-> Len(wire) + 0 + 1, done |-> FALSE]
      BY <3>2, <3>3
    <3>5. ~txRing[txCurrent].done
      BY <3>4
    <3> QED
      BY <1>a, <1>5, <3>5, Zenon
  <2>2. txCurrent' = Wrap(txHead + InTxRing', TxDescriptors)
    <3>1. txCurrent' = Wrap(Wrap(txHead + InTxRing, TxDescriptors) + 1, TxDescriptors)
      BY <1>a, <1>c, NextPlaces, SendNumbers
    <3> QED
      BY <1>b, <1>c, <1>3, <2>1, <3>1 DEF Wrap
  <2>3. txTail' = Wrap(txHead + InTxRing' - Untold', TxDescriptors)
    <3>1. txHead + InTxRing' - Untold' = txHead + InTxRing
      BY <1>b, <1>3
    <3> QED
      BY <1>a, <1>c, <3>1
  <2>4. ASSUME NEW k \in 0 .. InTxRing
        PROVE  txRing'[Wrap(txHead + k, TxDescriptors)] = [frame |-> Len(wire) + k + 1, done |-> FALSE]
    <3>1. Wrap(txHead + k, TxDescriptors) \in TxPlaces
      BY <1>b, <1>c DEF Wrap, TxPlaces
    <3>2. CASE k = InTxRing
      BY <1>a, <1>c, <1>4, <3>1, <3>2 DEF NetTypes
    <3>3. CASE k # InTxRing
      <4>1. k \in 0 .. InTxRing - 1
        BY <1>b, <1>c, <3>3
      <4>2. Wrap(txHead + k, TxDescriptors) # txCurrent
        BY <1>b, <1>c, <2>1, <4>1 DEF Wrap
      <4>3. txRing'[Wrap(txHead + k, TxDescriptors)] = txRing[Wrap(txHead + k, TxDescriptors)]
        BY <1>a, <3>1, <4>2 DEF NetTypes
      <4> QED
        BY <1>c, <4>1, <4>3
    <3> QED
      BY <3>2, <3>3
  <2>5. \A k \in 0 .. InTxRing' - 1 :
          txRing'[Wrap(txHead' + k, TxDescriptors)] = [frame |-> Len(wire') + k + 1, done |-> FALSE]
    <3>1. 0 .. InTxRing' - 1 = 0 .. InTxRing /\ txHead' = txHead /\ wire' = wire
      BY <1>a, <1>b, <1>3
    <3> QED
      BY <2>4, <3>1
  <2>6. Untold' <= InTxRing' /\ InTxRing' <= TxDescriptors /\ txHead' = txHead
    BY <1>a, <1>b, <1>c, <1>3, <2>1
  <2> QED
    BY <2>2, <2>3, <2>5, <2>6 DEF TxRingExact
<1>6. ASSUME netHalted' PROVE TxRingExact'
  BY <1>6 DEF TxRingExact
<1>7. TxRingExact'
  BY <1>5, <1>6
<1> QED
  BY <1>2, <1>7

\* The card is told.
LEMMA SendingSetTail ==
  ASSUME NetTypes, SentInOrder, TxRingExact, EthSetTxTail
  PROVE  SentInOrder' /\ TxRingExact' /\ InTxRing' = InTxRing
<1>a. /\ transmitter.pc = "tail" /\ transmitter' = [pc |-> "wait_frame", frame |-> 0]
      /\ txTail' = txCurrent
      /\ UNCHANGED <<txRing, txHead, txCurrent, txList, accepted, wire, netHalted>>
  BY DEF EthSetTxTail, Transmitter
<1>1. InTxRing' = InTxRing /\ Untold' = 0 /\ Untold = 1
  BY <1>a DEF InTxRing, Untold
<1>2. SentInOrder'
  BY <1>a DEF SentInOrder
<1>3. ASSUME ~netHalted PROVE txTail' = Wrap(txHead + InTxRing - 0, TxDescriptors) /\ 0 <= InTxRing
  <2>1. txHead + InTxRing - 0 = txHead + InTxRing
    BY SendNumbers DEF TxPlaces
  <2> QED
    BY <1>3, <1>a, <1>1, <2>1, SendNumbers DEF TxRingExact
<1>4. TxRingExact'
  BY <1>a, <1>1, <1>3 DEF TxRingExact
<1> QED
  BY <1>1, <1>2, <1>4

\* A frame is accepted at the end of the list.
LEMMA SendingAccepted ==
  ASSUME NetTypes, SentInOrder, TxRingExact, NEW t \in NetThreads, NetDispatchSendFrame(t)
  PROVE  SentInOrder' /\ TxRingExact' /\ InTxRing' = InTxRing
<1>a. /\ accepted' = Append(accepted, Len(accepted) + 1)
      /\ txList' = Append(txList, Len(accepted) + 1)
      /\ UNCHANGED <<txRing, txHead, txTail, txCurrent, wire, transmitter, netHalted>>
  BY DEF NetDispatchSendFrame, otherThanCalls
<1>b. accepted \in Seq(Nat) /\ txList \in Seq(Nat) /\ Len(accepted) + 1 \in Nat
  BY SendNumbers DEF NetTypes
<1>1. /\ Len(accepted') = Len(accepted) + 1 /\ accepted'[Len(accepted) + 1] = Len(accepted) + 1
      /\ \A i \in 1 .. Len(accepted) : accepted'[i] = accepted[i]
      /\ Len(txList') = Len(txList) + 1 /\ txList'[Len(txList) + 1] = Len(accepted) + 1
      /\ \A i \in 1 .. Len(txList) : txList'[i] = txList[i]
  BY <1>a, <1>b
<1>2. InTxRing' = InTxRing /\ Untold' = Untold
  BY <1>a, <1>1, SendNumbers DEF InTxRing, Untold
<1>3. \A i \in 1 .. Len(accepted') : accepted'[i] = i
  <2>1. SUFFICES ASSUME NEW i \in 1 .. Len(accepted) + 1 PROVE accepted'[i] = i
    BY <1>1
  <2>2. CASE i \in 1 .. Len(accepted)
    BY <1>1, <2>2 DEF SentInOrder
  <2>3. CASE i = Len(accepted) + 1
    BY <1>1, <2>3, SendNumbers
  <2> QED
    BY <2>2, <2>3, SendNumbers
<1>4. \A i \in 1 .. Len(txList') : txList'[i] = Len(accepted') - Len(txList') + i
  <2>1. SUFFICES ASSUME NEW i \in 1 .. Len(txList) + 1 PROVE txList'[i] = Len(accepted) - Len(txList) + i
    BY <1>1, SendNumbers
  <2>2. CASE i \in 1 .. Len(txList)
    BY <1>1, <2>2 DEF SentInOrder
  <2>3. CASE i = Len(txList) + 1
    BY <1>1, <2>3, SendNumbers
  <2> QED
    BY <2>2, <2>3, SendNumbers
<1>5. /\ Len(wire) <= Len(accepted')
      /\ transmitter.pc = "wait_descriptor" => transmitter.frame = Len(accepted') - Len(txList')
  BY <1>1, SendNumbers DEF SentInOrder
<1>6. SentInOrder'
  BY <1>a, <1>3, <1>4, <1>5 DEF SentInOrder
<1>7. TxRingExact'
  BY <1>a, <1>2 DEF TxRingExact
<1> QED
  BY <1>2, <1>6, <1>7

\* Every step keeps the order of the frames that are sent.
LEMMA NextSending ==
  NetTypes /\ SentInOrder /\ TxRingExact /\ [NetNext]_netVars => SentInOrder' /\ TxRingExact'
<1> SUFFICES ASSUME NetTypes, SentInOrder, TxRingExact, [NetNext]_netVars
             PROVE  SentInOrder' /\ TxRingExact'
  OBVIOUS
<1> DEFINE Same == UNCHANGED <<txRing, txHead, txTail, txCurrent, txList, accepted, wire, netHalted>>
<1>1. CASE UNCHANGED netVars \/ StackTurnsOff \/ CardReceives \/ LinkChanges
  <2>1. Same /\ transmitter' = transmitter
    BY <1>1 DEF netVars, txVars, StackTurnsOff, CardReceives, LinkChanges
  <2> QED
    BY <2>1, SendingKept
<1>2. CASE EthInterrupt
  <2>1. Same /\ transmitter' = transmitter
    BY <1>2 DEF EthInterrupt, EthHandleInterrupt, NetworkPortNotifyReceiveBuffer, EthReceiveFrame,
                NetworkPortNotifyTxDescriptorAvailable, txVars
  <2> QED
    BY <2>1, SendingKept
<1>3. CASE EthSignalTxQueueFullIfNecessary \/ EthTxQueueFullLocked \/ NetworkPortNotifyTxQueueFull
  <2>1. Same /\ {transmitter.pc, transmitter'.pc} \subseteq {"check", "lock", "full", "unlock", "tail"}
    BY <1>3 DEF EthSignalTxQueueFullIfNecessary, EthTxQueueFullLocked, NetworkPortNotifyTxQueueFull,
                Transmitter, TransmitterTo, txVars, NetTypes
  <2> QED
    BY <2>1, SendingKept
<1>4. CASE NetPortTransmitFunction
  BY <1>3, <1>4, SendingTakesFrame, SendingSendFrame, SendingSetTail DEF NetPortTransmitFunction
<1>5. ASSUME NEW t \in NetThreads, NetPortDeviceControl(t) PROVE SentInOrder' /\ TxRingExact'
  <2>1. CASE NetDispatchSendFrame(t)
    BY <2>1, SendingAccepted
  <2>2. CASE SendSignals(t) \/ NetReceiveFrame(t)
             \/ \E rx, tx \in BOOLEAN : NetDispatchChangeDeviceStatus(t, rx, tx)
    <3>1. Same /\ transmitter' = transmitter
      BY <2>2 DEF SendSignals, NetReceiveFrame, NetDispatchReceiveFrame, ReceiveFinds, ReceiveWakes,
                  NetDispatchChangeDeviceStatus, otherThanCalls, txVars
    <3> QED
      BY <3>1, SendingKept
  <2> QED
    BY <1>5, <2>1, <2>2 DEF NetPortDeviceControl, NetSendFrame
<1> QED
  BY <1>1, <1>2, <1>4, <1>5, SendingCardTransmits DEF NetNext

(***************************************************************************)
(* Receiving.                                                              *)
(***************************************************************************)

\* The numbers of the receive side.
LEMMA ReceiveNumbers ==
  ASSUME NetTypes
  PROVE  /\ RxDescriptors \in Nat \ {0} /\ RxPlaces = 0 .. RxDescriptors - 1
         /\ rxHead \in RxPlaces /\ rxTail \in RxPlaces /\ rxCurrent \in RxPlaces
         /\ arrived \in Seq(Nat) /\ rxList \in Seq(Nat) /\ delivered \in Seq(Nat)
         /\ Len(arrived) \in Nat /\ Len(rxList) \in Nat /\ Len(delivered) \in Nat
         /\ InRxRing \in Int /\ Unreturned \in {0, 1}
<1>1. /\ arrived \in Seq(Nat) /\ rxList \in Seq(Nat) /\ delivered \in Seq(Nat)
      /\ rxHead \in RxPlaces /\ rxTail \in RxPlaces /\ rxCurrent \in RxPlaces
  BY DEF NetTypes
<1>2. Len(arrived) \in Nat /\ Len(rxList) \in Nat /\ Len(delivered) \in Nat
  BY <1>1
<1> QED
  BY <1>1, <1>2, NetworkAssumption DEF InRxRing, Unreturned, RxPlaces

\* Nothing of the receive side changes.
LEMMA ReceivingKept ==
  ASSUME ReceivedInOrder, RxRingExact,
         UNCHANGED <<rxRing, rxHead, rxTail, rxCurrent, rxList, arrived, delivered>>,
         netIsr'.pc = "rx_signal" <=> netIsr.pc = "rx_signal"
  PROVE  ReceivedInOrder' /\ RxRingExact'
<1>1. InRxRing' = InRxRing /\ Unreturned' = Unreturned
  BY DEF InRxRing, Unreturned
<1>2. ReceivedInOrder'
  BY DEF ReceivedInOrder
<1>3. RxRingExact'
  BY <1>1 DEF RxRingExact
<1> QED
  BY <1>2, <1>3

\* The card stores a frame in the place after the last one.
LEMMA ReceivingCardReceives ==
  ASSUME NetTypes, ReceivedInOrder, RxRingExact, CardReceives
  PROVE  ReceivedInOrder' /\ RxRingExact'
<1>a. /\ rxHead # rxTail
      /\ rxRing' = [rxRing EXCEPT ![rxHead] = Len(arrived) + 1]
      /\ arrived' = Append(arrived, Len(arrived) + 1)
      /\ rxHead' = NextRx(rxHead)
      /\ UNCHANGED <<rxTail, rxCurrent, rxList, delivered, netIsr>>
  BY DEF CardReceives
<1>b. /\ RxDescriptors \in Nat \ {0} /\ rxCurrent \in 0 .. RxDescriptors - 1
      /\ Len(arrived) \in Nat /\ Len(rxList) \in Nat /\ Len(delivered) \in Nat
      /\ InRxRing \in Int /\ Unreturned \in {0, 1}
  BY ReceiveNumbers
<1>c. /\ Unreturned <= InRxRing /\ InRxRing <= RxDescriptors - 1
      /\ rxHead = Wrap(rxCurrent + InRxRing, RxDescriptors)
      /\ rxTail = Wrap(rxCurrent + RxDescriptors - 1, RxDescriptors)
      /\ \A k \in 0 .. RxDescriptors - 1 :
           rxRing[Wrap(rxCurrent + k, RxDescriptors)] =
             IF k < InRxRing THEN Len(arrived) - InRxRing + k + 1 ELSE 0
  BY DEF RxRingExact
<1>1. InRxRing < RxDescriptors - 1
  <2>1. SUFFICES ASSUME InRxRing = RxDescriptors - 1 PROVE FALSE
    BY <1>b, <1>c
  <2>2. rxCurrent + InRxRing = rxCurrent + RxDescriptors - 1
    BY <1>b, <2>1
  <2> QED
    BY <1>a, <1>c, <2>2
<1>2. /\ Len(arrived') = Len(arrived) + 1 /\ arrived'[Len(arrived) + 1] = Len(arrived) + 1
      /\ \A i \in 1 .. Len(arrived) : arrived'[i] = arrived[i]
  <2>1. arrived \in Seq(Nat) /\ Len(arrived) + 1 \in Nat
    BY <1>b, ReceiveNumbers
  <2> QED
    BY <1>a, <2>1
<1>3. InRxRing' = InRxRing + 1 /\ Unreturned' = Unreturned
  BY <1>a, <1>b, <1>2 DEF InRxRing, Unreturned
<1>4. ReceivedInOrder'
  <2>1. \A i \in 1 .. Len(arrived') : arrived'[i] = i
    <3>1. SUFFICES ASSUME NEW i \in 1 .. Len(arrived) + 1 PROVE arrived'[i] = i
      BY <1>2
    <3>2. CASE i \in 1 .. Len(arrived)
      BY <1>2, <3>2 DEF ReceivedInOrder
    <3>3. CASE i = Len(arrived) + 1
      BY <1>b, <1>2, <3>3
    <3> QED
      BY <1>b, <3>2, <3>3
  <2> QED
    BY <1>a, <2>1 DEF ReceivedInOrder
<1>5. rxHead' = Wrap(rxCurrent + InRxRing', RxDescriptors)
  <2>1. rxHead' = Wrap(Wrap(rxCurrent + InRxRing, RxDescriptors) + 1, RxDescriptors)
    BY <1>a, <1>c, NextPlaces, ReceiveNumbers
  <2> QED
    BY <1>b, <1>c, <1>1, <1>3, <2>1 DEF Wrap
<1>6. ASSUME NEW k \in 0 .. RxDescriptors - 1
      PROVE  rxRing'[Wrap(rxCurrent + k, RxDescriptors)] =
               IF k < InRxRing' THEN Len(arrived') - InRxRing' + k + 1 ELSE 0
  <2>1. Wrap(rxCurrent + k, RxDescriptors) \in RxPlaces
    BY <1>b DEF Wrap, RxPlaces
  <2>2. Len(arrived') - InRxRing' = Len(arrived) - InRxRing
    BY <1>b, <1>2, <1>3
  <2>3. CASE k = InRxRing
    <3>1. rxRing'[Wrap(rxCurrent + k, RxDescriptors)] = Len(arrived) + 1
      BY <1>a, <1>c, <2>1, <2>3 DEF NetTypes
    <3> QED
      BY <1>b, <1>3, <2>2, <2>3, <3>1
  <2>4. CASE k # InRxRing
    <3>1. Wrap(rxCurrent + k, RxDescriptors) # rxHead
      BY <1>b, <1>c, <2>4 DEF Wrap
    <3>2. rxRing'[Wrap(rxCurrent + k, RxDescriptors)] = rxRing[Wrap(rxCurrent + k, RxDescriptors)]
      BY <1>a, <2>1, <3>1 DEF NetTypes
    <3>3. k < InRxRing' <=> k < InRxRing
      BY <1>b, <1>3, <2>4
    <3> QED
      BY <1>c, <2>2, <3>2, <3>3
  <2> QED
    BY <2>3, <2>4
<1>7. RxRingExact'
  BY <1>a, <1>b, <1>c, <1>1, <1>3, <1>5, <1>6 DEF RxRingExact
<1> QED
  BY <1>4, <1>7

\* The interrupt handler queues the oldest frame of the ring.
LEMMA ReceivingNotify ==
  ASSUME NetTypes, ReceivedInOrder, RxRingExact, NetworkPortNotifyReceiveBuffer
  PROVE  ReceivedInOrder' /\ RxRingExact'
<1>a. /\ netIsr.pc = "rx"
      /\ UNCHANGED <<rxRing, rxHead, rxTail, rxCurrent, arrived, delivered>>
      /\ \/ /\ rxRing[rxCurrent] = 0 /\ UNCHANGED rxList
            /\ netIsr' = [netIsr EXCEPT !.pc = "tx"]
         \/ /\ rxRing[rxCurrent] # 0
            /\ rxList' = Append(rxList, rxRing[rxCurrent])
            /\ netIsr' = [netIsr EXCEPT !.pc = "rx_signal", !.wasEmpty = (rxList = <<>>)]
  BY DEF NetworkPortNotifyReceiveBuffer
<1>b. /\ RxDescriptors \in Nat \ {0} /\ rxCurrent \in 0 .. RxDescriptors - 1
      /\ Len(arrived) \in Nat /\ Len(rxList) \in Nat /\ Len(delivered) \in Nat
      /\ InRxRing \in Int /\ rxList \in Seq(Nat)
  BY ReceiveNumbers
<1>1. CASE rxRing[rxCurrent] = 0
  <2>1. rxList' = rxList /\ netIsr'.pc = "tx"
    BY <1>1, <1>a DEF NetTypes
  <2> QED
    BY <1>a, <2>1, ReceivingKept
<1>2. CASE rxRing[rxCurrent] # 0
  <2>1. netIsr'.pc = "rx_signal" /\ rxList' = Append(rxList, rxRing[rxCurrent])
    BY <1>2, <1>a DEF NetTypes
  <2>2. 0 <= InRxRing /\ InRxRing <= RxDescriptors - 1
    BY <1>a, <1>b DEF RxRingExact, Unreturned
  <2>3. rxRing[rxCurrent] = IF 0 < InRxRing THEN Len(arrived) - InRxRing + 0 + 1 ELSE 0
    <3>1. Wrap(rxCurrent + 0, RxDescriptors) = rxCurrent /\ 0 \in 0 .. RxDescriptors - 1
      BY <1>b DEF Wrap
    <3> QED
      BY <3>1 DEF RxRingExact
  <2>4. 0 < InRxRing /\ rxRing[rxCurrent] = Len(delivered) + Len(rxList) + 1
    <3>1. InRxRing = Len(arrived) - Len(delivered) - Len(rxList)
      BY <1>a, <1>b DEF InRxRing, Unreturned
    <3> QED
      BY <1>2, <1>b, <2>2, <2>3, <3>1
  <2>5. /\ Len(rxList') = Len(rxList) + 1 /\ rxList'[Len(rxList) + 1] = rxRing[rxCurrent]
        /\ \A i \in 1 .. Len(rxList) : rxList'[i] = rxList[i]
    <3>1. rxRing[rxCurrent] \in Nat
      BY <1>b, <2>4
    <3> QED
      BY <1>b, <2>1, <3>1
  <2>6. InRxRing' = InRxRing /\ Unreturned' = 1
    BY <1>a, <1>b, <2>1, <2>5 DEF InRxRing, Unreturned
  <2>7. ReceivedInOrder'
    <3>1. \A i \in 1 .. Len(rxList') : rxList'[i] = Len(delivered) + i
      <4>1. SUFFICES ASSUME NEW i \in 1 .. Len(rxList) + 1 PROVE rxList'[i] = Len(delivered) + i
        BY <2>5
      <4>2. CASE i \in 1 .. Len(rxList)
        BY <2>5, <4>2 DEF ReceivedInOrder
      <4>3. CASE i = Len(rxList) + 1
        BY <1>b, <2>4, <2>5, <4>3
      <4> QED
        BY <1>b, <4>2, <4>3
    <3> QED
      BY <1>a, <3>1 DEF ReceivedInOrder
  <2>8. RxRingExact'
    BY <1>a, <1>b, <2>2, <2>4, <2>6 DEF RxRingExact
  <2> QED
    BY <2>7, <2>8
<1> QED
  BY <1>1, <1>2

\* The descriptor goes back to the card, empty.
LEMMA ReceivingReturns ==
  ASSUME NetTypes, ReceivedInOrder, RxRingExact, EthReceiveFrame
  PROVE  ReceivedInOrder' /\ RxRingExact'
<1>a. /\ netIsr.pc = "rx_signal" /\ netIsr' = [netIsr EXCEPT !.pc = "rx"]
      /\ rxRing' = [rxRing EXCEPT ![rxCurrent] = 0]
      /\ rxTail' = rxCurrent /\ rxCurrent' = NextRx(rxCurrent)
      /\ UNCHANGED <<rxHead, rxList, arrived, delivered>>
  BY DEF EthReceiveFrame
<1>b. /\ RxDescriptors \in Nat \ {0} /\ rxCurrent \in 0 .. RxDescriptors - 1
      /\ Len(arrived) \in Nat /\ Len(rxList) \in Nat /\ Len(delivered) \in Nat
      /\ InRxRing \in Int /\ Unreturned = 1
  BY <1>a, ReceiveNumbers DEF Unreturned
<1>c. /\ 1 <= InRxRing /\ InRxRing <= RxDescriptors - 1
      /\ rxHead = Wrap(rxCurrent + InRxRing, RxDescriptors)
      /\ \A k \in 0 .. RxDescriptors - 1 :
           rxRing[Wrap(rxCurrent + k, RxDescriptors)] =
             IF k < InRxRing THEN Len(arrived) - InRxRing + k + 1 ELSE 0
  BY <1>b DEF RxRingExact
<1>1. netIsr'.pc = "rx"
  BY <1>a DEF NetTypes
<1>2. InRxRing' = InRxRing - 1 /\ Unreturned' = 0
  BY <1>a, <1>b, <1>1 DEF InRxRing, Unreturned
<1>3. ReceivedInOrder'
  BY <1>a DEF ReceivedInOrder
<1>4. rxCurrent' = Wrap(rxCurrent + 1, RxDescriptors)
  BY <1>a, NextPlaces, ReceiveNumbers
<1>5. \A k \in 1 .. RxDescriptors :
        Wrap(rxCurrent' + (k - 1), RxDescriptors) = Wrap(rxCurrent + k, RxDescriptors)
  BY <1>b, <1>4, WrapStep
<1>6. rxHead' = Wrap(rxCurrent' + InRxRing', RxDescriptors)
  <2>1. InRxRing \in 1 .. RxDescriptors
    BY <1>b, <1>c
  <2> QED
    BY <1>a, <1>c, <1>2, <1>5, <2>1
<1>7. rxTail' = Wrap(rxCurrent' + RxDescriptors - 1, RxDescriptors)
  BY <1>a, <1>b, <1>4 DEF Wrap
<1>8. ASSUME NEW k \in 0 .. RxDescriptors - 1
      PROVE  rxRing'[Wrap(rxCurrent' + k, RxDescriptors)] =
               IF k < InRxRing' THEN Len(arrived') - InRxRing' + k + 1 ELSE 0
  <2>1. k + 1 \in 1 .. RxDescriptors /\ (k + 1) - 1 = k
    BY <1>b
  <2>2. Wrap(rxCurrent' + k, RxDescriptors) = Wrap(rxCurrent + (k + 1), RxDescriptors)
    <3>1. Wrap(rxCurrent' + ((k + 1) - 1), RxDescriptors) = Wrap(rxCurrent + (k + 1), RxDescriptors)
      BY <1>5, <2>1
    <3> QED
      BY <2>1, <3>1
  <2>3. CASE k = RxDescriptors - 1
    <3>1. Wrap(rxCurrent + (k + 1), RxDescriptors) = rxCurrent
      BY <1>b, <2>3 DEF Wrap
    <3>2. rxRing'[rxCurrent] = 0
      BY <1>a, <1>b DEF NetTypes, RxPlaces
    <3>3. ~(k < InRxRing')
      BY <1>b, <1>c, <1>2, <2>3
    <3> QED
      BY <2>2, <3>1, <3>2, <3>3
  <2>4. CASE k # RxDescriptors - 1
    <3>1. k + 1 \in 0 .. RxDescriptors - 1
      BY <1>b, <2>4
    <3>2. Wrap(rxCurrent + (k + 1), RxDescriptors) # rxCurrent
          /\ Wrap(rxCurrent + (k + 1), RxDescriptors) \in RxPlaces
      BY <1>b, <3>1 DEF Wrap, RxPlaces
    <3>3. rxRing'[Wrap(rxCurrent + (k + 1), RxDescriptors)] = rxRing[Wrap(rxCurrent + (k + 1), RxDescriptors)]
      BY <1>a, <3>2 DEF NetTypes
    <3>4. rxRing[Wrap(rxCurrent + (k + 1), RxDescriptors)] =
            IF k + 1 < InRxRing THEN Len(arrived) - InRxRing + (k + 1) + 1 ELSE 0
      BY <1>c, <3>1
    <3>5. /\ k + 1 < InRxRing <=> k < InRxRing'
          /\ Len(arrived) - InRxRing + (k + 1) + 1 = Len(arrived') - InRxRing' + k + 1
      BY <1>a, <1>b, <1>2
    <3> QED
      BY <2>2, <3>3, <3>4, <3>5
  <2> QED
    BY <2>3, <2>4
<1>9. Unreturned' <= InRxRing' /\ InRxRing' <= RxDescriptors - 1
  BY <1>b, <1>c, <1>2
<1>10. RxRingExact'
  BY <1>6, <1>7, <1>8, <1>9 DEF RxRingExact
<1> QED
  BY <1>3, <1>10

\* A frame goes from the list to a caller, or stays.
LEMMA ReceivingDelivered ==
  ASSUME NetTypes, ReceivedInOrder, RxRingExact, NEW t \in NetThreads, NEW fits \in BOOLEAN,
         NetDispatchReceiveFrame(t, fits)
  PROVE  ReceivedInOrder' /\ RxRingExact'
<1>a. /\ UNCHANGED <<rxRing, rxHead, rxTail, rxCurrent, arrived, netIsr>>
      /\ \/ UNCHANGED <<rxList, delivered>>
         \/ rxList # <<>> /\ rxList' = Tail(rxList) /\ delivered' = Append(delivered, Head(rxList))
  BY DEF NetDispatchReceiveFrame, otherThanCalls
<1>1. CASE UNCHANGED <<rxList, delivered>>
  BY <1>1, <1>a, ReceivingKept
<1>2. CASE rxList # <<>> /\ rxList' = Tail(rxList) /\ delivered' = Append(delivered, Head(rxList))
  <2>1. rxList \in Seq(Nat) /\ delivered \in Seq(Nat)
    BY ReceiveNumbers
  <2>2. /\ Len(rxList) > 0 /\ Len(rxList') = Len(rxList) - 1
        /\ \A i \in 1 .. Len(rxList) - 1 : rxList'[i] = rxList[i + 1]
        /\ Head(rxList) = rxList[1] /\ Head(rxList) \in Nat
    BY <1>2, <2>1
  <2>3. /\ Len(delivered') = Len(delivered) + 1
        /\ delivered'[Len(delivered) + 1] = Head(rxList)
        /\ \A i \in 1 .. Len(delivered) : delivered'[i] = delivered[i]
    BY <1>2, <2>1, <2>2
  <2>4. InRxRing' = InRxRing /\ Unreturned' = Unreturned
    BY <1>a, <2>2, <2>3, ReceiveNumbers DEF InRxRing, Unreturned
  <2>5. Head(rxList) = Len(delivered) + 1
    BY <2>2, ReceiveNumbers DEF ReceivedInOrder
  <2>6. \A i \in 1 .. Len(delivered') : delivered'[i] = i
    <3>1. SUFFICES ASSUME NEW i \in 1 .. Len(delivered) + 1 PROVE delivered'[i] = i
      BY <2>3
    <3>2. CASE i \in 1 .. Len(delivered)
      BY <2>3, <3>2 DEF ReceivedInOrder
    <3>3. CASE i = Len(delivered) + 1
      BY <2>3, <2>5, <3>3, ReceiveNumbers
    <3> QED
      BY <3>2, <3>3, ReceiveNumbers
  <2>7. \A i \in 1 .. Len(rxList') : rxList'[i] = Len(delivered') + i
    BY <2>2, <2>3, ReceiveNumbers DEF ReceivedInOrder
  <2>8. ReceivedInOrder'
    BY <1>a, <2>6, <2>7 DEF ReceivedInOrder
  <2>9. RxRingExact'
    BY <1>a, <2>4 DEF RxRingExact
  <2> QED
    BY <2>8, <2>9
<1> QED
  BY <1>a, <1>1, <1>2

\* Every step keeps the order of the frames that are received.
LEMMA NextReceiving ==
  NetTypes /\ ReceivedInOrder /\ RxRingExact /\ [NetNext]_netVars => ReceivedInOrder' /\ RxRingExact'
<1> SUFFICES ASSUME NetTypes, ReceivedInOrder, RxRingExact, [NetNext]_netVars
             PROVE  ReceivedInOrder' /\ RxRingExact'
  OBVIOUS
<1> DEFINE Same == UNCHANGED <<rxRing, rxHead, rxTail, rxCurrent, rxList, arrived, delivered>>
<1>1. CASE UNCHANGED netVars \/ StackTurnsOff \/ CardTransmits \/ LinkChanges
  <2>1. Same /\ netIsr' = netIsr
    BY <1>1 DEF netVars, rxVars, StackTurnsOff, CardTransmits, LinkChanges
  <2> QED
    BY <2>1, ReceivingKept
<1>2. CASE EthHandleInterrupt \/ NetworkPortNotifyTxDescriptorAvailable
  <2>1. Same /\ netIsr.pc # "rx_signal" /\ netIsr'.pc # "rx_signal"
    BY <1>2 DEF EthHandleInterrupt, NetworkPortNotifyTxDescriptorAvailable, rxVars, IsrIdle
  <2> QED
    BY <2>1, ReceivingKept
<1>3. CASE EthInterrupt
  BY <1>2, <1>3, ReceivingNotify, ReceivingReturns DEF EthInterrupt
<1>4. CASE NetPortTransmitFunction
  <2>1. Same /\ netIsr' = netIsr
    BY <1>4 DEF NetPortTransmitFunction, TransmitTakesFrame, EthSendFrame,
                EthSignalTxQueueFullIfNecessary, EthTxQueueFullLocked, NetworkPortNotifyTxQueueFull,
                EthSetTxTail, otherThanTx, rxVars
  <2> QED
    BY <2>1, ReceivingKept
<1>5. ASSUME NEW t \in NetThreads, NetPortDeviceControl(t) PROVE ReceivedInOrder' /\ RxRingExact'
  <2>1. ASSUME NEW fits \in BOOLEAN, NetDispatchReceiveFrame(t, fits) PROVE ReceivedInOrder' /\ RxRingExact'
    BY <2>1, ReceivingDelivered
  <2>2. CASE NetSendFrame(t) \/ ReceiveFinds(t) \/ ReceiveWakes(t)
             \/ \E rx, tx \in BOOLEAN : NetDispatchChangeDeviceStatus(t, rx, tx)
    <3>1. Same /\ netIsr' = netIsr
      BY <2>2 DEF NetSendFrame, NetDispatchSendFrame, SendSignals, ReceiveFinds, ReceiveWakes,
                  NetDispatchChangeDeviceStatus, otherThanCalls, rxVars
    <3> QED
      BY <3>1, ReceivingKept
  <2> QED
    BY <1>5, <2>1, <2>2 DEF NetPortDeviceControl, NetReceiveFrame
<1> QED
  BY <1>1, <1>3, <1>4, <1>5, ReceivingCardReceives DEF NetNext

(***************************************************************************)
(* Notices.                                                                *)
(***************************************************************************)

\* The notices of the lists after any step.
LEMMA NextListsNoticed == NetTypes /\ ListsNoticed /\ [NetNext]_netVars => ListsNoticed'
<1> SUFFICES ASSUME NetTypes, ListsNoticed, [NetNext]_netVars PROVE ListsNoticed'
  OBVIOUS
<1> DEFINE Same == UNCHANGED <<txList, txEvent, rxList, rxEvent>>
<1>1. CASE UNCHANGED netVars \/ StackTurnsOff \/ CardReceives \/ CardTransmits \/ LinkChanges
  <2>1. Same /\ netIsr' = netIsr /\ caller' = caller
    BY <1>1 DEF netVars, rxVars, txVars, StackTurnsOff, CardReceives, CardTransmits, LinkChanges
  <2> QED
    BY <2>1 DEF ListsNoticed
<1>2. CASE EthInterrupt
  <2>0. caller' = caller /\ UNCHANGED <<txList, txEvent>>
    BY <1>2 DEF EthInterrupt, EthHandleInterrupt, NetworkPortNotifyReceiveBuffer, EthReceiveFrame,
                NetworkPortNotifyTxDescriptorAvailable, txVars
  <2>1. CASE EthHandleInterrupt \/ NetworkPortNotifyTxDescriptorAvailable
    <3>1. netIsr.pc # "rx_signal" /\ UNCHANGED <<rxList, rxEvent>>
      BY <2>1 DEF EthHandleInterrupt, NetworkPortNotifyTxDescriptorAvailable, rxVars
    <3> QED
      BY <2>0, <3>1 DEF ListsNoticed
  <2>2. CASE NetworkPortNotifyReceiveBuffer
    <3>1. /\ netIsr.pc = "rx" /\ rxEvent' = rxEvent
          /\ \/ rxList' = rxList
             \/ netIsr' = [netIsr EXCEPT !.pc = "rx_signal", !.wasEmpty = (rxList = <<>>)]
      BY <2>2 DEF NetworkPortNotifyReceiveBuffer
    <3>2. CASE rxList' = rxList
      BY <2>0, <3>1, <3>2 DEF ListsNoticed
    <3>3. CASE netIsr' = [netIsr EXCEPT !.pc = "rx_signal", !.wasEmpty = (rxList = <<>>)]
      <4>1. netIsr'.pc = "rx_signal" /\ (netIsr'.wasEmpty <=> rxList = <<>>)
        BY <3>3 DEF NetTypes
      <4> QED
        BY <2>0, <3>1, <4>1 DEF ListsNoticed
    <3> QED
      BY <3>1, <3>2, <3>3
  <2>3. CASE EthReceiveFrame
    <3>1. rxList' = rxList /\ rxEvent' = (rxEvent \/ netIsr.wasEmpty)
      BY <2>3 DEF EthReceiveFrame
    <3> QED
      BY <2>0, <3>1 DEF ListsNoticed
  <2> QED
    BY <1>2, <2>1, <2>2, <2>3 DEF EthInterrupt
<1>3. CASE NetPortTransmitFunction
  <2>1. /\ UNCHANGED <<caller, netIsr, rxList, rxEvent>>
        /\ \/ UNCHANGED <<txList, txEvent>>
           \/ txList = <<>> /\ txList' = <<>>
           \/ txList # <<>> /\ txEvent' = txEvent
    BY <1>3 DEF NetPortTransmitFunction, TransmitTakesFrame, EthSendFrame,
                EthSignalTxQueueFullIfNecessary, EthTxQueueFullLocked, NetworkPortNotifyTxQueueFull,
                EthSetTxTail, otherThanTx, rxVars, txVars
  <2> QED
    BY <2>1 DEF ListsNoticed
<1>4. ASSUME NEW t \in NetThreads, NetPortDeviceControl(t) PROVE ListsNoticed'
  <2>1. CASE NetDispatchSendFrame(t)
    <3>1. /\ caller[t] = "idle" /\ UNCHANGED <<netIsr, rxList, rxEvent, txEvent>>
          /\ caller' = [caller EXCEPT ![t] = IF txList = <<>> THEN "signal" ELSE "idle"]
      BY <2>1 DEF NetDispatchSendFrame, CallerAt, CallerTo, otherThanCalls, rxVars
    <3>2. txEvent' \/ \E u \in NetThreads : caller'[u] = "signal"
      <4>1. CASE txList = <<>>
        BY <3>1, <4>1 DEF NetTypes
      <4>2. CASE txList # <<>>
        BY <3>1, <4>2 DEF NetTypes, ListsNoticed
      <4> QED
        BY <4>1, <4>2
    <3> QED
      BY <3>1, <3>2 DEF ListsNoticed
  <2>2. CASE SendSignals(t)
    BY <2>2 DEF SendSignals, otherThanCalls, rxVars, ListsNoticed
  <2>3. CASE NetReceiveFrame(t) \/ \E rx, tx \in BOOLEAN : NetDispatchChangeDeviceStatus(t, rx, tx)
    <3>1. /\ UNCHANGED <<netIsr, txList, txEvent>>
          /\ \/ UNCHANGED <<rxList, rxEvent>>
             \/ rxList = <<>> /\ rxList' = <<>>
             \/ rxList # <<>> /\ rxEvent' = rxEvent
          /\ \/ caller' = caller
             \/ caller[t] # "signal" /\ \E to \in {"idle", "receive", "empty", "wait"} :
                                           caller' = [caller EXCEPT ![t] = to]
      BY <2>3 DEF NetReceiveFrame, NetDispatchReceiveFrame, ReceiveFinds, ReceiveWakes,
                  NetDispatchChangeDeviceStatus, CallerAt, CallerTo, otherThanCalls, rxVars, txVars
    <3>2. \A u \in NetThreads : caller[u] = "signal" => caller'[u] = "signal"
      BY <3>1 DEF NetTypes
    <3> QED
      BY <3>1, <3>2 DEF ListsNoticed
  <2> QED
    BY <1>4, <2>1, <2>2, <2>3 DEF NetPortDeviceControl, NetSendFrame
<1> QED
  BY <1>1, <1>2, <1>3, <1>4 DEF NetNext

\* The notice of the ring after a step that is not the transmit thread's.
LEMMA RingNoticedOthers ==
  ASSUME NetTypes, SentInOrder, TxRingExact, RingNoticed, transmitter' = transmitter,
         InTxRing' <= InTxRing, InTxRing' \in Int, txAvailable => txAvailable',
         DescriptorNoticePending'
  PROVE  RingNoticed'
<1>1. InTxRing \in Int /\ TxDescriptors \in Nat
  BY SendNumbers
<1> QED
  BY <1>1 DEF RingNoticed

\* The notice of the ring after a step of the transmit thread.
LEMMA RingNoticedTransmit ==
  ASSUME NetTypes, SentInOrder, TxRingExact, RingNoticed, NetPortTransmitFunction
  PROVE  RingNoticed'
<1>a. /\ TxDescriptors \in Nat /\ TxDescriptors >= 2 /\ InTxRing \in Int
      /\ txHead \in 0 .. TxDescriptors - 1
  BY SendNumbers, NetworkAssumption
<1>b. ~netHalted /\ UNCHANGED <<cause, netIsr>>
  BY DEF NetPortTransmitFunction, TransmitTakesFrame, EthSendFrame, EthSignalTxQueueFullIfNecessary,
         EthTxQueueFullLocked, NetworkPortNotifyTxQueueFull, EthSetTxTail, Transmitter, Up, otherThanTx
<1>1. CASE TransmitTakesFrame
  <2>1. /\ UNCHANGED <<txAvailable, txHead, txTail>>
        /\ transmitter.pc = "wait_frame"
    BY <1>1 DEF TransmitTakesFrame, Transmitter
  <2>2. transmitter' = transmitter \/ transmitter' = [pc |-> "wait_descriptor", frame |-> Head(txList)]
    BY <1>1 DEF TransmitTakesFrame
  <2>3. transmitter'.pc \in {"wait_frame", "wait_descriptor"}
    BY <2>1, <2>2
  <2>4. DescriptorNoticePending'
    BY <1>b, <2>1 DEF RingNoticed, DescriptorNoticePending
  <2> QED
    BY <2>3, <2>4 DEF RingNoticed
<1>2. CASE EthSendFrame
  <2>1. txAvailable /\ txAvailable' = txAvailable /\ transmitter'.pc = "check"
    BY <1>2 DEF EthSendFrame, TransmitterTo, NetTypes
  <2> QED
    BY <2>1 DEF RingNoticed, DescriptorNoticePending
<1>3. CASE EthSignalTxQueueFullIfNecessary
  <2>1. /\ transmitter.pc = "check" /\ transmitter'.pc \in {"lock", "tail"}
        /\ txAvailable' = txAvailable
    BY <1>3 DEF EthSignalTxQueueFullIfNecessary, Transmitter, TransmitterTo, txVars, NetTypes
  <2> QED
    BY <2>1 DEF RingNoticed, DescriptorNoticePending
<1>4. CASE EthTxQueueFullLocked
  <2>1. /\ transmitter.pc = "lock" /\ transmitter'.pc \in {"full", "unlock"}
        /\ transmitter'.pc = "full" => NextTx(txCurrent) = txHead
        /\ UNCHANGED <<txRing, txHead, txTail, txCurrent, txList, accepted, wire, netHalted, txAvailable>>
    BY <1>4 DEF EthTxQueueFullLocked, Transmitter, TransmitterTo, NetTypes
  <2>2. InTxRing' = InTxRing
    BY <2>1, SendingKept
  <2>3. transmitter'.pc = "full" => InTxRing < TxDescriptors
    <3>1. SUFFICES ASSUME NextTx(txCurrent) = txHead PROVE InTxRing < TxDescriptors
      BY <2>1
    <3>2. Untold = 1
      BY <2>1 DEF Untold
    <3>3. /\ 1 <= InTxRing /\ InTxRing <= TxDescriptors
          /\ txCurrent = Wrap(txHead + InTxRing, TxDescriptors)
      BY <1>a, <1>b, <3>2 DEF TxRingExact
    <3>4. Wrap(txCurrent + 1, TxDescriptors) = txHead
      BY <3>1, NextPlaces, SendNumbers
    <3> QED
      BY <1>a, <3>3, <3>4 DEF Wrap
  <2> QED
    BY <2>1, <2>2, <2>3 DEF RingNoticed, DescriptorNoticePending
<1>5. CASE NetworkPortNotifyTxQueueFull
  <2>1. /\ transmitter.pc \in {"full", "unlock"} /\ transmitter'.pc = "tail"
        /\ txAvailable' = (txAvailable /\ transmitter.pc # "full")
        /\ UNCHANGED <<txRing, txHead, txTail, txCurrent, txList, accepted, wire, netHalted>>
    BY <1>5 DEF NetworkPortNotifyTxQueueFull, Transmitter, TransmitterTo, NetTypes
  <2>2. InTxRing' = InTxRing
    BY <2>1, SendingKept
  <2> QED
    BY <2>1, <2>2 DEF RingNoticed, DescriptorNoticePending
<1>6. CASE EthSetTxTail
  <2>1. /\ transmitter.pc = "tail" /\ transmitter'.pc = "wait_frame" /\ txTail' = txCurrent
        /\ UNCHANGED <<txHead, txAvailable>>
    BY <1>6 DEF EthSetTxTail, Transmitter
  <2>2. ~txAvailable => txHead # txCurrent
    <3>1. SUFFICES ASSUME InTxRing < TxDescriptors PROVE txHead # txCurrent
      BY <2>1 DEF RingNoticed
    <3>2. Untold = 1
      BY <2>1 DEF Untold
    <3>3. 1 <= InTxRing /\ txCurrent = Wrap(txHead + InTxRing, TxDescriptors)
      BY <1>b, <3>2 DEF TxRingExact
    <3> QED
      BY <1>a, <3>1, <3>3 DEF Wrap
  <2> QED
    BY <2>1, <2>2 DEF RingNoticed, DescriptorNoticePending
<1> QED
  BY <1>1, <1>2, <1>3, <1>4, <1>5, <1>6 DEF NetPortTransmitFunction

\* The notice of the ring after any step.
LEMMA NextRingNoticed ==
  NetTypes /\ SentInOrder /\ TxRingExact /\ RingNoticed /\ [NetNext]_netVars => RingNoticed'
<1> SUFFICES ASSUME NetTypes, SentInOrder, TxRingExact, RingNoticed, [NetNext]_netVars
             PROVE  RingNoticed'
  OBVIOUS
<1>a. InTxRing \in Int
  BY SendNumbers
<1> DEFINE Same == UNCHANGED <<txRing, txHead, txTail, txCurrent, txList, accepted, wire, netHalted,
                               txAvailable, transmitter>>
<1>1. CASE UNCHANGED netVars \/ StackTurnsOff \/ CardReceives \/ LinkChanges
  <2>1. Same /\ netIsr' = netIsr /\ cause \subseteq cause'
    BY <1>1 DEF netVars, txVars, StackTurnsOff, CardReceives, LinkChanges
  <2>2. InTxRing' = InTxRing
    BY <2>1, SendingKept
  <2>3. DescriptorNoticePending'
    BY <2>1 DEF RingNoticed, DescriptorNoticePending
  <2> QED
    BY <1>a, <2>1, <2>2, <2>3, RingNoticedOthers
<1>2. CASE CardTransmits
  <2>1. "tx" \in cause' /\ UNCHANGED <<transmitter, txAvailable>>
    BY <1>2 DEF CardTransmits
  <2>2. InTxRing' = InTxRing - 1
    BY <1>2, SendingCardTransmits
  <2>3. DescriptorNoticePending'
    BY <2>1 DEF DescriptorNoticePending
  <2> QED
    BY <1>a, <2>1, <2>2, <2>3, RingNoticedOthers
<1>3. CASE EthInterrupt
  <2>a. txAvailable => txAvailable'
    <3>1. CASE EthHandleInterrupt \/ NetworkPortNotifyReceiveBuffer \/ EthReceiveFrame
      BY <3>1 DEF EthHandleInterrupt, NetworkPortNotifyReceiveBuffer, EthReceiveFrame, txVars
    <3>2. CASE NetworkPortNotifyTxDescriptorAvailable
      BY <3>2 DEF NetworkPortNotifyTxDescriptorAvailable
    <3> QED
      BY <1>3, <3>1, <3>2 DEF EthInterrupt
  <2>b. UNCHANGED <<txRing, txHead, txTail, txCurrent, txList, accepted, wire, netHalted, transmitter>>
    BY <1>3 DEF EthInterrupt, EthHandleInterrupt, NetworkPortNotifyReceiveBuffer, EthReceiveFrame,
                NetworkPortNotifyTxDescriptorAvailable, txVars
  <2>1. /\ UNCHANGED <<txRing, txHead, txTail, txCurrent, txList, accepted, wire, netHalted, transmitter>>
        /\ txAvailable => txAvailable'
    BY <2>a, <2>b
  <2>2. InTxRing' = InTxRing
    BY <2>1, SendingKept
  <2>3. DescriptorNoticePending'
    <3>1. CASE EthHandleInterrupt
      <4>1. "tx" \in cause => "tx" \in netIsr'.cause
        BY <3>1 DEF EthHandleInterrupt
      <4>2. "tx" \notin netIsr.cause
        BY <3>1 DEF EthHandleInterrupt, NetTypes
      <4> QED
        BY <2>1, <4>1, <4>2 DEF RingNoticed, DescriptorNoticePending
    <3>2. CASE NetworkPortNotifyReceiveBuffer \/ EthReceiveFrame
      <4>1. netIsr'.cause = netIsr.cause /\ cause' = cause
        BY <3>2 DEF NetworkPortNotifyReceiveBuffer, EthReceiveFrame, NetTypes
      <4> QED
        BY <2>1, <4>1 DEF RingNoticed, DescriptorNoticePending
    <3>3. CASE NetworkPortNotifyTxDescriptorAvailable
      <4>1. cause' = cause /\ txAvailable' = (txAvailable \/ "tx" \in netIsr.cause)
        BY <3>3 DEF NetworkPortNotifyTxDescriptorAvailable
      <4> QED
        BY <2>1, <4>1 DEF RingNoticed, DescriptorNoticePending
    <3> QED
      BY <1>3, <3>1, <3>2, <3>3 DEF EthInterrupt
  <2> QED
    BY <1>a, <2>1, <2>2, <2>3, RingNoticedOthers
<1>4. ASSUME NEW t \in NetThreads, NetPortDeviceControl(t) PROVE RingNoticed'
  <2>1. UNCHANGED <<transmitter, txHead, txTail, txAvailable, cause, netIsr>>
    BY <1>4 DEF NetPortDeviceControl, NetSendFrame, NetReceiveFrame, NetDispatchSendFrame, SendSignals,
                NetDispatchReceiveFrame, ReceiveFinds, ReceiveWakes, NetDispatchChangeDeviceStatus,
                otherThanCalls, txVars
  <2>2. InTxRing' = InTxRing
    <3>1. CASE NetDispatchSendFrame(t)
      BY <3>1, SendingAccepted
    <3>2. CASE SendSignals(t) \/ NetReceiveFrame(t)
             \/ \E rx, tx \in BOOLEAN : NetDispatchChangeDeviceStatus(t, rx, tx)
      <4>1. UNCHANGED <<txList, accepted, wire>>
        BY <3>2 DEF SendSignals, NetReceiveFrame, NetDispatchReceiveFrame, ReceiveFinds, ReceiveWakes,
                    NetDispatchChangeDeviceStatus, otherThanCalls, txVars
      <4> QED
        BY <2>1, <4>1 DEF InTxRing
    <3> QED
      BY <1>4, <3>1, <3>2 DEF NetPortDeviceControl, NetSendFrame
  <2>3. DescriptorNoticePending'
    BY <2>1 DEF RingNoticed, DescriptorNoticePending
  <2> QED
    BY <1>a, <2>1, <2>2, <2>3, RingNoticedOthers
<1> QED
  BY <1>1, <1>2, <1>3, <1>4, RingNoticedTransmit DEF NetNext

(***************************************************************************)
(* The theorems.                                                           *)
(***************************************************************************)

\* The inductive invariant.
NetInv ==
  /\ NetTypes /\ SentInOrder /\ TxRingExact /\ ReceivedInOrder /\ RxRingExact
  /\ ListsNoticed /\ RingNoticed

\* Empty rings and lists.
LEMMA InitNet == NetInit => NetInv
<1> SUFFICES ASSUME NetInit PROVE NetInv
  OBVIOUS
<1> USE DEF NetInit, EthInitializeDevice, EthRxInit, EthTxInit, EthInterruptInit,
            NetworkPortDeviceInit, NetworkPortDeviceInitRx, NetworkPortDeviceInitTx, IsrIdle
<1>a. RxDescriptors \in Nat /\ RxDescriptors >= 2 /\ TxDescriptors \in Nat /\ TxDescriptors >= 2
  BY NetworkAssumption
<1>b. /\ transmitter = [pc |-> "wait_frame", frame |-> 0]
      /\ netIsr = [pc |-> "idle", cause |-> {}, wasEmpty |-> FALSE]
  OBVIOUS
<1>c. /\ txList = <<>> /\ accepted = <<>> /\ wire = <<>>
      /\ rxList = <<>> /\ arrived = <<>> /\ delivered = <<>>
  OBVIOUS
<1>d. <<>> \in Seq(Nat) /\ Len(<<>>) = 0
  OBVIOUS
<1>e. /\ transmitter \in [ pc : {"wait_frame", "wait_descriptor", "check", "lock", "full",
                                  "unlock", "tail"}, frame : Nat ]
      /\ netIsr \in [ pc : {"idle", "rx", "rx_signal", "tx"}, cause : SUBSET {"rx", "tx", "link"},
                       wasEmpty : BOOLEAN ]
  BY <1>b
<1>f. /\ txRing \in [TxPlaces -> [frame : Nat, done : BOOLEAN]]
      /\ rxRing \in [RxPlaces -> Nat]
  BY DEF TxPlaces, RxPlaces
<1>g. /\ txHead \in TxPlaces /\ txTail \in TxPlaces /\ txCurrent \in TxPlaces
      /\ rxHead \in RxPlaces /\ rxTail \in RxPlaces /\ rxCurrent \in RxPlaces
  BY <1>a DEF TxPlaces, RxPlaces
<1>1. NetTypes
  BY <1>b, <1>c, <1>d, <1>e, <1>f, <1>g DEF NetTypes
<1>h. transmitter.pc = "wait_frame" /\ netIsr.pc = "idle"
  BY <1>b
<1>i. /\ Len(txList) = 0 /\ Len(accepted) = 0 /\ Len(wire) = 0
      /\ Len(rxList) = 0 /\ Len(arrived) = 0 /\ Len(delivered) = 0
  BY <1>c, <1>d
<1>2. InTxRing = 0 /\ Untold = 0 /\ InRxRing = 0 /\ Unreturned = 0
  <2>1. Untold = 0 /\ Unreturned = 0
    BY <1>h DEF Untold, Unreturned
  <2>2. InTxRing = 0
    <3> HIDE DEF NetInit
    <3> QED
      BY <1>h, <1>i DEF InTxRing
  <2>3. InRxRing = 0
    <3> HIDE DEF NetInit
    <3> QED
      BY <1>i, <2>1 DEF InRxRing
  <2> QED
    BY <2>1, <2>2, <2>3
<1>3. SentInOrder /\ ReceivedInOrder
  BY DEF SentInOrder, ReceivedInOrder
<1>4. TxRingExact
  BY <1>a, <1>2 DEF TxRingExact, Wrap
<1>5. RxRingExact
  <2>1. \A k \in 0 .. RxDescriptors - 1 : Wrap(rxCurrent + k, RxDescriptors) = k
    BY <1>a DEF Wrap
  <2> QED
    BY <1>a, <1>2, <2>1 DEF RxRingExact, Wrap
<1>6. ListsNoticed /\ RingNoticed
  BY <1>a DEF ListsNoticed, RingNoticed, DescriptorNoticePending
<1> QED
  BY <1>1, <1>3, <1>4, <1>5, <1>6 DEF NetInv

LEMMA NetInductive == NetInit /\ [][NetNext]_netVars => []NetInv
<1>1. NetInv /\ [NetNext]_netVars => NetInv'
  BY NextNetTypes, NextSending, NextReceiving, NextListsNoticed, NextRingNoticed DEF NetInv
<1> QED
  BY <1>1, InitNet, PTL

\* Two sequences of numbers that count from one: the shorter is a prefix.
LEMMA CountsFromOne ==
  ASSUME NEW s \in Seq(Nat), NEW u \in Seq(Nat), Len(s) <= Len(u),
         \A i \in 1 .. Len(s) : s[i] = i, \A i \in 1 .. Len(u) : u[i] = i
  PROVE  IsPrefix(s, u)
<1>1. Len(s) \in Nat /\ Len(u) \in Nat
  OBVIOUS
<1>2. \A i \in 1 .. Len(s) : u[i] = s[i]
  BY <1>1
<1> DEFINE p == SubSeq(s, 1, Len(s))
           q == SubSeq(u, 1, Len(s))
<1>3. p \in Seq(Nat) /\ q \in Seq(Nat)
  OBVIOUS
<1>4. Len(p) = Len(s) /\ Len(q) = Len(s)
  BY <1>1
<1>5. \A i \in 1 .. Len(s) : p[i] = s[i] /\ q[i] = u[i]
  BY <1>1
<1>6. \A i \in 1 .. Len(p) : p[i] = q[i]
  BY <1>2, <1>4, <1>5
<1> HIDE DEF p, q
<1>7. p = q
  BY <1>3, <1>4, <1>6, SeqEqual
<1> QED
  BY <1>7 DEF IsPrefix, p, q

\* Frames leave in the order in which NetSendFrame accepted them and reach
\* the callers of NetReceiveFrame in the order in which the card stored them:
\* none twice, none skipped, for rings of any size, any number of threads and
\* any interleaving of card, interrupt handler and transmit thread.
THEOREM FramesSafe == NetInit /\ [][NetNext]_netVars => []FramesInOrder
<1>1. ASSUME NetInv PROVE FramesInOrder
  <2>1. /\ accepted \in Seq(Nat) /\ wire \in Seq(Nat) /\ arrived \in Seq(Nat) /\ delivered \in Seq(Nat)
    BY <1>1 DEF NetInv, NetTypes
  <2>2. IsPrefix(wire, accepted)
    BY <1>1, <2>1, CountsFromOne DEF NetInv, SentInOrder
  <2>3. Len(delivered) <= Len(arrived)
    BY <1>1, ReceiveNumbers DEF NetInv, RxRingExact, InRxRing
  <2>4. IsPrefix(delivered, arrived)
    BY <1>1, <2>1, <2>3, CountsFromOne DEF NetInv, ReceivedInOrder
  <2> QED
    BY <2>2, <2>4 DEF FramesInOrder
<1> QED
  BY <1>1, NetInductive, PTL

\* While a list holds frames its event is set or about to be, and while the
\* notice of free descriptors is clear the card has a frame to send or its
\* interrupt is pending: nobody sleeps on work that is there.
THEOREM NoticesSafe == NetInit /\ [][NetNext]_netVars => []NoticesPending
<1>1. NetInv => NoticesPending
  BY DEF NetInv, ListsNoticed, RingNoticed, NoticesPending, FramesAnnounced
<1> QED
  BY <1>1, NetInductive, PTL

(***************************************************************************)
(* The system time.                                                        *)
(***************************************************************************)

TimePlaces == {"out", "last", "idle", "store", "clear", "ready", "wake", "restore"}
CoreRecord == [pc : TimePlaces, idle : BOOLEAN, systemTimeUs : Nat]
WaitRecord == [pc : {"out", "wait"}, trigger : Nat, stopped : BOOLEAN]

TimeTypes ==
  /\ UptimeSeconds \in Nat /\ UptimeMicroseconds \in Nat
  /\ ReadyThreadUs \in Nat /\ highest \in Nat
  /\ core \in [CoreCpus -> CoreRecord]
  /\ waits \in [TimerThreads -> WaitRecord]
  /\ timer.TriggerTimeUs \in Nat
  /\ DOMAIN timer = DOMAIN NoTimer

\* The RTC writes the next second; whatever was read or derived from the
\* time is in the past.
TimePast ==
  /\ rtc # NoRtc => rtc.newSecCount = UptimeSeconds + 1
  /\ highest <= IomuGetSystemTimeUs
  /\ ReadyThreadUs <= IomuGetSystemTimeUs
  /\ \A c \in CoreCpus : core[c].systemTimeUs <= IomuGetSystemTimeUs
  /\ WaitsLongEnough

TimeInv == TimeTypes /\ TimePast

LEMMA ProductNat == \A a, b \in Nat : a * b \in Nat
OBVIOUS

\* The time is a natural number.
LEMMA TimeIsNat ==
  ASSUME TimeTypes
  PROVE  IomuGetSystemTimeUs \in Nat
<1>1. UptimeSeconds \in Nat /\ UptimeMicroseconds \in Nat /\ SecondUs \in Nat
  BY TimeAssumption DEF TimeTypes
<1>2. UptimeSeconds * SecondUs \in Nat
  BY <1>1
<1> QED
  BY <1>1, <1>2 DEF IomuGetSystemTimeUs

LEMMA LaterIsNat ==
  ASSUME TimeTypes'
  PROVE  IomuGetSystemTimeUs' \in Nat
<1>1. UptimeSeconds' \in Nat /\ UptimeMicroseconds' \in Nat /\ SecondUs \in Nat
  BY TimeAssumption DEF TimeTypes
<1> DEFINE s == UptimeSeconds' * SecondUs
<1>2. s \in Nat
  <2> HIDE DEF s
  <2>1. \A a \in Nat : a * SecondUs \in Nat
    BY <1>1, ProductNat
  <2> QED
    BY <1>1, <2>1 DEF s
<1> DEFINE us == IF UptimeMicroseconds' >= SecondUs THEN SecondUs ELSE UptimeMicroseconds'
<1>3. us \in Nat
  BY <1>1
<1>4. IomuGetSystemTimeUs' = s + us
  BY DEF IomuGetSystemTimeUs
<1> HIDE DEF s, us
<1>5. s + us \in Nat
  BY <1>2, <1>3
<1> QED
  BY <1>4, <1>5

\* A tick: a second that the RTC has not ended is at most a second.
LEMMA TickAdvances ==
  ASSUME TimeTypes, NEW c \in TimeCpus, SystemTickInterrupt(c)
  PROVE  /\ UptimeMicroseconds' \in Nat /\ UNCHANGED UptimeSeconds
         /\ IomuGetSystemTimeUs <= IomuGetSystemTimeUs'
<1>1. TimeUpdatePerCpuUs \in Nat
  <2>1. Cardinality(TimeCpus) \in Nat \ {0}
    BY TimeAssumption, FS_CardinalityType, FS_EmptySet
  <2>2. TimerInterruptTimeUs \in Nat
    BY TimeAssumption
  <2> QED
    BY <2>1, <2>2, QuotientMonotone DEF TimeUpdatePerCpuUs
<1>2. /\ UptimeMicroseconds' = UptimeMicroseconds + TimeUpdatePerCpuUs
      /\ UptimeSeconds' = UptimeSeconds
  BY DEF SystemTickInterrupt
<1>3. UptimeSeconds \in Nat /\ UptimeMicroseconds \in Nat /\ SecondUs \in Nat
  BY TimeAssumption DEF TimeTypes
<1>4. UptimeSeconds * SecondUs \in Nat
  BY <1>3
<1> DEFINE s == UptimeSeconds * SecondUs
<1>5. /\ IomuGetSystemTimeUs = s + (IF UptimeMicroseconds >= SecondUs THEN SecondUs ELSE UptimeMicroseconds)
      /\ IomuGetSystemTimeUs' = s + (IF UptimeMicroseconds' >= SecondUs THEN SecondUs ELSE UptimeMicroseconds')
  BY <1>2 DEF IomuGetSystemTimeUs
<1> HIDE DEF s
<1> QED
  BY <1>1, <1>2, <1>3, <1>4, <1>5 DEF s

\* The RTC: whatever the ticks had counted was not more than the second.
LEMMA RtcAdvances ==
  ASSUME TimeTypes, TimePast, CmosUpdateWrites
  PROVE  /\ UptimeMicroseconds' \in Nat /\ UptimeSeconds' \in Nat
         /\ IomuGetSystemTimeUs <= IomuGetSystemTimeUs'
<1>1. UptimeSeconds' = UptimeSeconds + 1 /\ UptimeMicroseconds' = 0
  BY DEF CmosUpdateWrites, TimePast
<1>3. UptimeSeconds \in Nat /\ UptimeMicroseconds \in Nat /\ SecondUs \in Nat
  BY TimeAssumption DEF TimeTypes
<1> DEFINE s == UptimeSeconds * SecondUs
<1>4. s \in Nat /\ (UptimeSeconds + 1) * SecondUs = s + SecondUs
  BY <1>3
<1>5. /\ IomuGetSystemTimeUs = s + (IF UptimeMicroseconds >= SecondUs THEN SecondUs ELSE UptimeMicroseconds)
  BY DEF IomuGetSystemTimeUs
<1>6. IomuGetSystemTimeUs' = (UptimeSeconds + 1) * SecondUs + (IF 0 >= SecondUs THEN SecondUs ELSE 0)
  BY <1>1 DEF IomuGetSystemTimeUs
<1> HIDE DEF s
<1> QED
  BY <1>1, <1>3, <1>4, <1>5, <1>6

\* What was in the past stays there.
LEMMA PastKept ==
  ASSUME TimeInv, TimeTypes', IomuGetSystemTimeUs <= IomuGetSystemTimeUs',
         rtc' # NoRtc => rtc'.newSecCount = UptimeSeconds' + 1,
         highest' \in {highest, IomuGetSystemTimeUs},
         \/ ReadyThreadUs' = ReadyThreadUs
         \/ \E c \in CoreCpus : ReadyThreadUs' = core[c].systemTimeUs,
         \A c \in CoreCpus : core'[c].systemTimeUs \in {core[c].systemTimeUs, 0, IomuGetSystemTimeUs},
         \A t \in TimerThreads :
           \/ waits'[t] = waits[t]
           \/ waits'[t].pc = "out" /\ ~waits'[t].stopped => waits'[t].trigger <= IomuGetSystemTimeUs
  PROVE  TimeInv'
<1>1. IomuGetSystemTimeUs \in Nat /\ IomuGetSystemTimeUs' \in Nat
  <2>1. IomuGetSystemTimeUs \in Nat
    BY TimeIsNat DEF TimeInv
  <2>2. IomuGetSystemTimeUs' \in Nat
    BY LaterIsNat
  <2> QED
    BY <2>1, <2>2
<1> DEFINE now == IomuGetSystemTimeUs
           later == IomuGetSystemTimeUs'
<1>2. now <= later /\ now \in Nat /\ later \in Nat
  BY <1>1
<1>3. /\ highest <= now /\ ReadyThreadUs <= now /\ \A c \in CoreCpus : core[c].systemTimeUs <= now
      /\ \A t \in TimerThreads : waits[t].pc = "out" /\ ~waits[t].stopped => waits[t].trigger <= now
  BY DEF TimeInv, TimePast, WaitsLongEnough
<1>4. /\ highest \in Nat /\ ReadyThreadUs \in Nat /\ \A c \in CoreCpus : core[c].systemTimeUs \in Nat
      /\ \A t \in TimerThreads : waits[t].trigger \in Nat /\ waits'[t].trigger \in Nat
  <2>1. /\ highest \in Nat /\ ReadyThreadUs \in Nat
    BY DEF TimeInv, TimeTypes
  <2>2. \A c \in CoreCpus : core[c] \in CoreRecord
    BY DEF TimeInv, TimeTypes
  <2>3. \A t \in TimerThreads : waits[t] \in WaitRecord /\ waits'[t] \in WaitRecord
    BY DEF TimeInv, TimeTypes
  <2> QED
    BY <2>1, <2>2, <2>3 DEF CoreRecord, WaitRecord
<1> HIDE DEF now, later
<1>5. highest' <= later
  BY <1>2, <1>3, <1>4 DEF now
<1>6. ReadyThreadUs' <= later
  BY <1>2, <1>3, <1>4
<1>7. \A c \in CoreCpus : core'[c].systemTimeUs <= later
  BY <1>2, <1>3, <1>4 DEF now
<1>8. \A t \in TimerThreads : waits'[t].pc = "out" /\ ~waits'[t].stopped => waits'[t].trigger <= later
  BY <1>2, <1>3, <1>4 DEF now
<1> QED
  BY <1>5, <1>6, <1>7, <1>8 DEF TimeInv, TimePast, WaitsLongEnough, later

\* What a step does to one processor's record.
LEMMA CoreUpdates ==
  ASSUME TimeTypes, NEW c \in CoreCpus, NEW r \in CoreRecord, core' = [core EXCEPT ![c] = r]
  PROVE  /\ core' \in [CoreCpus -> CoreRecord]
         /\ core'[c] = r /\ \A d \in CoreCpus \ {c} : core'[d] = core[d]
BY DEF TimeTypes

\* The record with another place, and the empty one.
LEMMA CoreGoesOn ==
  ASSUME NEW r \in CoreRecord, NEW p \in TimePlaces
  PROVE  /\ [r EXCEPT !.pc = p] \in CoreRecord
         /\ [r EXCEPT !.pc = p].pc = p /\ [r EXCEPT !.pc = p].systemTimeUs = r.systemTimeUs
         /\ [r EXCEPT !.pc = p].idle = r.idle
         /\ Out \in CoreRecord /\ Out.pc = "out" /\ Out.systemTimeUs = 0
BY DEF CoreRecord, Out, TimePlaces

\* Every step of CoreUpdateIdleTime: the processor reads the time, keeps it,
\* or has done.
LEMMA CoreStepForm ==
  ASSUME TimeInv, NEW c \in CoreCpus, CoreStep(c)
  PROVE  /\ UNCHANGED <<clockVars, timerVars>>
         /\ \/ \E idle \in BOOLEAN : CoreUpdateIdleTime(c, idle)
            \/ /\ highest' = highest
               /\ \/ core' = [core EXCEPT ![c] = Out]
                  \/ \E p \in TimePlaces : core' = [core EXCEPT ![c] = [core[c] EXCEPT !.pc = p]]
               /\ ReadyThreadUs' \in {ReadyThreadUs, core[c].systemTimeUs}
<1>1. CASE \E idle \in BOOLEAN : CoreUpdateIdleTime(c, idle)
  BY <1>1 DEF CoreUpdateIdleTime
<1>2. CASE LastActivityRead(c)
  BY <1>2 DEF LastActivityRead, TimePlaces
<1>3. CASE BecomesIdle(c)
  BY <1>3 DEF BecomesIdle, TimePlaces, CoreTo
<1>4. CASE CoreSystemIdle(c)
  BY <1>4 DEF CoreSystemIdle, TimePlaces, CoreTo
<1>5. CASE LastActivityWritten(c)
  BY <1>5 DEF LastActivityWritten, TimePlaces, CoreTo
<1>6. CASE EndsIdle(c)
  BY <1>6 DEF EndsIdle, TimePlaces, CoreTo
<1>7. CASE CoreSystemRevertFromIdle(c)
  BY <1>7 DEF CoreSystemRevertFromIdle
<1> QED
  BY <1>1, <1>2, <1>3, <1>4, <1>5, <1>6, <1>7 DEF CoreStep

\* The time has been read.
LEMMA SeenNow ==
  ASSUME TimeInv, Seen
  PROVE  highest' \in {highest, IomuGetSystemTimeUs} /\ highest' \in Nat
BY TimeIsNat DEF Seen, TimeInv, TimeTypes

LEMMA CoreStepKeepsTime ==
  ASSUME TimeInv, NEW c \in CoreCpus, CoreStep(c)
  PROVE  TimeInv'
<1>1. UNCHANGED <<clockVars, timerVars>>
  BY CoreStepForm
<1>2. IomuGetSystemTimeUs' = IomuGetSystemTimeUs /\ IomuGetSystemTimeUs \in Nat
  BY <1>1, TimeIsNat DEF clockVars, IomuGetSystemTimeUs, TimeInv
<1>3. core[c] \in CoreRecord
  BY DEF TimeInv, TimeTypes
<1>4. core[c].systemTimeUs \in Nat
  BY <1>3 DEF CoreRecord
<1>5. /\ highest' \in {highest, IomuGetSystemTimeUs} /\ highest' \in Nat
      /\ core' \in [CoreCpus -> CoreRecord]
      /\ ReadyThreadUs' \in {ReadyThreadUs, core[c].systemTimeUs}
      /\ \A d \in CoreCpus : core'[d].systemTimeUs \in {core[d].systemTimeUs, 0, IomuGetSystemTimeUs}
  <2>1. CASE \E idle \in BOOLEAN : CoreUpdateIdleTime(c, idle)
    <3>1. PICK idle \in BOOLEAN : CoreUpdateIdleTime(c, idle)
      BY <2>1
    <3> DEFINE r == [pc |-> "last", idle |-> idle, systemTimeUs |-> IomuGetSystemTimeUs]
    <3>2. r \in CoreRecord /\ r.systemTimeUs = IomuGetSystemTimeUs
      BY <1>2 DEF CoreRecord, TimePlaces
    <3>3. core' = [core EXCEPT ![c] = r] /\ ReadyThreadUs' = ReadyThreadUs /\ Seen
      BY <3>1 DEF CoreUpdateIdleTime
    <3> HIDE DEF r
    <3>4. core' \in [CoreCpus -> CoreRecord] /\ core'[c] = r /\ \A d \in CoreCpus \ {c} : core'[d] = core[d]
      BY <3>2, <3>3, CoreUpdates DEF TimeInv
    <3> QED
      BY <3>2, <3>3, <3>4, SeenNow
  <2>2. CASE /\ highest' = highest
             /\ \/ core' = [core EXCEPT ![c] = Out]
                \/ \E p \in TimePlaces : core' = [core EXCEPT ![c] = [core[c] EXCEPT !.pc = p]]
             /\ ReadyThreadUs' \in {ReadyThreadUs, core[c].systemTimeUs}
    <3>1. ASSUME NEW r \in CoreRecord, r.systemTimeUs \in {0, core[c].systemTimeUs},
                 core' = [core EXCEPT ![c] = r]
          PROVE  /\ core' \in [CoreCpus -> CoreRecord]
                 /\ \A d \in CoreCpus : core'[d].systemTimeUs \in {core[d].systemTimeUs, 0}
      <4>1. core' \in [CoreCpus -> CoreRecord] /\ core'[c] = r /\ \A d \in CoreCpus \ {c} : core'[d] = core[d]
        BY <3>1, CoreUpdates DEF TimeInv
      <4> QED
        BY <3>1, <4>1
    <3>2. CASE core' = [core EXCEPT ![c] = Out]
      <4>1. Out \in CoreRecord /\ Out.systemTimeUs = 0
        BY DEF Out, CoreRecord, TimePlaces
      <4> QED
        BY <2>2, <3>1, <3>2, <4>1 DEF TimeInv, TimeTypes
    <3>3. CASE \E p \in TimePlaces : core' = [core EXCEPT ![c] = [core[c] EXCEPT !.pc = p]]
      <4>1. PICK p \in TimePlaces : core' = [core EXCEPT ![c] = [core[c] EXCEPT !.pc = p]]
        BY <3>3
      <4>2. /\ [core[c] EXCEPT !.pc = p] \in CoreRecord
            /\ [core[c] EXCEPT !.pc = p].systemTimeUs = core[c].systemTimeUs
        BY <1>3, CoreGoesOn
      <4> QED
        BY <2>2, <3>1, <4>1, <4>2 DEF TimeInv, TimeTypes
    <3> QED
      BY <2>2, <3>2, <3>3
  <2> QED
    BY <2>1, <2>2, CoreStepForm
<1>6. TimeTypes'
  BY <1>1, <1>4, <1>5 DEF TimeInv, TimeTypes, clockVars, timerVars
<1>7. rtc' # NoRtc => rtc'.newSecCount = UptimeSeconds' + 1
  BY <1>1 DEF TimeInv, TimePast, clockVars
<1>8. \A t \in TimerThreads : waits'[t] = waits[t]
  BY <1>1 DEF timerVars
<1>9. IomuGetSystemTimeUs <= IomuGetSystemTimeUs'
  BY <1>2
<1> QED
  BY <1>5, <1>6, <1>7, <1>8, <1>9, PastKept

\* Ticks and the RTC.
LEMMA ClockKeepsTime ==
  ASSUME TimeInv,
         (\E c \in TimeCpus : SystemTickInterrupt(c) \/ CmosUpdateOccurred(c)) \/ CmosUpdateWrites
  PROVE  TimeInv'
<1>1. UNCHANGED <<coreVars, timerVars, highest>>
  BY DEF SystemTickInterrupt, CmosUpdateOccurred, CmosUpdateWrites
<1>2. /\ UptimeSeconds' \in Nat /\ UptimeMicroseconds' \in Nat
      /\ IomuGetSystemTimeUs <= IomuGetSystemTimeUs'
      /\ rtc' # NoRtc => rtc'.newSecCount = UptimeSeconds' + 1
  <2>1. ASSUME NEW c \in TimeCpus, SystemTickInterrupt(c)
        PROVE  /\ UptimeSeconds' \in Nat /\ UptimeMicroseconds' \in Nat
               /\ IomuGetSystemTimeUs <= IomuGetSystemTimeUs'
               /\ rtc' # NoRtc => rtc'.newSecCount = UptimeSeconds' + 1
    <3>1. rtc' = rtc
      BY <2>1 DEF SystemTickInterrupt
    <3> QED
      BY <2>1, <3>1, TickAdvances DEF TimeInv, TimeTypes, TimePast
  <2>2. CASE CmosUpdateWrites
    <3>1. rtc' = NoRtc
      BY <2>2 DEF CmosUpdateWrites
    <3> QED
      BY <2>2, <3>1, RtcAdvances DEF TimeInv
  <2>3. ASSUME NEW c \in TimeCpus, CmosUpdateOccurred(c)
        PROVE  /\ UptimeSeconds' \in Nat /\ UptimeMicroseconds' \in Nat
               /\ IomuGetSystemTimeUs <= IomuGetSystemTimeUs'
               /\ rtc' # NoRtc => rtc'.newSecCount = UptimeSeconds' + 1
    <3>1. /\ UNCHANGED <<UptimeSeconds, UptimeMicroseconds>> /\ rtc'.newSecCount = UptimeSeconds + 1
      BY <2>3 DEF CmosUpdateOccurred
    <3>2. IomuGetSystemTimeUs' = IomuGetSystemTimeUs /\ IomuGetSystemTimeUs \in Nat
      BY <3>1, TimeIsNat DEF IomuGetSystemTimeUs, TimeInv
    <3> QED
      BY <3>1, <3>2 DEF TimeInv, TimeTypes
  <2> QED
    BY <2>1, <2>2, <2>3
<1>3. TimeTypes'
  BY <1>1, <1>2 DEF TimeInv, TimeTypes, coreVars, timerVars
<1> QED
  BY <1>1, <1>2, <1>3, PastKept DEF coreVars, timerVars

\* The executive timer.
LEMMA TimerKeepsTime ==
  ASSUME TimeInv,
         \/ \E type \in TimerTypes, us \in TimerTimes : ExTimerInit(type, us)
         \/ ExTimerStart \/ ExTimerStop \/ ExTimerUninit
         \/ \E t \in TimerThreads : ExTimerWait(t) \/ WaitEnds(t)
  PROVE  TimeInv'
<1>1. UNCHANGED <<clockVars, coreVars>>
  BY DEF ExTimerInit, ExTimerStart, ExTimerStop, ExTimerUninit, ExTimerWait, WaitEnds
<1>2. IomuGetSystemTimeUs' = IomuGetSystemTimeUs /\ IomuGetSystemTimeUs \in Nat
  BY <1>1, TimeIsNat DEF clockVars, IomuGetSystemTimeUs, TimeInv
<1>3. timer.TriggerTimeUs \in Nat /\ waits \in [TimerThreads -> WaitRecord] /\ highest \in Nat
      /\ DOMAIN timer = DOMAIN NoTimer
  BY DEF TimeInv, TimeTypes
<1>4. /\ highest' \in {highest, IomuGetSystemTimeUs} /\ highest' \in Nat
      /\ timer'.TriggerTimeUs \in Nat /\ DOMAIN timer' = DOMAIN NoTimer
      /\ waits' \in [TimerThreads -> WaitRecord]
      /\ \A t \in TimerThreads :
           \/ waits'[t] = waits[t]
           \/ waits'[t].pc = "out" /\ ~waits'[t].stopped => waits'[t].trigger <= IomuGetSystemTimeUs
  <2>1. ASSUME NEW type \in TimerTypes, NEW us \in TimerTimes, ExTimerInit(type, us) PROVE <1>4!:
    <3>1. us \in Nat
      BY TimeAssumption
    <3>2. /\ Seen /\ waits' = [t \in TimerThreads |-> NoWait]
          /\ timer' = [Type |-> type, TimerStarted |-> FALSE, TimerUninited |-> FALSE,
                      TriggerTimeUs |-> IF type = "Absolute" THEN us ELSE IomuGetSystemTimeUs + us]
      BY <2>1 DEF ExTimerInit
    <3>3. timer'.TriggerTimeUs \in Nat
      BY <1>2, <3>1, <3>2
    <3>4. DOMAIN timer' = DOMAIN NoTimer
      BY <3>2 DEF NoTimer
    <3>5. NoWait \in WaitRecord /\ NoWait.trigger = 0
      BY DEF NoWait, WaitRecord
    <3> QED
      BY <1>2, <3>2, <3>3, <3>4, <3>5, SeenNow
  <2>2. ASSUME ExTimerStart \/ ExTimerStop \/ ExTimerUninit PROVE <1>4!:
    <3>1. "TriggerTimeUs" \in DOMAIN timer
      BY <1>3 DEF NoTimer
    <3>2. timer'.TriggerTimeUs = timer.TriggerTimeUs /\ DOMAIN timer' = DOMAIN timer
      BY <2>2, <3>1 DEF ExTimerStart, ExTimerStop, ExTimerUninit
    <3>3. UNCHANGED <<waits, highest>>
      BY <2>2 DEF ExTimerStart, ExTimerStop, ExTimerUninit
    <3> QED
      BY <1>3, <3>2, <3>3
  <2>3. ASSUME NEW t \in TimerThreads, ExTimerWait(t) PROVE <1>4!:
    <3> DEFINE w == [NoWait EXCEPT !.pc = "wait"]
    <3>1. w \in WaitRecord /\ w.pc = "wait"
      BY DEF NoWait, WaitRecord
    <3>2. waits' = [waits EXCEPT ![t] = w] /\ UNCHANGED <<timer, highest>>
      BY <2>3 DEF ExTimerWait
    <3> HIDE DEF w
    <3> QED
      BY <1>3, <3>1, <3>2
  <2>4. ASSUME NEW t \in TimerThreads, WaitEnds(t) PROVE <1>4!:
    <3> DEFINE w == [pc |-> "out", trigger |-> timer.TriggerTimeUs,
                     stopped |-> IomuGetSystemTimeUs < timer.TriggerTimeUs]
    <3>1. w \in WaitRecord /\ (~w.stopped => w.trigger <= IomuGetSystemTimeUs)
      <4>1. (IomuGetSystemTimeUs < timer.TriggerTimeUs) \in BOOLEAN
        OBVIOUS
      <4>2. w \in WaitRecord
        BY <1>3, <4>1 DEF WaitRecord
      <4>3. w.trigger = timer.TriggerTimeUs
        OBVIOUS
      <4>4. CASE IomuGetSystemTimeUs < timer.TriggerTimeUs
        <5>1. w.stopped
          BY <4>4
        <5> QED
          BY <4>2, <5>1
      <4>5. CASE ~(IomuGetSystemTimeUs < timer.TriggerTimeUs)
        <5> HIDE DEF w
        <5> QED
          BY <1>2, <1>3, <4>2, <4>3, <4>5
      <4> QED
        BY <4>4, <4>5
    <3>2. waits' = [waits EXCEPT ![t] = w] /\ UNCHANGED timer /\ Seen
      BY <2>4 DEF WaitEnds
    <3> HIDE DEF w
    <3> QED
      BY <1>3, <3>1, <3>2, SeenNow
  <2> QED
    BY <2>1, <2>2, <2>3, <2>4
<1>5. TimeTypes'
  BY <1>1, <1>4 DEF TimeInv, TimeTypes, clockVars, coreVars
<1>6. rtc' # NoRtc => rtc'.newSecCount = UptimeSeconds' + 1
  BY <1>1 DEF TimeInv, TimePast, clockVars
<1>7. IomuGetSystemTimeUs <= IomuGetSystemTimeUs'
  BY <1>2
<1>8. ReadyThreadUs' = ReadyThreadUs /\ core' = core
  BY <1>1 DEF coreVars
<1> QED
  BY <1>4, <1>5, <1>6, <1>7, <1>8, PastKept

LEMMA TimeInitInv == TimeInit => TimeInv
<1> SUFFICES ASSUME TimeInit PROVE TimeInv
  OBVIOUS
<1>1. Out \in CoreRecord /\ Out.systemTimeUs = 0 /\ NoWait \in WaitRecord /\ NoWait.trigger = 0
      /\ NoTimer.TriggerTimeUs = 0
  BY DEF Out, CoreRecord, TimePlaces, NoWait, WaitRecord, NoTimer
<1>2. TimeTypes
  BY <1>1 DEF TimeInit, TimeTypes
<1>3. IomuGetSystemTimeUs \in Nat
  BY <1>2, TimeIsNat
<1>4. \A c \in CoreCpus : core[c].systemTimeUs = 0
  BY <1>1 DEF TimeInit
<1>5. \A t \in TimerThreads : waits[t].trigger = 0
  BY <1>1 DEF TimeInit
<1> QED
  BY <1>2, <1>3, <1>4, <1>5 DEF TimeInit, TimeInv, TimePast, WaitsLongEnough

LEMMA TimeNextInv == TimeInv /\ [TimeNext]_timeVars => TimeInv'
<1> SUFFICES ASSUME TimeInv, [TimeNext]_timeVars PROVE TimeInv'
  OBVIOUS
<1>1. ASSUME UNCHANGED <<clockVars, timerVars, highest, ReadyThreadUs, core>> PROVE TimeInv'
  BY <1>1 DEF TimeInv, TimeTypes, TimePast, WaitsLongEnough, IomuGetSystemTimeUs, clockVars, timerVars
<1>2. CASE UNCHANGED timeVars
  BY <1>1, <1>2 DEF timeVars, coreVars
<1>3. ASSUME NEW us \in IdlePeriods, CoreSetIdlePeriod(us) PROVE TimeInv'
  BY <1>1, <1>3 DEF CoreSetIdlePeriod
<1> QED
  BY <1>2, <1>3, ClockKeepsTime, CoreStepKeepsTime, TimerKeepsTime DEF TimeNext

\* However ticks, the RTC and the processors interleave, the system time
\* never runs backwards (IomuGetSystemTimeUs, _IomuUpdateSystemTime), the last
\* activity is never in its future, and a wait on a timer that nobody stopped
\* (ExTimerWait) does not end early: for any number of processors and
\* threads and every period of the tick.
THEOREM TimeNeverBack ==
  TimeInit /\ [][TimeNext]_timeVars => [](TimeMonotonic /\ WaitsLongEnough)
<1>1. TimeInv => TimeMonotonic /\ WaitsLongEnough
  BY DEF TimeInv, TimePast, TimeMonotonic
<1> QED
  BY <1>1, TimeInitInv, TimeNextInv, PTL

\* The places of CoreUpdateIdleTime where a processor saves, clears or
\* restores the display.
Changing == {"store", "clear", "restore"}

\* The system becomes idle or ends its idle state only when the display is
\* not being saved, cleared or restored by another processor.  There is no
\* lock that would see to that.
OneChangesScreen ==
  SystemIdle' # SystemIdle => \A d \in CoreCpus : core[d].pc \notin Changing

\* A processor that finds a later activity than its time has not read the
\* time longer ago than a tick of the timer.
ComparedInTime ==
  \A c \in CoreCpus :
    LastActivityRead(c) /\ core[c].systemTimeUs < ReadyThreadUs =>
      IomuGetSystemTimeUs <= core[c].systemTimeUs + TimerInterruptTimeUs

\* One processor at a time changes the display; what is on the screen and in
\* the buffer where it is, and when none does.
ScreenInv ==
  /\ SystemIdle \in BOOLEAN
  /\ \A c, d \in CoreCpus : {core[c].pc, core[d].pc} \subseteq Changing => c = d
  /\ \A c \in CoreCpus :
       /\ core[c].pc = "store" => SystemIdle /\ screen = "content"
       /\ core[c].pc = "clear" => SystemIdle /\ DisplayBuffer = "content"
       /\ core[c].pc = "restore" => ~SystemIdle /\ DisplayBuffer = "content"
  /\ (\A c \in CoreCpus : core[c].pc \notin Changing) =>
       IF SystemIdle THEN screen = "blank" /\ DisplayBuffer = "content" ELSE screen = "content"

\* A processor that does not change the display goes on, and leaves it and
\* the idle state as they are.
LEMMA ScreenLeft ==
  ASSUME ScreenInv, NEW c \in CoreCpus, core[c].pc \notin Changing, core'[c].pc \notin Changing,
         \A d \in CoreCpus \ {c} : core'[d] = core[d], UNCHANGED <<SystemIdle, screen, DisplayBuffer>>
  PROVE  ScreenInv'
<1>1. \A d \in CoreCpus : core'[d].pc \in Changing <=> core[d].pc \in Changing
  OBVIOUS
<1>2. \A d \in CoreCpus : core'[d].pc \in Changing => core'[d].pc = core[d].pc
  OBVIOUS
<1>3. \A d, e \in CoreCpus : {core'[d].pc, core'[e].pc} \subseteq Changing => d = e
  BY <1>1 DEF ScreenInv
<1> QED
  BY <1>1, <1>2, <1>3 DEF ScreenInv, Changing

\* A processor that changes the display, or is about to, is the only one.
LEMMA ScreenTaken ==
  ASSUME ScreenInv, NEW c \in CoreCpus, \A d \in CoreCpus \ {c} : core[d].pc \notin Changing,
         \A d \in CoreCpus \ {c} : core'[d] = core[d], SystemIdle' \in BOOLEAN,
         core'[c].pc = "store" => SystemIdle' /\ screen' = "content",
         core'[c].pc = "clear" => SystemIdle' /\ DisplayBuffer' = "content",
         core'[c].pc = "restore" => ~SystemIdle' /\ DisplayBuffer' = "content",
         core'[c].pc \notin Changing =>
           IF SystemIdle' THEN screen' = "blank" /\ DisplayBuffer' = "content" ELSE screen' = "content"
  PROVE  ScreenInv'
<1>1. \A d \in CoreCpus \ {c} : core'[d].pc \notin Changing
  OBVIOUS
<1>2. \A d, e \in CoreCpus : {core'[d].pc, core'[e].pc} \subseteq Changing => d = e
  BY <1>1
<1> QED
  BY <1>1, <1>2 DEF ScreenInv, Changing

LEMMA ScreenStep ==
  ASSUME TimeInv, ScreenInv, NEW c \in CoreCpus, CoreStep(c), OneChangesScreen
  PROVE  ScreenInv'
<1>1. core \in [CoreCpus -> CoreRecord] /\ core[c] \in CoreRecord
  BY DEF TimeInv, TimeTypes
<1>2. \A r : core' = [core EXCEPT ![c] = r] => core'[c] = r /\ \A d \in CoreCpus \ {c} : core'[d] = core[d]
  BY <1>1
<1>3. Out.pc = "out"
  BY DEF Out
<1>4. \A p \in TimePlaces : [core[c] EXCEPT !.pc = p].pc = p
  BY <1>1 DEF CoreRecord
<1>5. CASE (\E idle \in BOOLEAN : CoreUpdateIdleTime(c, idle)) \/ LastActivityRead(c) \/ LastActivityWritten(c)
  <2>1. core[c].pc \in {"out", "last", "ready"} /\ UNCHANGED <<SystemIdle, screen, DisplayBuffer>>
    BY <1>5 DEF CoreUpdateIdleTime, LastActivityRead, LastActivityWritten, CoreAt
  <2>2. core'[c].pc \in {"out", "last", "idle", "ready", "wake"} /\ \A d \in CoreCpus \ {c} : core'[d] = core[d]
    <3>1. CASE \E idle \in BOOLEAN : CoreUpdateIdleTime(c, idle)
      <4>1. PICK idle \in BOOLEAN : CoreUpdateIdleTime(c, idle)
        BY <3>1
      <4> DEFINE now == [pc |-> "last", idle |-> idle, systemTimeUs |-> IomuGetSystemTimeUs]
      <4>2. core' = [core EXCEPT ![c] = now] /\ now.pc = "last"
        BY <4>1 DEF CoreUpdateIdleTime
      <4> HIDE DEF now
      <4>3. core'[c] = now /\ \A d \in CoreCpus \ {c} : core'[d] = core[d]
        BY <1>2, <4>2
      <4> QED
        BY <4>2, <4>3
    <3>2. CASE LastActivityRead(c)
      <4>1. \/ core' = [core EXCEPT ![c] = Out]
            \/ \E p \in {"idle", "ready"} : core' = [core EXCEPT ![c] = [core[c] EXCEPT !.pc = p]]
        BY <3>2 DEF LastActivityRead
      <4>2. \A p \in {"idle", "ready"} : [core[c] EXCEPT !.pc = p].pc = p
        BY <1>4 DEF TimePlaces
      <4>3. ASSUME NEW p \in {"idle", "ready"}, core' = [core EXCEPT ![c] = [core[c] EXCEPT !.pc = p]]
            PROVE  core'[c].pc = p /\ \A d \in CoreCpus \ {c} : core'[d] = core[d]
        <5>1. core'[c] = [core[c] EXCEPT !.pc = p] /\ \A d \in CoreCpus \ {c} : core'[d] = core[d]
          BY <1>2, <4>3
        <5> QED
          BY <4>2, <5>1
      <4>4. CASE core' = [core EXCEPT ![c] = Out]
        BY <1>2, <1>3, <4>4
      <4> QED
        BY <4>1, <4>3, <4>4
    <3>3. CASE LastActivityWritten(c)
      <4>1. core' = [core EXCEPT ![c] = [core[c] EXCEPT !.pc = "wake"]]
        BY <3>3 DEF LastActivityWritten, CoreTo
      <4>2. [core[c] EXCEPT !.pc = "wake"].pc = "wake"
        BY <1>4 DEF TimePlaces
      <4> QED
        BY <1>2, <4>1, <4>2
    <3> QED
      BY <1>5, <3>1, <3>2, <3>3
  <2>3. core'[c].pc \notin Changing /\ core[c].pc \notin Changing
    BY <2>1, <2>2 DEF Changing
  <2> QED
    BY <2>1, <2>2, <2>3, ScreenLeft
<1>6. CASE BecomesIdle(c)
  <2>1. /\ core[c].pc = "idle" /\ SystemIdle' = TRUE /\ UNCHANGED <<screen, DisplayBuffer>>
        /\ IF SystemIdle THEN core' = [core EXCEPT ![c] = Out]
           ELSE core' = [core EXCEPT ![c] = [core[c] EXCEPT !.pc = "store"]]
    BY <1>6 DEF BecomesIdle, CoreAt, CoreTo
  <2>2. /\ core'[c].pc = IF SystemIdle THEN "out" ELSE "store"
        /\ \A d \in CoreCpus \ {c} : core'[d] = core[d]
    BY <1>2, <1>3, <1>4, <2>1 DEF TimePlaces
  <2>3. SystemIdle \in BOOLEAN
    BY DEF ScreenInv
  <2>4. CASE SystemIdle
    <3>1. SystemIdle' = SystemIdle /\ core'[c].pc \notin Changing /\ core[c].pc \notin Changing
      BY <2>1, <2>2, <2>3, <2>4 DEF Changing
    <3> QED
      BY <2>1, <2>2, <3>1, ScreenLeft
  <2>5. CASE ~SystemIdle
    <3>1. \A d \in CoreCpus : core[d].pc \notin Changing
      BY <2>1, <2>5 DEF OneChangesScreen
    <3>2. screen = "content"
      BY <2>5, <3>1 DEF ScreenInv
    <3>3. core'[c].pc = "store"
      BY <2>2, <2>5
    <3> QED
      BY <2>1, <2>2, <3>1, <3>2, <3>3, ScreenTaken DEF Changing
  <2> QED
    BY <2>4, <2>5
<1>7. CASE EndsIdle(c)
  <2>1. /\ core[c].pc = "wake" /\ SystemIdle' = FALSE /\ UNCHANGED <<screen, DisplayBuffer>>
        /\ IF SystemIdle THEN core' = [core EXCEPT ![c] = [core[c] EXCEPT !.pc = "restore"]]
           ELSE core' = [core EXCEPT ![c] = Out]
    BY <1>7 DEF EndsIdle, CoreAt, CoreTo
  <2>2. /\ core'[c].pc = IF SystemIdle THEN "restore" ELSE "out"
        /\ \A d \in CoreCpus \ {c} : core'[d] = core[d]
    BY <1>2, <1>3, <1>4, <2>1 DEF TimePlaces
  <2>3. SystemIdle \in BOOLEAN
    BY DEF ScreenInv
  <2>4. CASE ~SystemIdle
    <3>1. SystemIdle' = SystemIdle /\ core'[c].pc \notin Changing /\ core[c].pc \notin Changing
      BY <2>1, <2>2, <2>3, <2>4 DEF Changing
    <3> QED
      BY <2>1, <2>2, <3>1, ScreenLeft
  <2>5. CASE SystemIdle
    <3>1. \A d \in CoreCpus : core[d].pc \notin Changing
      BY <2>1, <2>5 DEF OneChangesScreen
    <3>2. DisplayBuffer = "content"
      BY <2>5, <3>1 DEF ScreenInv
    <3>3. core'[c].pc = "restore"
      BY <2>2, <2>5
    <3> QED
      BY <2>1, <2>2, <3>1, <3>2, <3>3, ScreenTaken DEF Changing
  <2> QED
    BY <2>4, <2>5
<1>8. CASE CoreSystemIdle(c) \/ CoreSystemRevertFromIdle(c)
  <2>1. core[c].pc \in Changing /\ UNCHANGED SystemIdle /\ SystemIdle' \in BOOLEAN
    BY <1>8 DEF CoreSystemIdle, CoreSystemRevertFromIdle, CoreAt, Changing, ScreenInv
  <2>2. \A d \in CoreCpus \ {c} : core[d].pc \notin Changing
    BY <2>1 DEF ScreenInv
  <2>3. CASE CoreSystemIdle(c) /\ core[c].pc = "store"
    <3>1. /\ DisplayBuffer' = screen /\ UNCHANGED screen
          /\ core' = [core EXCEPT ![c] = [core[c] EXCEPT !.pc = "clear"]]
      BY <2>3 DEF CoreSystemIdle, CoreTo
    <3>2. core'[c].pc = "clear" /\ \A d \in CoreCpus \ {c} : core'[d] = core[d]
      BY <1>2, <1>4, <3>1 DEF TimePlaces
    <3>3. SystemIdle' /\ DisplayBuffer' = "content"
      BY <2>1, <2>3, <3>1 DEF ScreenInv
    <3> QED
      BY <2>1, <2>2, <3>2, <3>3, ScreenTaken DEF Changing
  <2>4. CASE CoreSystemIdle(c) /\ core[c].pc # "store"
    <3>1. /\ core[c].pc = "clear" /\ screen' = "blank" /\ UNCHANGED DisplayBuffer
          /\ core' = [core EXCEPT ![c] = Out]
      BY <2>4 DEF CoreSystemIdle, CoreAt
    <3>2. core'[c].pc = "out" /\ \A d \in CoreCpus \ {c} : core'[d] = core[d]
      BY <1>2, <1>3, <3>1
    <3>3. SystemIdle' /\ DisplayBuffer' = "content"
      BY <2>1, <3>1 DEF ScreenInv
    <3> QED
      BY <2>1, <2>2, <3>1, <3>2, <3>3, ScreenTaken DEF Changing
  <2>5. CASE CoreSystemRevertFromIdle(c)
    <3>1. /\ core[c].pc = "restore" /\ screen' = DisplayBuffer /\ UNCHANGED DisplayBuffer
          /\ core' = [core EXCEPT ![c] = Out]
      BY <2>5 DEF CoreSystemRevertFromIdle, CoreAt
    <3>2. core'[c].pc = "out" /\ \A d \in CoreCpus \ {c} : core'[d] = core[d]
      BY <1>2, <1>3, <3>1
    <3>3. ~SystemIdle' /\ screen' = "content"
      BY <2>1, <3>1 DEF ScreenInv
    <3> QED
      BY <2>1, <2>2, <3>2, <3>3, ScreenTaken DEF Changing
  <2> QED
    BY <1>8, <2>3, <2>4, <2>5
<1> QED
  BY <1>5, <1>6, <1>7, <1>8 DEF CoreStep

\* The assertion on the last activity.
LEMMA AssertStep ==
  ASSUME TimeInv, ~timeAssert, NEW c \in CoreCpus, CoreStep(c), ComparedInTime
  PROVE  ~timeAssert'
<1>1. CASE LastActivityRead(c)
  <2>1. timeAssert' = (core[c].idle /\ c = Bsp /\ core[c].systemTimeUs + TimerInterruptTimeUs < ReadyThreadUs)
    BY <1>1 DEF LastActivityRead
  <2>2. core[c] \in CoreRecord /\ ReadyThreadUs \in Nat /\ IomuGetSystemTimeUs \in Nat
        /\ ReadyThreadUs <= IomuGetSystemTimeUs
    BY TimeIsNat DEF TimeInv, TimeTypes, TimePast
  <2>3. core[c].systemTimeUs \in Nat /\ TimerInterruptTimeUs \in Nat
    BY <2>2, TimeAssumption DEF CoreRecord
  <2>4. core[c].systemTimeUs < ReadyThreadUs => IomuGetSystemTimeUs <= core[c].systemTimeUs + TimerInterruptTimeUs
    BY <1>1 DEF ComparedInTime
  <2>5. ~(core[c].systemTimeUs + TimerInterruptTimeUs < ReadyThreadUs)
    BY <2>2, <2>3, <2>4
  <2> QED
    BY <2>1, <2>5
<1>2. CASE ~LastActivityRead(c)
  BY <1>2 DEF CoreStep, CoreUpdateIdleTime, BecomesIdle, CoreSystemIdle, LastActivityWritten, EndsIdle,
     CoreSystemRevertFromIdle
<1> QED
  BY <1>1, <1>2

\* For any number of processors in CoreUpdateIdleTime, which takes no lock:
\* what the screen showed is lost in one way only, when the idle state
\* changes while another processor still saves, clears or restores it
\* (_CoreSystemIdle, _CoreSystemRevertFromIdle), and the assertion on the last
\* activity fails in one way only, when the time moved on by more than a tick
\* between its read and the comparison.
THEOREM TimeSoundSafe ==
  TimeInit /\ [][TimeNext]_timeVars /\ [][OneChangesScreen]_timeVars /\ [][ComparedInTime]_timeVars
    => []TimeSound
<1> DEFINE Inv == ScreenInv /\ ~timeAssert
<1>1. TimeInit => Inv
  <2> SUFFICES ASSUME TimeInit PROVE Inv
    OBVIOUS
  <2>1. \A c \in CoreCpus : core[c].pc = "out"
    BY DEF TimeInit, Out
  <2>2. SystemIdle = FALSE /\ screen = "content" /\ ~timeAssert
    BY DEF TimeInit
  <2> QED
    BY <2>1, <2>2 DEF ScreenInv, Changing
<1>2. TimeInv /\ Inv /\ [TimeNext]_timeVars /\ [OneChangesScreen]_timeVars /\ [ComparedInTime]_timeVars => Inv'
  <2> SUFFICES ASSUME TimeInv, ScreenInv, ~timeAssert, [TimeNext]_timeVars,
                      [OneChangesScreen]_timeVars, [ComparedInTime]_timeVars
               PROVE  Inv'
    OBVIOUS
  <2>1. ASSUME UNCHANGED <<core, SystemIdle, screen, DisplayBuffer, timeAssert>>
        PROVE  Inv'
    BY <2>1 DEF ScreenInv
  <2>2. CASE UNCHANGED coreVars
    BY <2>1, <2>2 DEF coreVars
  <2>3. CASE \E us \in IdlePeriods : CoreSetIdlePeriod(us)
    BY <2>1, <2>3 DEF CoreSetIdlePeriod
  <2>4. ASSUME NEW c \in CoreCpus, CoreStep(c), ~UNCHANGED timeVars PROVE Inv'
    BY <2>4, ScreenStep, AssertStep
  <2>5. CASE (\E c \in TimeCpus : SystemTickInterrupt(c) \/ CmosUpdateOccurred(c)) \/ CmosUpdateWrites
    BY <2>2, <2>5 DEF SystemTickInterrupt, CmosUpdateOccurred, CmosUpdateWrites
  <2>6. CASE \/ \E type \in TimerTypes, us \in TimerTimes : ExTimerInit(type, us)
             \/ ExTimerStart \/ ExTimerStop \/ ExTimerUninit
             \/ \E t \in TimerThreads : ExTimerWait(t) \/ WaitEnds(t)
    BY <2>2, <2>6 DEF ExTimerInit, ExTimerStart, ExTimerStop, ExTimerUninit, ExTimerWait, WaitEnds
  <2>7. CASE UNCHANGED timeVars
    BY <2>2, <2>7 DEF timeVars
  <2> QED
    BY <2>3, <2>4, <2>5, <2>6, <2>7 DEF TimeNext
<1>3. TimeInv /\ Inv => TimeSound
  BY DEF TimeInv, TimePast, ScreenInv, TimeSound, TimeMonotonic, ScreenKept, ActivityAssertHolds, Changing
<1> HIDE DEF Inv
<1> QED
  BY <1>1, <1>2, <1>3, TimeInitInv, TimeNextInv, PTL

(***************************************************************************)
(* The keyboard and its line editor.                                       *)
(***************************************************************************)

\* A key that getch may still return: none, or pressed after all that it
\* has returned (t), among the n codes that have arrived.
FreshKey(k, n, t) ==
  \/ k = NoKey
  \/ k.nr \in Nat /\ k.nr > 0 /\ k.nr <= n /\ \A i \in 1 .. Len(t) : t[i] < k.nr

\* What was returned, oldest first.
Pressed(n, t) ==
  /\ t \in Seq(Nat)
  /\ \A i \in 1 .. Len(t) : t[i] > 0 /\ t[i] <= n
  /\ \A i \in 1 .. Len(t) - 1 : t[i] < t[i + 1]

KeysInv ==
  /\ scans \in Nat
  /\ Pressed(scans, taken)
  /\ FreshKey(Keycode, scans, taken)
  /\ reader \in {"wait", "read", "clear", "reset"}
  /\ reader \in {"clear", "reset"} => FreshKey(got, scans, taken)

\* The line has room for a character and its end until gets_s returns.
Characters == {"nul", " ", "a", "A", "3", "!"}
LineInv ==
  /\ line \in [1 .. BufferSize -> Characters]
  /\ line[BufferSize] = "nul"
  /\ position \in Nat /\ position <= BufferSize - 1
  /\ \A k \in 1 .. position : line[k] # "nul"
  /\ ~typed => position <= BufferSize - 2
  /\ reader # "wait" => ~typed

KeyboardInv == KeysInv /\ LineInv

\* Another scan code arrives: a key that was new still is.
LEMMA StillFresh ==
  ASSUME NEW n \in Nat, NEW t
  PROVE  /\ \A k : FreshKey(k, n, t) => FreshKey(k, n + 1, t)
         /\ Pressed(n, t) => Pressed(n + 1, t)
<1>1. ASSUME NEW k, FreshKey(k, n, t) PROVE FreshKey(k, n + 1, t)
  <2>1. CASE k = NoKey
    BY <2>1 DEF FreshKey
  <2>2. CASE k # NoKey
    BY <1>1, <2>2 DEF FreshKey
  <2> QED
    BY <2>1, <2>2
<1>2. ASSUME Pressed(n, t) PROVE Pressed(n + 1, t)
  <2>1. t \in Seq(Nat) /\ Len(t) \in Nat
    BY <1>2 DEF Pressed
  <2>2. \A i \in 1 .. Len(t) : t[i] \in Nat
    BY <2>1
  <2>3. \A i \in 1 .. Len(t) : t[i] > 0 /\ t[i] <= n
    BY <1>2 DEF Pressed
  <2>4. \A i \in 1 .. Len(t) : t[i] > 0 /\ t[i] <= n + 1
    BY <2>2, <2>3
  <2> QED
    BY <1>2, <2>4 DEF Pressed
<1> QED
  BY <1>1, <1>2

\* The key that arrives is new.
LEMMA PressIsFresh ==
  ASSUME NEW n \in Nat, NEW t, Pressed(n, t), NEW key
  PROVE  /\ FreshKey([key |-> key, nr |-> n + 1], n + 1, t)
         /\ FreshKey(NoKey, n, t)
<1> DEFINE k == [key |-> key, nr |-> n + 1]
<1>1. k.nr = n + 1
  OBVIOUS
<1>2. \A i \in 1 .. Len(t) : t[i] < n + 1
  <2>1. t \in Seq(Nat) /\ Len(t) \in Nat
    BY DEF Pressed
  <2>2. \A i \in 1 .. Len(t) : t[i] \in Nat
    BY <2>1
  <2> QED
    BY <2>2 DEF Pressed
<1> HIDE DEF k
<1>3. FreshKey(k, n + 1, t)
  BY <1>1, <1>2 DEF FreshKey
<1> QED
  BY <1>3 DEF k, FreshKey

\* getch returns a new key: it comes after those returned before.
LEMMA TakenInOrder ==
  ASSUME NEW n \in Nat, NEW t, Pressed(n, t), NEW k, FreshKey(k, n, t), k # NoKey
  PROVE  Pressed(n, Append(t, k.nr))
<1>1. t \in Seq(Nat) /\ Len(t) \in Nat /\ k.nr \in Nat /\ k.nr > 0 /\ k.nr <= n
  BY DEF Pressed, FreshKey
<1> DEFINE u == Append(t, k.nr)
<1>2. /\ u \in Seq(Nat) /\ Len(u) = Len(t) + 1 /\ u[Len(t) + 1] = k.nr
      /\ \A i \in 1 .. Len(t) : u[i] = t[i]
  BY <1>1
<1> HIDE DEF u
<1>3. \A i \in 1 .. Len(u) : u[i] > 0 /\ u[i] <= n
  <2> SUFFICES ASSUME NEW i \in 1 .. Len(u) PROVE u[i] > 0 /\ u[i] <= n
    OBVIOUS
  <2>1. CASE i \in 1 .. Len(t)
    BY <1>2, <2>1 DEF Pressed
  <2>2. CASE i = Len(t) + 1
    BY <1>1, <1>2, <2>2
  <2> QED
    BY <1>1, <1>2, <2>1, <2>2
<1>4. \A i \in 1 .. Len(u) - 1 : u[i] < u[i + 1]
  <2> SUFFICES ASSUME NEW i \in 1 .. Len(u) - 1 PROVE u[i] < u[i + 1]
    OBVIOUS
  <2>1. i \in 1 .. Len(t) /\ u[i] = t[i]
    BY <1>1, <1>2
  <2>2. CASE i \in 1 .. Len(t) - 1
    <3>1. u[i + 1] = t[i + 1]
      BY <1>1, <1>2, <2>2
    <3>2. t[i] < t[i + 1]
      BY <2>2 DEF Pressed
    <3> QED
      BY <2>1, <3>1, <3>2
  <2>3. CASE i = Len(t)
    <3>1. u[i + 1] = k.nr
      BY <1>2, <2>3
    <3>2. t[i] < k.nr
      BY <2>1 DEF FreshKey
    <3> QED
      BY <2>1, <3>1, <3>2
  <2> QED
    BY <1>1, <2>1, <2>2, <2>3
<1> QED
  BY <1>2, <1>3, <1>4 DEF Pressed, u

LEMMA IsrKeepsKeys ==
  ASSUME KeyboardInv, KeyboardIsr
  PROVE  KeyboardInv'
<1>1. UNCHANGED readerVars
  BY DEF KeyboardIsr, ExtendedPrefix, KeyMake, KeyBreak, KeyboardIsrSignals
<1>2. LineInv'
  BY <1>1 DEF KeyboardInv, LineInv, readerVars
<1>3. /\ scans \in Nat /\ Pressed(scans, taken) /\ FreshKey(Keycode, scans, taken)
      /\ reader \in {"clear", "reset"} => FreshKey(got, scans, taken)
  BY DEF KeyboardInv, KeysInv
<1>4. /\ Pressed(scans + 1, taken) /\ FreshKey(Keycode, scans + 1, taken)
      /\ reader \in {"clear", "reset"} => FreshKey(got, scans + 1, taken)
  BY <1>3, StillFresh
<1>5. taken' = taken /\ got' = got /\ reader' = reader
  BY <1>1 DEF readerVars
<1>6. \/ scans' = scans /\ Keycode' = Keycode
      \/ scans' = scans + 1 /\ FreshKey(Keycode', scans + 1, taken)
  <2>1. CASE ExtendedPrefix
    BY <1>4, <2>1 DEF ExtendedPrefix
  <2>2. ASSUME NEW code \in ScanCodes, KeyMake(code) PROVE <1>6!:
    <3>1. scans' = scans + 1
      BY <2>2 DEF KeyMake
    <3>2. CASE code.key = "unknown"
      <4>1. Keycode' = NoKey
        BY <2>2, <3>2 DEF KeyMake, NoKey
      <4> QED
        BY <3>1, <4>1 DEF FreshKey
    <3>3. CASE code.key # "unknown"
      <4>1. Keycode' = [key |-> code.key, nr |-> scans + 1]
        BY <2>2, <3>3 DEF KeyMake
      <4> QED
        BY <1>3, <3>1, <4>1, PressIsFresh
    <3> QED
      BY <3>2, <3>3
  <2>3. ASSUME NEW code \in ScanCodes, KeyBreak(code) PROVE <1>6!:
    BY <1>4, <2>3 DEF KeyBreak
  <2>4. CASE KeyboardIsrSignals
    BY <2>4 DEF KeyboardIsrSignals
  <2> QED
    BY <2>1, <2>2, <2>3, <2>4 DEF KeyboardIsr
<1>7. KeysInv'
  <2>1. reader' \in {"wait", "read", "clear", "reset"}
    BY <1>5 DEF KeyboardInv, KeysInv
  <2>2. CASE scans' = scans /\ Keycode' = Keycode
    BY <1>3, <1>5, <2>1, <2>2 DEF KeysInv
  <2>3. CASE scans' = scans + 1 /\ FreshKey(Keycode', scans + 1, taken)
    BY <1>3, <1>4, <1>5, <2>1, <2>3 DEF KeysInv
  <2> QED
    BY <1>6, <2>2, <2>3
<1> QED
  BY <1>2, <1>7 DEF KeyboardInv

LEMMA AsciiIsCharacter == \A key : KeyToAscii(key) \in Characters
BY DEF KeyToAscii, Characters

\* One more character, and the cursor after it.
LEMMA InsertKeepsLine ==
  ASSUME LineInv, NEW c \in Characters \ {"nul"}, position <= BufferSize - 2, Insert(c)
  PROVE  /\ line' \in [1 .. BufferSize -> Characters] /\ line'[BufferSize] = "nul"
         /\ position' = position + 1
         /\ \A k \in 1 .. position' : line'[k] # "nul"
<1>1. BufferSize \in Nat /\ position \in Nat /\ position + 1 \in 1 .. BufferSize - 1
  BY KeyboardAssumption DEF LineInv
<1>2. line' = [line EXCEPT ![position + 1] = c] /\ position' = position + 1
  BY DEF Insert
<1> QED
  BY <1>1, <1>2 DEF LineInv

\* What a key does to the line: gets_s returns before there is no room.
LEMMA EditKeepsLine ==
  ASSUME LineInv, ~typed, NEW key, EditLine(key), reader' = "wait"
  PROVE  LineInv'
<1>1. BufferSize \in Nat /\ BufferSize > 1 /\ position \in Nat /\ position <= BufferSize - 2
  BY KeyboardAssumption DEF LineInv
<1> DEFINE c == KeyToAscii(key)
<1>2. c \in Characters
  BY AsciiIsCharacter
<1>3. typed' = \/ key = "return"
               \/ c # "nul" /\ position + 1 >= BufferSize - 1
  BY DEF EditLine
<1>4. key \in {"backspace", "left", "right", "return"} => c = "nul"
  BY DEF KeyToAscii
<1>5. \/ /\ key = "backspace" /\ position > 0
         /\ line' = [line EXCEPT ![position] = "nul"] /\ position' = position - 1
      \/ key = "left" /\ position > 0 /\ position' = position - 1 /\ line' = line
      \/ key = "right" /\ EditRight
      \/ key \notin {"left", "right"} /\ c # "nul" /\ Insert(c)
      \/ line' = line /\ position' = position /\ c = "nul"
  BY <1>4 DEF EditLine
<1> HIDE DEF c
<1>6. CASE \/ /\ key = "backspace" /\ position > 0
              /\ line' = [line EXCEPT ![position] = "nul"] /\ position' = position - 1
           \/ key = "left" /\ position > 0 /\ position' = position - 1 /\ line' = line
  <2>1. /\ line' \in [1 .. BufferSize -> Characters]
        /\ line'[BufferSize] = "nul"
        /\ \A k \in 1 .. position - 1 : line'[k] # "nul"
    <3>1. /\ line \in [1 .. BufferSize -> Characters] /\ line[BufferSize] = "nul" /\ "nul" \in Characters
          /\ \A k \in 1 .. position - 1 : line[k] # "nul"
      <4>1. 1 .. position - 1 \subseteq 1 .. position
        BY <1>1
      <4>2. \A k \in 1 .. position : line[k] # "nul"
        BY DEF LineInv
      <4>3. "nul" \in Characters
        BY DEF Characters
      <4> QED
        BY <4>1, <4>2, <4>3 DEF LineInv
    <3>2. CASE line' = line
      BY <3>1, <3>2
    <3>3. CASE position > 0 /\ line' = [line EXCEPT ![position] = "nul"]
      <4>1. line' \in [1 .. BufferSize -> Characters]
        BY <3>1, <3>3
      <4>2. \A k \in 1 .. BufferSize : line'[k] = IF k = position THEN "nul" ELSE line[k]
        BY <3>1, <3>3
      <4>3. BufferSize \in 1 .. BufferSize /\ 1 .. position - 1 \subseteq 1 .. BufferSize
            /\ position \notin 1 .. position - 1
        BY <1>1
      <4> QED
        BY <3>1, <4>1, <4>2, <4>3
    <3> QED
      BY <1>6, <3>2, <3>3
  <2> QED
    BY <1>1, <1>6, <2>1 DEF LineInv
<1>7. CASE key = "right" /\ EditRight
  <2>1. c = "nul" /\ ~typed'
    BY <1>3, <1>4, <1>7
  <2>2. CASE position < BufferSize - 2
    <3> DEFINE d == IF line[position + 1] = "nul" THEN " " ELSE line[position + 1]
    <3>1. position + 1 \in 1 .. BufferSize
      BY <1>1
    <3>2. d \in Characters \ {"nul"}
      BY <3>1 DEF LineInv, Characters
    <3>3. Insert(d)
      BY <1>7, <2>2 DEF EditRight
    <3> HIDE DEF d
    <3> QED
      BY <1>1, <2>1, <2>2, <3>2, <3>3, InsertKeepsLine DEF LineInv
  <2>3. CASE ~(position < BufferSize - 2)
    <3>1. line' = line /\ position' = position
      BY <1>7, <2>3 DEF EditRight
    <3> QED
      BY <1>1, <2>1, <3>1 DEF LineInv
  <2> QED
    BY <2>2, <2>3
<1>8. CASE key \notin {"left", "right"} /\ c # "nul" /\ Insert(c)
  <2>1. /\ line' \in [1 .. BufferSize -> Characters] /\ line'[BufferSize] = "nul"
        /\ position' = position + 1
        /\ \A k \in 1 .. position' : line'[k] # "nul"
    BY <1>1, <1>2, <1>8, InsertKeepsLine
  <2>2. ~typed' => position + 1 <= BufferSize - 2
    BY <1>1, <1>3, <1>8
  <2> QED
    BY <1>1, <2>1, <2>2 DEF LineInv
<1>9. CASE line' = line /\ position' = position /\ c = "nul"
  BY <1>1, <1>9 DEF LineInv
<1> QED
  BY <1>5, <1>6, <1>7, <1>8, <1>9

LEMMA ReaderKeepsKeys ==
  ASSUME KeyboardInv, gets_s
  PROVE  KeyboardInv'
<1>1. /\ scans \in Nat /\ Pressed(scans, taken) /\ FreshKey(Keycode, scans, taken)
      /\ reader \in {"clear", "reset"} => FreshKey(got, scans, taken)
  BY DEF KeyboardInv, KeysInv
<1>2. CASE WaitSeesEvent \/ KeyboardWaitForKey \/ ClearSignal
  <2>1. UNCHANGED <<scans, taken, Keycode, line, position, typed>>
    BY <1>2 DEF WaitSeesEvent, KeyboardWaitForKey, ClearSignal
  <2>2. /\ reader' \in {"read", "clear", "reset"} /\ ~typed
        /\ reader' \in {"clear", "reset"} => FreshKey(got', scans, taken)
    BY <1>1, <1>2 DEF WaitSeesEvent, KeyboardWaitForKey, ClearSignal, KeyboardInv, LineInv
  <2>3. KeysInv'
    BY <1>1, <2>1, <2>2 DEF KeysInv
  <2>4. LineInv'
    BY <2>1, <2>2 DEF LineInv, KeyboardInv
  <2> QED
    BY <2>3, <2>4 DEF KeyboardInv
<1>3. CASE KeyboardDiscardLastKey
  <2>1. reader = "reset" /\ reader' = "wait" /\ Keycode' = NoKey /\ scans' = scans /\ got' = got
    BY <1>3 DEF KeyboardDiscardLastKey
  <2>2. FreshKey(NoKey, scans, taken') /\ FreshKey(got, scans, taken)
    BY <1>1, <2>1 DEF FreshKey
  <2>3. CASE got = NoKey
    <3>1. UNCHANGED <<taken, line, position, typed>>
      BY <1>3, <2>3 DEF KeyboardDiscardLastKey
    <3> QED
      BY <1>1, <2>1, <2>2, <3>1 DEF KeyboardInv, KeysInv, LineInv
  <2>4. CASE got # NoKey
    <3>1. taken' = Append(taken, got.nr) /\ EditLine(got.key)
      BY <1>3, <2>4 DEF KeyboardDiscardLastKey
    <3>2. Pressed(scans, taken')
      BY <1>1, <2>2, <2>4, <3>1, TakenInOrder
    <3>3. LineInv'
      <4>1. LineInv /\ ~typed
        BY <2>1 DEF KeyboardInv, LineInv
      <4> QED
        BY <2>1, <3>1, <4>1, EditKeepsLine
    <3>4. KeysInv'
      BY <1>1, <2>1, <2>2, <3>2 DEF KeysInv
    <3> QED
      BY <3>3, <3>4 DEF KeyboardInv
  <2> QED
    BY <2>3, <2>4
<1>4. CASE NextLine
  <2>1. /\ UNCHANGED <<scans, taken, Keycode, reader, got>>
        /\ line' = EmptyLine /\ position' = 0 /\ typed' = FALSE
    BY <1>4 DEF NextLine
  <2>2. KeysInv'
    BY <2>1 DEF KeysInv, KeyboardInv
  <2>3. LineInv'
    BY <2>1, KeyboardAssumption DEF LineInv, EmptyLine, Characters
  <2> QED
    BY <2>2, <2>3 DEF KeyboardInv
<1> QED
  BY <1>2, <1>3, <1>4 DEF gets_s, getch

LEMMA KeyboardInductive ==
  KeyboardInitialize /\ [][KeyboardNext]_keyboardVars => []KeyboardInv
<1>1. KeyboardInitialize => KeyboardInv
  <2> SUFFICES ASSUME KeyboardInitialize PROVE KeyboardInv
    OBVIOUS
  <2>1. KeysInv
    BY DEF KeyboardInitialize, KeysInv, Pressed, FreshKey
  <2>2. LineInv
    BY KeyboardAssumption DEF KeyboardInitialize, LineInv, EmptyLine, Characters
  <2> QED
    BY <2>1, <2>2 DEF KeyboardInv
<1>2. KeyboardInv /\ [KeyboardNext]_keyboardVars => KeyboardInv'
  <2> SUFFICES ASSUME KeyboardInv, [KeyboardNext]_keyboardVars PROVE KeyboardInv'
    OBVIOUS
  <2>1. CASE UNCHANGED keyboardVars
    BY <2>1 DEF keyboardVars, KeyboardInv, KeysInv, LineInv
  <2> QED
    BY <2>1, IsrKeepsKeys, ReaderKeepsKeys DEF KeyboardNext
<1> QED
  BY <1>1, <1>2, PTL

\* However the interrupt handler (_KeyboardIsr) comes between the steps of
\* getch (KeyboardWaitForKey, KeyboardDiscardLastKey), keys come in the order
\* they were pressed and none twice, and gets_s keeps its buffer terminated:
\* for every table of scan codes and every buffer it may be given.
THEOREM ConsoleIsSound ==
  KeyboardInitialize /\ [][KeyboardNext]_keyboardVars => []ConsoleSound
<1>1. KeyboardInv => ConsoleSound
  <2> SUFFICES ASSUME KeyboardInv PROVE ConsoleSound
    OBVIOUS
  <2>1. KeysInOrder
    BY DEF KeyboardInv, KeysInv, Pressed, KeysInOrder
  <2>2. position < BufferSize
    BY KeyboardAssumption DEF KeyboardInv, LineInv
  <2> QED
    BY <2>1, <2>2 DEF KeyboardInv, LineInv, LineTerminated, ConsoleSound
<1> QED
  BY <1>1, KeyboardInductive, PTL

(***************************************************************************)
(* The start of the processors.                                            *)
(***************************************************************************)

\* Where the stages that act on this state stand in SystemInit.
LEMMA StageOrder ==
  /\ DOMAIN Stages = 1 .. 27 /\ Len(Stages) = 27
  /\ \A i \in 1 .. 27 :
       /\ Stages[i] = "AcpiInterfaceInit" <=> i = 8
       /\ Stages[i] = "SmpInit" <=> i = 10
       /\ Stages[i] = "CpuMuInitCpu" <=> i = 12
       /\ Stages[i] = "SmpSetupLowerMemory" <=> i = 16
       /\ Stages[i] = "SmpSignalAllAPs" <=> i = 20
       /\ Stages[i] = "SmpWakeupAps" <=> i = 21
       /\ Stages[i] = "SmpCleanupLowerMemory" <=> i = 23
<1>1. DOMAIN Stages = 1 .. 27 /\ Len(Stages) = 27
  BY DEF Stages
<1> QED
  BY <1>1 DEF Stages

Aps == MachineCpus \ {BspId}
Started == {c \in MachineCpus : apState[c] \in {"active", "idle"}}
ApStates == {"off", "low", "high", "lapic", "active", "idle"}

\* What the stages that are over have left.
StagesInv ==
  /\ stage \in 0 .. 28
  /\ stage > 8 => AcpiCpuList = EnabledLapics
  /\ stage > 10 => NoOfCpus = Cardinality(MachineCpus)
  /\ stage > 16 => CpuList = EnabledLapics
  /\ stage \in 17 .. 23 => lowMemory = {CodePage} \union StackPages(Aps)

\* How many processors are counted, and the event that says it is all.
CountInv ==
  /\ stage \in 1 .. 12 => NoOfActiveCpus = 0 /\ ~ApStartupEvent
  /\ stage \in 13 .. 20 => NoOfActiveCpus = 1 /\ (ApStartupEvent => NoOfCpus = 1)
  /\ stage = 21 => /\ NoOfActiveCpus = Cardinality(Started)
                   /\ ApStartupEvent <=> NoOfActiveCpus = NoOfCpus

\* Processors other than the first run the trampoline only while SmpWakeupAps
\* waits for them.
ApsInv ==
  /\ apState \in [MachineCpus -> ApStates]
  /\ apState[BspId] \in {"high", "active"}
  /\ stage \in 1 .. 12 => apState[BspId] = "high"
  /\ stage > 12 => apState[BspId] = "active"
  /\ \A c \in Aps :
       /\ stage \in 1 .. 20 => apState[c] = "off"
       /\ stage = 21 => apState[c] # "off"
       /\ stage = 0 => apState[c] \in {"off", "active", "idle"}
       /\ stage > 21 => apState[c] \in {"active", "idle"}

StartupInv == StagesInv /\ CountInv /\ ApsInv

\* The list of the MADT has as many entries as there are processors.
LEMMA ListedProcessors ==
  /\ IsFiniteSet(MachineCpus)
  /\ Len(EnabledLapics) = Cardinality(MachineCpus)
  /\ Cardinality(MachineCpus) \in Nat
<1>1. EnabledLapics \in Seq(MachineCpus) /\ IsInjective(EnabledLapics) /\ ToSet(EnabledLapics) = MachineCpus
  BY StartupAssumption
<1> DEFINE l == EnabledLapics
<1> HIDE DEF l
<1>2. l \in Seq(MachineCpus) /\ IsInjective(l) /\ ToSet(l) = MachineCpus
  BY <1>1 DEF l
<1>3. DOMAIN l = 1 .. Len(l) /\ Len(l) \in Nat /\ l \in [1 .. Len(l) -> MachineCpus]
  BY <1>2
<1>4. \A c \in MachineCpus : \E i \in 1 .. Len(l) : l[i] = c
  BY <1>2, <1>3 DEF ToSet
<1>5. \A i, j \in 1 .. Len(l) : l[i] = l[j] => i = j
  BY <1>2, <1>3 DEF IsInjective
<1>6. l \in Bijection(1 .. Len(l), MachineCpus)
  BY <1>2, <1>3, <1>4, <1>5 DEF Bijection, Injection, Surjection
<1>7. ExistsBijection(1 .. Len(l), MachineCpus)
  BY <1>6 DEF ExistsBijection
<1>8. IsFiniteSet(MachineCpus)
  BY <1>3, <1>7, FS_Interval, FS_Bijection
<1>9. Cardinality(MachineCpus) = Len(l)
  BY <1>3, <1>7, FS_CountingElements
<1> QED
  BY <1>3, <1>8, <1>9 DEF l

\* All are counted when all have started.
LEMMA AllStarted ==
  /\ IsFiniteSet(Started) /\ Cardinality(Started) \in Nat
  /\ Cardinality(Started) = Cardinality(MachineCpus) => Started = MachineCpus
<1>1. Started \subseteq MachineCpus
  BY DEF Started
<1> QED
  BY <1>1, ListedProcessors, FS_Subset, FS_CardinalityType

\* The stage a name stands for.
LEMMA AtStageIs ==
  ASSUME StartupInv
  PROVE  /\ AtStage("AcpiInterfaceInit") <=> stage = 8
         /\ AtStage("SmpInit") <=> stage = 10
         /\ AtStage("CpuMuInitCpu") <=> stage = 12
         /\ AtStage("SmpSetupLowerMemory") <=> stage = 16
         /\ AtStage("SmpSignalAllAPs") <=> stage = 20
         /\ AtStage("SmpWakeupAps") <=> stage = 21
         /\ AtStage("SmpCleanupLowerMemory") <=> stage = 23
         /\ \A name : AtStage(name) => stage \in 1 .. 27 /\ Stages[stage] = name
<1>1. stage \in 0 .. 28
  BY DEF StartupInv, StagesInv
<1> QED
  BY <1>1, StageOrder DEF AtStage

\* Stages that only fill in lists go on with the same processors.
LEMMA ListStages ==
  ASSUME StartupInv, OtherStage \/ AcpiInterfaceParseMadt \/ SmpInit \/ SmpSetupLowerMemory
                       \/ SmpCleanupLowerMemory
  PROVE  StartupInv'
<1>1. stage \in 0 .. 28
  BY DEF StartupInv, StagesInv
<1>2. stage \in 1 .. 27 \ {12, 20, 21} /\ stage' = stage + 1
      /\ UNCHANGED <<NoOfActiveCpus, ApStartupEvent, apState>>
  <2>1. CASE OtherStage
    <3>1. PICK i \in DOMAIN Stages : AtStage(Stages[i]) /\ Stages[i] \notin OwnStages
      BY <2>1 DEF OtherStage
    <3>2. stage \in 1 .. 27 /\ Stages[stage] \notin OwnStages
      BY <3>1, AtStageIs
    <3>3. stage \notin {12, 20, 21}
      BY <3>2, StageOrder DEF OwnStages
    <3> QED
      BY <2>1, <3>2, <3>3 DEF OtherStage, Advance, counts
  <2>2. CASE AcpiInterfaceParseMadt \/ SmpInit \/ SmpSetupLowerMemory \/ SmpCleanupLowerMemory
    <3>1. stage \in {8, 10, 16, 23}
      BY <2>2, AtStageIs DEF AcpiInterfaceParseMadt, SmpInit, SmpSetupLowerMemory, SmpCleanupLowerMemory
    <3>2. stage' = stage + 1 /\ UNCHANGED <<NoOfActiveCpus, ApStartupEvent, apState>>
      BY <2>2 DEF AcpiInterfaceParseMadt, SmpInit, SmpSetupLowerMemory, SmpCleanupLowerMemory,
                  Advance, counts
    <3> QED
      BY <3>1, <3>2
  <2> QED
    BY <2>1, <2>2
<1>3. ApsInv'
  BY <1>2 DEF StartupInv, ApsInv
<1>4. StagesInv'
  <2>1. CASE OtherStage
    <3>1. stage \notin {8, 10, 16, 23}
      <4>1. PICK i \in DOMAIN Stages : AtStage(Stages[i]) /\ Stages[i] \notin OwnStages
        BY <2>1 DEF OtherStage
      <4>2. stage \in 1 .. 27 /\ Stages[stage] \notin OwnStages
        BY <4>1, AtStageIs
      <4> QED
        BY <4>2, StageOrder DEF OwnStages
    <3>2. UNCHANGED <<AcpiCpuList, NoOfCpus, CpuList, lowMemory>>
      BY <2>1 DEF OtherStage, acpiLists, counts
    <3> QED
      BY <1>2, <3>1, <3>2 DEF StartupInv, StagesInv
  <2>2. CASE AcpiInterfaceParseMadt
    <3>1. stage = 8 /\ AcpiCpuList' = EnabledLapics
      BY <2>2, AtStageIs DEF AcpiInterfaceParseMadt
    <3> QED
      BY <1>2, <3>1 DEF StagesInv
  <2>3. CASE SmpInit
    <3>1. stage = 10 /\ AcpiCpuList' = AcpiCpuList /\ NoOfCpus' = Len(AcpiCpuList)
      BY <2>3, AtStageIs DEF SmpInit, acpiLists
    <3>2. AcpiCpuList = EnabledLapics
      BY <3>1 DEF StartupInv, StagesInv
    <3> QED
      BY <1>2, <3>1, <3>2, ListedProcessors DEF StagesInv
  <2>4. CASE SmpSetupLowerMemory
    <3>1. stage = 16 /\ UNCHANGED <<AcpiCpuList, NoOfCpus>>
      BY <2>4, AtStageIs DEF SmpSetupLowerMemory, acpiLists, counts
    <3>2. AcpiCpuList = EnabledLapics /\ NoOfCpus = Cardinality(MachineCpus)
      BY <3>1 DEF StartupInv, StagesInv
    <3>3. [i \in 1 .. Len(AcpiCpuList) |-> AcpiRetrieveNextCpu(i)] = EnabledLapics
      BY <3>2, StartupAssumption DEF AcpiRetrieveNextCpu
    <3>4. CpuList' = EnabledLapics /\ lowMemory' = {CodePage} \union StackPages(Aps)
      BY <2>4, <3>3, StartupAssumption DEF SmpSetupLowerMemory, Aps
    <3> QED
      BY <1>2, <3>1, <3>2, <3>4 DEF StagesInv
  <2>5. CASE SmpCleanupLowerMemory
    <3>1. stage = 23 /\ UNCHANGED <<AcpiCpuList, NoOfCpus, CpuList>>
      BY <2>5, AtStageIs DEF SmpCleanupLowerMemory, acpiLists, counts
    <3> QED
      BY <1>2, <3>1 DEF StartupInv, StagesInv
  <2> QED
    BY <2>1, <2>2, <2>3, <2>4, <2>5
<1>5. CountInv'
  <2>1. NoOfCpus' = NoOfCpus \/ stage = 10
    <3>1. CASE SmpInit
      BY <3>1, AtStageIs DEF SmpInit
    <3>2. CASE ~SmpInit
      BY <3>2 DEF OtherStage, AcpiInterfaceParseMadt, SmpSetupLowerMemory, SmpCleanupLowerMemory, counts
    <3> QED
      BY <3>1, <3>2
  <2> QED
    BY <1>2, <2>1 DEF StartupInv, CountInv
<1> QED
  BY <1>3, <1>4, <1>5 DEF StartupInv

LEMMA FailedStage ==
  ASSUME StartupInv, StageFails
  PROVE  StartupInv'
<1>1. stage \in 1 .. 27 /\ stage \notin {20, 21}
  <2>1. PICK name \in CanFail : AtStage(name)
    BY DEF StageFails
  <2>2. stage \in 1 .. 27 /\ Stages[stage] = name /\ name \notin {"SmpSignalAllAPs", "SmpWakeupAps"}
    BY <2>1, AtStageIs DEF CanFail
  <2> QED
    BY <2>2, StageOrder
<1>2. stage' = 0 /\ apState' = apState
  BY DEF StageFails
<1>3. ApsInv'
  BY <1>1, <1>2 DEF StartupInv, ApsInv
<1>4. StagesInv' /\ CountInv'
  BY <1>2 DEF StagesInv, CountInv
<1> QED
  BY <1>3, <1>4 DEF StartupInv

LEMMA BspCounted ==
  ASSUME StartupInv, CpuMuInitBsp
  PROVE  StartupInv'
<1>1. stage = 12 /\ stage' = 13
  BY AtStageIs DEF CpuMuInitBsp, Advance
<1>2. NoOfActiveCpus = 0 /\ ~ApStartupEvent
  BY <1>1 DEF StartupInv, CountInv
<1>3. /\ NoOfActiveCpus' = 1 /\ (ApStartupEvent' => NoOfCpus = 1)
      /\ apState' = [apState EXCEPT ![BspId] = "active"]
      /\ UNCHANGED <<AcpiCpuList, NoOfCpus, CpuList, lowMemory>>
  <2>1. /\ NoOfActiveCpus' = NoOfActiveCpus + 1
        /\ ApStartupEvent' = (ApStartupEvent \/ NoOfActiveCpus' = NoOfCpus)
    BY DEF CpuMuInitBsp, SmpNotifyCpuWakeup
  <2>2. NoOfActiveCpus' = 1
    BY <1>2, <2>1
  <2>3. ApStartupEvent' => NoOfCpus = 1
    BY <1>2, <2>1, <2>2
  <2> QED
    BY <2>2, <2>3 DEF CpuMuInitBsp, acpiLists
<1>4. ApsInv'
  BY <1>1, <1>3, StartupAssumption DEF StartupInv, ApsInv, Aps, ApStates
<1>5. StagesInv'
  BY <1>1, <1>3 DEF StartupInv, StagesInv
<1>6. CountInv'
  BY <1>1, <1>3 DEF CountInv
<1> QED
  BY <1>4, <1>5, <1>6 DEF StartupInv

LEMMA ApsSignalled ==
  ASSUME StartupInv, SmpSignalAllAPs
  PROVE  StartupInv'
<1>1. stage = 20
  BY AtStageIs DEF SmpSignalAllAPs
<1>2. /\ NoOfCpus = Cardinality(MachineCpus) /\ NoOfActiveCpus = 1
      /\ ApStartupEvent => NoOfCpus = 1
      /\ apState[BspId] = "active" /\ \A c \in Aps : apState[c] = "off"
      /\ BspId \in MachineCpus
  BY <1>1, StartupAssumption DEF StartupInv, StagesInv, CountInv, ApsInv
<1>3. /\ UNCHANGED <<AcpiCpuList, CpuList, NoOfCpus, NoOfActiveCpus, ApStartupEvent, lowMemory>>
      /\ apState' = [c \in MachineCpus |-> IF c # BspId /\ NoOfCpus > 1 THEN "low" ELSE apState[c]]
      /\ stage' = IF NoOfCpus > 1 THEN stage + 1 ELSE stage + 2
  BY DEF SmpSignalAllAPs, acpiLists, counts
<1>4. CASE NoOfCpus > 1
  <2>1. /\ stage' = 21 /\ apState'[BspId] = "active" /\ \A c \in Aps : apState'[c] = "low"
        /\ apState' \in [MachineCpus -> ApStates]
    BY <1>1, <1>2, <1>3, <1>4 DEF StartupInv, ApsInv, ApStates, Aps
  <2>2. Started' = {BspId}
    BY <1>2, <2>1 DEF Started, Aps
  <2>3. ApsInv'
    BY <2>1 DEF ApsInv
  <2>4. StagesInv'
    BY <1>1, <1>3, <2>1 DEF StartupInv, StagesInv
  <2>5. CountInv'
    <3>1. Cardinality(Started') = 1
      BY <2>2, FS_Singleton
    <3>2. NoOfCpus # 1
      BY <1>4
    <3> QED
      BY <1>2, <1>3, <2>1, <3>1, <3>2 DEF CountInv
  <2> QED
    BY <2>3, <2>4, <2>5 DEF StartupInv
<1>5. CASE ~(NoOfCpus > 1)
  <2>1. MachineCpus = {BspId}
    <3>1. Cardinality(MachineCpus) = 1
      <4>1. MachineCpus # {}
        BY <1>2
      <4>2. Cardinality(MachineCpus) # 0
        BY <4>1, ListedProcessors, FS_EmptySet
      <4> QED
        BY <1>2, <1>5, <4>2, ListedProcessors
    <3>2. PICK c : MachineCpus = {c}
      BY <3>1, ListedProcessors, FS_Singleton
    <3> QED
      BY <1>2, <3>2
  <2>2. Aps = {}
    BY <2>1 DEF Aps
  <2>3. stage' = 22 /\ apState'[BspId] = "active" /\ apState' \in [MachineCpus -> ApStates]
    BY <1>1, <1>2, <1>3, <1>5 DEF StartupInv, ApsInv
  <2>4. ApsInv'
    BY <2>2, <2>3 DEF ApsInv
  <2>5. StagesInv' /\ CountInv'
    BY <1>1, <1>3, <2>3 DEF StartupInv, StagesInv, CountInv
  <2> QED
    BY <2>4, <2>5 DEF StartupInv
<1> QED
  BY <1>4, <1>5

LEMMA ApsAwaited ==
  ASSUME StartupInv, SmpWakeupAps
  PROVE  StartupInv'
<1>1. stage = 21 /\ ApStartupEvent /\ stage' = 22
  BY AtStageIs DEF SmpWakeupAps, Advance
<1>2. UNCHANGED <<AcpiCpuList, CpuList, NoOfCpus, NoOfActiveCpus, lowMemory, apState>>
  BY DEF SmpWakeupAps, acpiLists, counts
<1>3. Cardinality(Started) = Cardinality(MachineCpus)
  BY <1>1 DEF StartupInv, StagesInv, CountInv
<1>4. Started = MachineCpus
  BY <1>3, AllStarted
<1>5. \A c \in Aps : apState[c] \in {"active", "idle"}
  BY <1>4 DEF Started, Aps
<1>6. ApsInv'
  BY <1>1, <1>2, <1>5 DEF StartupInv, ApsInv
<1>7. StagesInv' /\ CountInv'
  BY <1>1, <1>2 DEF StartupInv, StagesInv, CountInv
<1> QED
  BY <1>6, <1>7 DEF StartupInv

\* Another processor takes a step: the last one to be counted signals.
LEMMA ApSteps ==
  ASSUME StartupInv, NEW c \in MachineCpus, ApStep(c)
  PROVE  StartupInv'
<1>1. c \in Aps
  BY DEF StartupInv, ApsInv, ApStep, ApLeavesLowMemory, LapicSystemInitializeCpu, CpuMuInitAp,
         ApInitIdle, Aps
<1>2. stage \in 0 .. 28 /\ apState \in [MachineCpus -> ApStates]
  BY DEF StartupInv, StagesInv, ApsInv
<1>3. UNCHANGED <<stage, AcpiCpuList, CpuList, NoOfCpus, lowMemory>>
  BY DEF ApStep, ApLeavesLowMemory, LapicSystemInitializeCpu, CpuMuInitAp, ApInitIdle, acpiLists, counts
<1>4. StagesInv'
  BY <1>3 DEF StartupInv, StagesInv
<1>5. ASSUME NEW s \in {"high", "lapic", "active", "idle"}, apState' = [apState EXCEPT ![c] = s],
             stage = 21 \/ (apState[c] = "active" /\ s = "idle")
      PROVE  ApsInv'
  <2>1. /\ apState' \in [MachineCpus -> ApStates] /\ apState'[c] = s
        /\ \A d \in MachineCpus \ {c} : apState'[d] = apState[d]
    BY <1>2, <1>5 DEF ApStates
  <2>2. apState'[BspId] = apState[BspId]
    BY <1>1, <2>1, StartupAssumption DEF Aps
  <2>3. stage = 21 \/ stage = 0 \/ stage > 21
    BY <1>1, <1>2, <1>5 DEF StartupInv, ApsInv
  <2>4. \A d \in Aps :
          /\ stage = 21 => apState'[d] # "off"
          /\ stage = 0 => apState'[d] \in {"off", "active", "idle"}
          /\ stage > 21 => apState'[d] \in {"active", "idle"}
    <3> SUFFICES ASSUME NEW d \in Aps PROVE <2>4!(d)
      OBVIOUS
    <3>1. CASE d = c
      BY <1>5, <2>1, <3>1
    <3>2. CASE d # c
      BY <2>1, <3>2 DEF StartupInv, ApsInv, Aps
    <3> QED
      BY <3>1, <3>2
  <2> QED
    BY <1>2, <1>3, <2>1, <2>2, <2>3, <2>4 DEF StartupInv, ApsInv
<1>6. CASE ApLeavesLowMemory(c) \/ LapicSystemInitializeCpu(c) \/ ApInitIdle(c)
  <2>1. PICK s \in {"high", "lapic", "idle"} :
          /\ apState' = [apState EXCEPT ![c] = s]
          /\ \/ s \in {"high", "lapic"} /\ apState[c] \in {"low", "high"}
             \/ s = "idle" /\ apState[c] = "active"
    BY <1>6 DEF ApLeavesLowMemory, LapicSystemInitializeCpu, ApInitIdle
  <2>2. stage = 21 \/ (apState[c] = "active" /\ s = "idle")
    BY <1>1, <1>2, <2>1 DEF StartupInv, ApsInv
  <2>3. ApsInv'
    BY <1>5, <2>1, <2>2
  <2>4. Started' = Started
    BY <1>2, <2>1 DEF Started
  <2>5. UNCHANGED <<NoOfActiveCpus, ApStartupEvent>>
    BY <1>6 DEF ApLeavesLowMemory, LapicSystemInitializeCpu, ApInitIdle, counts
  <2>6. CountInv'
    BY <1>3, <2>4, <2>5 DEF StartupInv, CountInv
  <2> QED
    BY <1>4, <2>3, <2>6 DEF StartupInv
<1>7. CASE CpuMuInitAp(c)
  <2>1. /\ apState[c] = "lapic" /\ apState' = [apState EXCEPT ![c] = "active"]
        /\ NoOfActiveCpus' = NoOfActiveCpus + 1
        /\ ApStartupEvent' = (ApStartupEvent \/ NoOfActiveCpus' = NoOfCpus)
    BY <1>7 DEF CpuMuInitAp, SmpNotifyCpuWakeup
  <2>2. stage = 21
    BY <1>1, <1>2, <2>1 DEF StartupInv, ApsInv
  <2>3. ApsInv'
    BY <1>5, <2>1, <2>2
  <2>4. c \notin Started /\ Started' = Started \cup {c}
    BY <1>2, <2>1 DEF Started
  <2>5. Cardinality(Started') = Cardinality(Started) + 1
    BY <2>4, AllStarted, FS_AddElement
  <2>6. NoOfActiveCpus = Cardinality(Started) /\ (ApStartupEvent <=> NoOfActiveCpus = NoOfCpus)
        /\ NoOfCpus = Cardinality(MachineCpus)
    BY <2>2 DEF StartupInv, CountInv, StagesInv
  <2>7. ~ApStartupEvent
    BY <2>4, <2>6, AllStarted
  <2>8. CountInv'
    <3>1. stage' = 21 /\ NoOfActiveCpus' = Cardinality(Started')
      BY <1>3, <2>1, <2>2, <2>5, <2>6
    <3>2. ApStartupEvent' <=> NoOfActiveCpus' = NoOfCpus'
      BY <1>3, <2>1, <2>7
    <3> QED
      BY <3>1, <3>2 DEF CountInv
  <2> QED
    BY <1>4, <2>3, <2>8 DEF StartupInv
<1> QED
  BY <1>6, <1>7 DEF ApStep

LEMMA StartupInductive ==
  SystemPreinit /\ [][StartupNext]_startupVars => []StartupInv
<1>1. SystemPreinit => StartupInv
  BY StartupAssumption DEF SystemPreinit, StartupInv, StagesInv, CountInv, ApsInv, ApStates, Aps
<1>2. StartupInv /\ [StartupNext]_startupVars => StartupInv'
  <2> SUFFICES ASSUME StartupInv, [StartupNext]_startupVars PROVE StartupInv'
    OBVIOUS
  <2>1. CASE UNCHANGED startupVars
    BY <2>1 DEF startupVars, acpiLists, counts, StartupInv, StagesInv, CountInv, ApsInv, Started
  <2> QED
    BY <2>1, ListStages, FailedStage, BspCounted, ApsSignalled, ApsAwaited, ApSteps
    DEF StartupNext, SystemInit
<1> QED
  BY <1>1, <1>2, PTL

\* While the processors start in an order nobody controls, one that runs
\* the trampoline (ap_tramp.c) finds its code and a stack of its own; when
\* SmpWakeupAps returns all of them are active; and the event of
\* SmpNotifyCpuWakeup is not missed: for any number of processors.
THEOREM StartupIsSound ==
  SystemPreinit /\ [][StartupNext]_startupVars => []StartupSound
<1>1. StartupInv => StartupSound
  <2> SUFFICES ASSUME StartupInv PROVE StartupSound
    OBVIOUS
  <2>1. stage \in 0 .. 28
    BY DEF StartupInv, StagesInv
  <2>2. ASSUME NEW c \in MachineCpus, apState[c] = "low"
        PROVE  {CodePage, StackPage(c)} \subseteq lowMemory /\ StackPage(c) # CodePage
    <3>1. c \in Aps /\ stage = 21
      BY <2>1, <2>2 DEF StartupInv, ApsInv, Aps
    <3>2. lowMemory = {CodePage} \union StackPages(Aps)
      BY <3>1 DEF StartupInv, StagesInv
    <3>3. c \in Nat /\ c # 0
      BY <3>1, StartupAssumption DEF Aps
    <3> QED
      BY <3>1, <3>2, <3>3 DEF StackPages, StackPage, CodePage
  <2>3. ASSUME Passed("SmpWakeupAps"), NEW i \in DOMAIN CpuList
        PROVE  apState[CpuList[i]] \in {"active", "idle"}
    <3>1. stage > 21
      BY <2>1, <2>3, StageOrder DEF Passed
    <3>2. CpuList = EnabledLapics
      BY <2>1, <3>1 DEF StartupInv, StagesInv
    <3>3. CpuList[i] \in MachineCpus
      BY <3>2, StartupAssumption
    <3> QED
      BY <2>1, <3>1, <3>3 DEF StartupInv, ApsInv, Aps
  <2>4. ASSUME AtStage("SmpWakeupAps"), ~ApStartupEvent
        PROVE  \E i \in DOMAIN CpuList : apState[CpuList[i]] \in {"low", "high", "lapic"}
    <3>1. stage = 21
      BY <2>4, AtStageIs
    <3>2. CpuList = EnabledLapics /\ Cardinality(Started) # Cardinality(MachineCpus)
      BY <2>4, <3>1 DEF StartupInv, StagesInv, CountInv
    <3>3. PICK c \in MachineCpus : c \notin Started
      <4>1. Started # MachineCpus
        BY <3>2
      <4> QED
        BY <4>1 DEF Started
    <3>4. apState[c] \in {"low", "high", "lapic"}
      BY <3>1, <3>3 DEF StartupInv, ApsInv, Aps, ApStates, Started
    <3>5. \E i \in DOMAIN EnabledLapics : EnabledLapics[i] = c
      BY StartupAssumption DEF ToSet
    <3> QED
      BY <3>2, <3>4, <3>5
  <2> QED
    BY <2>2, <2>3, <2>4 DEF StartupSound
<1> QED
  BY <1>1, StartupInductive, PTL

(***************************************************************************)
(* Interrupts: from the registration of a handler to its calls.            *)
(***************************************************************************)

\* The redirection entry of a request's line.
EntryOf(r) == IoApicForIrq(LineOf(r))
OnList(v, r) == Contains(RegisteredInterrupts[v], r)
Programming == registering.stage = "program"

\* What is not guaranteed by the code: IoApicLateSystemInit leaves the lines
\* of the requests it has already served where they were ...
RoutesStay ==
  \A r \in IntRequests :
    OnIoApic(r) /\ ((\E g \in registered : g.req = r) \/ (Programming /\ registering.req = r))
      => EntryOf(r)' = EntryOf(r)

\* ... and devices on one line ask for one priority.
OneLevelPerLine ==
  \A r, s \in IntRequests :
    OnIoApic(r) /\ OnIoApic(s) /\ EntryOf(r) = EntryOf(s) /\ EntryOf(r) # <<>> => r.irql = s.irql

IntTypes ==
  /\ InterruptBitmap \subseteq IntVectors
  /\ RegisteredInterrupts \in [IntVectors -> Seq(IntRequests)]
  /\ registering \in {NoRequest} \union
       [stage : {"program"}, req : IntRequests, vector : IntVectors, redirect : BOOLEAN, shared : BOOLEAN]
  /\ registered \subseteq [req : IntRequests, vector : IntVectors, shared : BOOLEAN]
  /\ MaskInterrupts \in BOOLEAN

\* Lists, the registrations on them and what they raise.
ListsInv ==
  /\ \A v \in IntVectors : RegisteredInterrupts[v] # <<>> => v \in isrRoutines /\ v \in InterruptBitmap
  /\ \A g \in registered : OnList(g.vector, g.req)
  /\ \A g, h \in registered : g.req = h.req => g = h
  /\ Programming => /\ OnList(registering.vector, registering.req)
                    /\ \A g \in registered : g.req # registering.req
  /\ \A r \in raised : \E g \in registered : g.req = r

\* The entries of the IO APICs and the messages.
RoutesInv ==
  /\ \A e \in DOMAIN redirection :
       /\ redirection[e] \in [vector : IntVectors, masked : BOOLEAN]
       /\ RegisteredInterrupts[redirection[e].vector] # <<>>
       /\ ~MaskInterrupts => ~redirection[e].masked
  /\ \A g \in registered :
       /\ OnIoApic(g.req) /\ EntryOf(g.req) \in DOMAIN redirection
            => redirection[EntryOf(g.req)].vector = g.vector
       /\ OnIoApic(g.req) /\ ~g.shared => EntryOf(g.req) \in DOMAIN redirection
       /\ OnIoApic(g.req) => EntryOf(g.req) # <<>>
       /\ g.req.type = "msi" => g.req.dev \in DOMAIN msi /\ msi[g.req.dev] = g.vector

\* A level whose vectors are all taken, and the registration under way.
SharedInv ==
  /\ \A g \in registered :
       g.shared => FreeVectors(g.req.irql) = {} /\ g.vector = IRQL_TO_VECTOR(g.req.irql)
  /\ Programming =>
       LET g == registering IN
       /\ g.shared => FreeVectors(g.req.irql) = {} /\ g.vector = IRQL_TO_VECTOR(g.req.irql)
       /\ g.redirect => \A h \in registered : h.shared => h.req.irql # g.req.irql
       /\ OnIoApic(g.req) =>
            /\ EntryOf(g.req) # <<>>
            /\ IF EntryOf(g.req) \in DOMAIN redirection
               THEN ~g.redirect /\ redirection[EntryOf(g.req)].vector = g.vector
               ELSE g.redirect \/ g.shared

IntInv == IntTypes /\ ListsInv /\ RoutesInv /\ SharedInv /\ ~intHalted

\* The first vector of a level is one of its vectors.
LEMMA FirstOfLevel ==
  ASSUME NEW r \in IntRequests
  PROVE  /\ IRQL_TO_VECTOR(r.irql) \in IntVectors
         /\ VECTOR_TO_IRQL(IRQL_TO_VECTOR(r.irql)) = r.irql
<1> DEFINE n == r.irql
           w == VectorsPerIrql
           q == (n * w) \div w
<1>1. n \in Nat /\ w \in Nat \ {0} /\ n * w \in Nat
  BY IntAssumption
<1> HIDE DEF n, w
<1>2. q \in Nat /\ (n * w) % w \in 0 .. w - 1 /\ n * w = (w * q) + ((n * w) % w)
  BY <1>1
<1>3. q = n
  <2> DEFINE m == (n * w) % w
  <2> HIDE DEF m, q
  <2>1. m \in 0 .. w - 1 /\ n * w = (w * q) + m /\ q \in Nat
    BY <1>2 DEF m
  <2>2. CASE q > n
    <3>1. w * q >= w * (n + 1)
      BY <1>1, <2>1, <2>2
    <3> QED
      BY <1>1, <2>1, <3>1
  <2>3. CASE q < n
    <3>1. w * n >= w * (q + 1)
      BY <1>1, <2>1, <2>3
    <3> QED
      BY <1>1, <2>1, <3>1
  <2> QED
    BY <1>1, <2>1, <2>2, <2>3
<1>4. n * w \in n * w .. n * w + w - 1
  BY <1>1
<1> QED
  BY <1>3, <1>4 DEF n, w, IRQL_TO_VECTOR, VECTOR_TO_IRQL, IntVectors

\* What a registration gets.
LEMMA Chosen ==
  ASSUME IntInv, NEW r \in IntRequests
  PROVE  /\ ChosenVector(r) \in IntVectors
         /\ TakesVector(r) =>
              /\ ChosenVector(r) \in FreeVectors(r.irql) /\ FreeVectors(r.irql) # {} /\ ~Configured(r)
              /\ RegisteredInterrupts[ChosenVector(r)] = <<>>
         /\ ~TakesVector(r) /\ ~Configured(r) =>
              FreeVectors(r.irql) = {} /\ ChosenVector(r) = IRQL_TO_VECTOR(r.irql)
         /\ ~TakesVector(r) => ChosenVector(r) \in InterruptBitmap
         /\ Configured(r) =>
              /\ EntryOf(r) \in DOMAIN redirection /\ ChosenVector(r) = redirection[EntryOf(r)].vector
              /\ RegisteredInterrupts[ChosenVector(r)] # <<>>
<1>1. IntVectors \in SUBSET Nat
  BY IntAssumption DEF IntVectors, IRQL_TO_VECTOR
<1>2. CASE Configured(r)
  <2>1. /\ EntryOf(r) \in DOMAIN redirection /\ ChosenVector(r) = redirection[EntryOf(r)].vector
        /\ ~TakesVector(r)
    BY <1>2 DEF Configured, ChosenVector, VectorForIrq, EntryOf, TakesVector
  <2>2. ChosenVector(r) \in IntVectors /\ RegisteredInterrupts[ChosenVector(r)] # <<>>
    BY <2>1 DEF IntInv, RoutesInv
  <2>3. ChosenVector(r) \in InterruptBitmap
    BY <2>2 DEF IntInv, ListsInv
  <2> QED
    BY <1>2, <2>1, <2>2, <2>3
<1>3. CASE ~Configured(r) /\ FreeVectors(r.irql) # {}
  <2>1. TakesVector(r) /\ ChosenVector(r) = Min(FreeVectors(r.irql))
    BY <1>3 DEF TakesVector, ChosenVector
  <2>2. FreeVectors(r.irql) \in SUBSET Nat
    BY <1>1 DEF FreeVectors
  <2>3. ChosenVector(r) \in FreeVectors(r.irql)
    BY <1>3, <2>1, <2>2, MinIsLeast
  <2>4. ChosenVector(r) \in IntVectors /\ ChosenVector(r) \notin InterruptBitmap
    BY <2>3 DEF FreeVectors
  <2>5. RegisteredInterrupts[ChosenVector(r)] = <<>>
    BY <2>4 DEF IntInv, ListsInv
  <2> QED
    BY <1>3, <2>1, <2>3, <2>4, <2>5
<1>4. CASE ~Configured(r) /\ FreeVectors(r.irql) = {}
  <2>1. ~TakesVector(r) /\ ChosenVector(r) = IRQL_TO_VECTOR(r.irql)
    BY <1>4 DEF TakesVector, ChosenVector
  <2>2. ChosenVector(r) \in IntVectors /\ VECTOR_TO_IRQL(ChosenVector(r)) = r.irql
    BY <2>1, FirstOfLevel
  <2>3. ChosenVector(r) \in InterruptBitmap
    BY <1>4, <2>2 DEF FreeVectors
  <2> QED
    BY <1>4, <2>1, <2>2, <2>3
<1> QED
  BY <1>2, <1>3, <1>4

\* Lines are a matter of the tables.
LEMMA LinesStay ==
  ASSUME UNCHANGED tableVars
  PROVE  \A r : EntryOf(r)' = EntryOf(r)
BY DEF tableVars, EntryOf, IoApicForIrq, LineOf, InterruptOverrideForIrq, InterruptLineForPciDevice

\* The queue of a vector gets a last entry.
LEMMA ListGrows ==
  ASSUME NEW s \in Seq(IntRequests), NEW r \in IntRequests
  PROVE  /\ Append(s, r) \in Seq(IntRequests) /\ Append(s, r) # <<>>
         /\ Contains(Append(s, r), r)
         /\ \A x : Contains(s, x) => Contains(Append(s, r), x)
<1>1. /\ Append(s, r) \in Seq(IntRequests) /\ Len(Append(s, r)) = Len(s) + 1
      /\ Append(s, r)[Len(s) + 1] = r /\ \A i \in 1 .. Len(s) : Append(s, r)[i] = s[i]
      /\ Len(s) \in Nat
  OBVIOUS
<1>2. Len(s) + 1 \in 1 .. Len(Append(s, r)) /\ \A i \in 1 .. Len(s) : i \in 1 .. Len(Append(s, r))
  BY <1>1
<1>3. Append(s, r) # <<>>
  BY <1>1
<1> QED
  BY <1>1, <1>2, <1>3 DEF Contains

\* The tables of lines change, or the masks.
LEMMA TablesKeepInv ==
  ASSUME IntInv, IoApicLateSystemInit \/ IoApicSystemEnableRegisteredInterrupts, RoutesStay
  PROVE  IntInv'
<1>1. UNCHANGED <<vectorVars, msi, registering, registered, raised, intHalted>>
  BY DEF IoApicLateSystemInit, IoApicSystemEnableRegisteredInterrupts, routeVars
<1>2. /\ DOMAIN redirection' = DOMAIN redirection
      /\ \A e \in DOMAIN redirection :
           /\ redirection'[e] \in [vector : IntVectors, masked : BOOLEAN]
           /\ redirection'[e].vector = redirection[e].vector
           /\ ~MaskInterrupts' => ~redirection'[e].masked
  <2>1. CASE IoApicLateSystemInit
    BY <2>1 DEF IoApicLateSystemInit, routeVars, IntInv, RoutesInv
  <2>2. CASE IoApicSystemEnableRegisteredInterrupts
    <3>1. redirection' = [e \in DOMAIN redirection |-> [redirection[e] EXCEPT !.masked = FALSE]]
      BY <2>2 DEF IoApicSystemEnableRegisteredInterrupts
    <3>2. \A e \in DOMAIN redirection : redirection[e] \in [vector : IntVectors, masked : BOOLEAN]
      BY DEF IntInv, RoutesInv
    <3> QED
      BY <3>1, <3>2
  <2> QED
    BY <2>1, <2>2
<1>3. \A g \in registered : OnIoApic(g.req) => EntryOf(g.req)' = EntryOf(g.req)
  BY DEF RoutesStay, IntInv, IntTypes
<1>4. Programming /\ OnIoApic(registering.req) => EntryOf(registering.req)' = EntryOf(registering.req)
  <2>1. Programming => registering.req \in IntRequests
    BY DEF IntInv, IntTypes, Programming, NoRequest
  <2>2. registering' = registering
    BY <1>1
  <2> QED
    BY <2>1, <2>2 DEF RoutesStay
<1>5. MaskInterrupts' \in BOOLEAN
  BY DEF IoApicLateSystemInit, IoApicSystemEnableRegisteredInterrupts, IntInv, IntTypes
<1>6. IntTypes' /\ ListsInv' /\ ~intHalted'
  BY <1>1, <1>5 DEF IntInv, IntTypes, ListsInv, vectorVars, OnList, Programming
<1>7. RoutesInv'
  BY <1>1, <1>2, <1>3 DEF IntInv, RoutesInv, vectorVars
<1>8. SharedInv'
  BY <1>1, <1>2, <1>3, <1>4 DEF IntInv, SharedInv, Programming, FreeVectors, vectorVars
<1> QED
  BY <1>6, <1>7, <1>8 DEF IntInv

\* The first half of a registration.
LEMMA RegisterKeepsInv ==
  ASSUME IntInv, NEW r \in IntRequests, NEW allocated \in BOOLEAN, IomuRegisterInterrupt(r, allocated)
  PROVE  IntInv'
<1> DEFINE v == ChosenVector(r)
           empty == RegisteredInterrupts[v] = <<>>
           put == ~(empty /\ v \in isrRoutines) /\ allocated
           g == [stage |-> "program", req |-> r, vector |-> v, redirect |-> empty,
                 shared |-> ~TakesVector(r) /\ ~Configured(r)]
<1>1. /\ ~intHalted /\ Unregistered(r) /\ ~RegisterRefused(r)
      /\ InterruptBitmap' = IF TakesVector(r) THEN InterruptBitmap \union {v} ELSE InterruptBitmap
      /\ isrRoutines' = IF empty THEN isrRoutines \union {v} ELSE isrRoutines
      /\ intHalted' = (~empty /\ r.exclusive)
      /\ put => /\ RegisteredInterrupts' = [RegisteredInterrupts EXCEPT ![v] = Append(@, r)]
                /\ registering' = g
      /\ ~put => UNCHANGED <<RegisteredInterrupts, registering>>
      /\ UNCHANGED <<tableVars, routeVars, registered, raised>>
  BY DEF IomuRegisterInterrupt
<1>2. /\ v \in IntVectors
      /\ TakesVector(r) => /\ v \in FreeVectors(r.irql) /\ FreeVectors(r.irql) # {} /\ ~Configured(r)
                           /\ empty
      /\ ~TakesVector(r) /\ ~Configured(r) => FreeVectors(r.irql) = {} /\ v = IRQL_TO_VECTOR(r.irql)
      /\ ~TakesVector(r) => v \in InterruptBitmap
      /\ Configured(r) => /\ EntryOf(r) \in DOMAIN redirection /\ v = redirection[EntryOf(r)].vector
                          /\ ~empty
  BY Chosen
<1>3. /\ g.stage = "program" /\ g.req = r /\ g.vector = v /\ g.redirect = empty
      /\ g.shared = (~TakesVector(r) /\ ~Configured(r))
      /\ g \in [stage : {"program"}, req : IntRequests, vector : IntVectors,
                redirect : BOOLEAN, shared : BOOLEAN]
  BY <1>2
<1>4. registering.stage # "program"
  BY <1>1 DEF Unregistered, NoRequest
<1>5. ~intHalted'
  <2>1. r.exclusive => TakesVector(r)
    BY <1>1 DEF RegisterRefused
  <2> HIDE DEF v, empty
  <2> QED
    BY <1>1, <1>2, <2>1
<1>6. \A q : EntryOf(q)' = EntryOf(q)
  BY <1>1, LinesStay
<1> HIDE DEF g
<1>7. RegisteredInterrupts \in [IntVectors -> Seq(IntRequests)]
  BY DEF IntInv, IntTypes
<1>8. /\ RegisteredInterrupts' \in [IntVectors -> Seq(IntRequests)]
      /\ \A u \in IntVectors : u # v => RegisteredInterrupts'[u] = RegisteredInterrupts[u]
      /\ \A u \in IntVectors : \A q : OnList(u, q) => OnList(u, q)'
      /\ \A u \in IntVectors : RegisteredInterrupts[u] # <<>> => RegisteredInterrupts'[u] # <<>>
      /\ put => Contains(RegisteredInterrupts'[v], r)
  <2>1. CASE ~put
    BY <1>1, <1>7, <2>1 DEF OnList
  <2>2. CASE put
    <3> DEFINE s == RegisteredInterrupts[v]
    <3>1. s \in Seq(IntRequests)
      BY <1>2, <1>7
    <3>2. RegisteredInterrupts' = [RegisteredInterrupts EXCEPT ![v] = Append(s, r)]
      BY <1>1, <2>2
    <3>3. /\ Append(s, r) \in Seq(IntRequests) /\ Append(s, r) # <<>> /\ Contains(Append(s, r), r)
          /\ \A x : Contains(s, x) => Contains(Append(s, r), x)
      BY <3>1, ListGrows
    <3>4. \A u \in IntVectors : RegisteredInterrupts'[u] = IF u = v THEN Append(s, r) ELSE RegisteredInterrupts[u]
      BY <1>7, <3>2
    <3>5. RegisteredInterrupts' \in [IntVectors -> Seq(IntRequests)]
      BY <1>2, <1>7, <3>2, <3>3
    <3> HIDE DEF v, put, empty
    <3>6. \A u \in IntVectors : \A q : OnList(u, q) => OnList(u, q)'
      BY <3>3, <3>4 DEF OnList
    <3>7. Contains(RegisteredInterrupts'[v], r)
      BY <1>2, <3>3, <3>4
    <3>8. \A u \in IntVectors : u # v => RegisteredInterrupts'[u] = RegisteredInterrupts[u]
      BY <3>4
    <3>9. \A u \in IntVectors : RegisteredInterrupts[u] # <<>> => RegisteredInterrupts'[u] # <<>>
      BY <3>3, <3>4
    <3> QED
      BY <3>5, <3>6, <3>7, <3>8, <3>9
  <2> QED
    BY <2>1, <2>2
<1>9. v \in InterruptBitmap' /\ InterruptBitmap \subseteq InterruptBitmap' /\ InterruptBitmap' \subseteq IntVectors
  BY <1>1, <1>2 DEF IntInv, IntTypes
<1>10. isrRoutines \subseteq isrRoutines' /\ v \in isrRoutines'
  <2>1. ~empty => v \in isrRoutines
    BY <1>2 DEF IntInv, ListsInv
  <2> HIDE DEF v, empty, put
  <2> QED
    BY <1>1, <2>1
<1> HIDE DEF put
<1>11. \/ put /\ registering' = g
       \/ ~put /\ registering' = registering
  BY <1>1
<1>12. \A irql : FreeVectors(irql) = {} => FreeVectors(irql)' = {}
  BY <1>9 DEF FreeVectors
<1> HIDE DEF v, empty
<1>13. UNCHANGED <<registered, raised, redirection, msi, MaskInterrupts>>
  BY <1>1 DEF routeVars, tableVars
<1>14. IntTypes'
  BY <1>3, <1>8, <1>9, <1>11, <1>13 DEF IntInv, IntTypes
<1>15. ListsInv'
  <2>1. \A u \in IntVectors : RegisteredInterrupts'[u] # <<>> => u \in isrRoutines' /\ u \in InterruptBitmap'
    BY <1>8, <1>9, <1>10 DEF IntInv, ListsInv
  <2>2. \A h \in registered : OnList(h.vector, h.req)'
    BY <1>8 DEF IntInv, IntTypes, ListsInv
  <2>3. Programming' => /\ OnList(registering.vector, registering.req)'
                        /\ \A h \in registered' : h.req # registering'.req
    <3>1. CASE ~put
      BY <1>4, <1>11, <3>1 DEF Programming
    <3>2. CASE put
      <4>1. registering'.vector = v /\ registering'.req = r
        BY <1>3, <1>11, <3>2
      <4>2. OnList(registering.vector, registering.req)'
        BY <1>8, <3>2, <4>1 DEF OnList
      <4>3. \A h \in registered : h.req # r
        BY <1>1 DEF Unregistered
      <4> QED
        BY <1>13, <4>1, <4>2, <4>3
    <3> QED
      BY <3>1, <3>2
  <2> QED
    BY <1>13, <2>1, <2>2, <2>3 DEF IntInv, ListsInv
<1>16. RoutesInv'
  BY <1>6, <1>8, <1>13 DEF IntInv, RoutesInv
<1>17. SharedInv'
  <2>1. \A h \in registered : h.shared => FreeVectors(h.req.irql)' = {} /\ h.vector = IRQL_TO_VECTOR(h.req.irql)
    BY <1>12 DEF IntInv, SharedInv
  <2>2. CASE ~put
    BY <1>4, <1>11, <1>13, <2>1, <2>2 DEF SharedInv, Programming
  <2>3. CASE put
    <3>1. registering' = g
      BY <1>11, <2>3
    <3>2. g.shared => FreeVectors(r.irql)' = {} /\ v = IRQL_TO_VECTOR(r.irql)
      BY <1>2, <1>3, <1>12
    <3>3. ASSUME g.redirect, NEW h \in registered, h.shared PROVE h.req.irql # r.irql
      <4>1. FreeVectors(h.req.irql) = {} /\ h.vector = IRQL_TO_VECTOR(h.req.irql)
            /\ OnList(h.vector, h.req) /\ h.vector \in IntVectors
        BY <3>3 DEF IntInv, IntTypes, SharedInv, ListsInv
      <4>2. RegisteredInterrupts[h.vector] # <<>>
        BY <1>7, <4>1 DEF OnList, Contains
      <4> QED
        BY <1>2, <1>3, <3>3, <4>1, <4>2 DEF empty
    <3>4. ASSUME OnIoApic(r)
          PROVE  /\ EntryOf(r) # <<>>
                 /\ IF EntryOf(r) \in DOMAIN redirection
                    THEN ~g.redirect /\ redirection[EntryOf(r)].vector = v
                    ELSE g.redirect \/ g.shared
      <4>1. EntryOf(r) # <<>>
        BY <1>1, <3>4 DEF RegisterRefused, EntryOf
      <4>2. EntryOf(r) \in DOMAIN redirection <=> Configured(r)
        BY <3>4 DEF Configured, EntryOf
      <4> QED
        BY <1>2, <1>3, <4>1, <4>2
    <3> QED
      BY <1>3, <1>6, <1>13, <2>1, <3>1, <3>2, <3>3, <3>4 DEF SharedInv
  <2> QED
    BY <2>2, <2>3
<1> QED
  BY <1>5, <1>14, <1>15, <1>16, <1>17 DEF IntInv

\* The second half: the device is told where to go, or it failed.
LEMMA ProgramKeepsInv ==
  ASSUME IntInv, OneLevelPerLine,
         \/ \E programmed \in BOOLEAN : ProgramPciInterrupt(programmed)
         \/ IoApicSystemSetInterrupt \/ RegisterLapic
  PROVE  IntInv'
<1> DEFINE g == registering
           n == [req |-> g.req, vector |-> g.vector, shared |-> g.shared]
           e == EntryOf(g.req)
           done == g.redirect /\ e \notin DOMAIN redirection
<1>1. /\ g.stage = "program" /\ registering' = NoRequest
      /\ UNCHANGED <<tableVars, vectorVars, raised, intHalted>>
  BY DEF ProgramPciInterrupt, IoApicSystemSetInterrupt, RegisterLapic, routeVars
<1>2. /\ g.req \in IntRequests /\ g.vector \in IntVectors /\ g.redirect \in BOOLEAN /\ g.shared \in BOOLEAN
      /\ OnList(g.vector, g.req) /\ \A h \in registered : h.req # g.req
  BY <1>1 DEF IntInv, IntTypes, ListsInv, Programming, NoRequest
<1>3. /\ n.req = g.req /\ n.vector = g.vector /\ n.shared = g.shared
      /\ n \in [req : IntRequests, vector : IntVectors, shared : BOOLEAN]
  BY <1>2
<1>4. registered' = registered \/ registered' = registered \union {n}
  BY DEF ProgramPciInterrupt, IoApicSystemSetInterrupt, RegisterLapic, Registered
<1>5. \A q : EntryOf(q)' = EntryOf(q)
  BY <1>1, LinesStay
<1> HIDE DEF n
<1>6. ~Programming'
  BY <1>1 DEF Programming, NoRequest
<1>7. IntTypes'
  BY <1>1, <1>3, <1>4 DEF IntInv, IntTypes, vectorVars, tableVars
<1>8. ListsInv'
  <2>1. \A u, q : OnList(u, q)' = OnList(u, q)
    BY <1>1 DEF OnList, vectorVars
  <2>2. \A h \in registered' : OnList(h.vector, h.req)'
    BY <1>2, <1>3, <1>4, <2>1 DEF IntInv, ListsInv
  <2>3. \A h, k \in registered' : h.req = k.req => h = k
    BY <1>2, <1>3, <1>4 DEF IntInv, ListsInv
  <2> QED
    BY <1>1, <1>4, <1>6, <2>2, <2>3 DEF IntInv, ListsInv, vectorVars
<1>9. \A irql : FreeVectors(irql)' = FreeVectors(irql)
  BY <1>1 DEF FreeVectors, vectorVars
<1>10. /\ g.shared => FreeVectors(g.req.irql) = {} /\ g.vector = IRQL_TO_VECTOR(g.req.irql)
       /\ g.redirect => \A h \in registered : h.shared => h.req.irql # g.req.irql
       /\ OnIoApic(g.req) => /\ e # <<>>
                             /\ IF e \in DOMAIN redirection
                                THEN ~g.redirect /\ redirection[e].vector = g.vector
                                ELSE g.redirect \/ g.shared
  BY <1>1 DEF IntInv, SharedInv, Programming
<1>11. SharedInv'
  BY <1>3, <1>4, <1>6, <1>9, <1>10 DEF IntInv, SharedInv
<1>12. RegisteredInterrupts[g.vector] # <<>>
  BY <1>2 DEF IntInv, IntTypes, OnList, Contains
<1>13. \A u \in IntVectors : RegisteredInterrupts'[u] = RegisteredInterrupts[u]
  BY <1>1 DEF vectorVars
<1> DEFINE RoutesOf(h) ==
             /\ OnIoApic(h.req) /\ EntryOf(h.req) \in DOMAIN redirection'
                  => redirection'[EntryOf(h.req)].vector = h.vector
             /\ OnIoApic(h.req) /\ ~h.shared => EntryOf(h.req) \in DOMAIN redirection'
             /\ OnIoApic(h.req) => EntryOf(h.req) # <<>>
             /\ h.req.type = "msi" => h.req.dev \in DOMAIN msi' /\ msi'[h.req.dev] = h.vector
<1>14. ASSUME \A f \in DOMAIN redirection' :
                /\ redirection'[f] \in [vector : IntVectors, masked : BOOLEAN]
                /\ RegisteredInterrupts[redirection'[f].vector] # <<>>
                /\ ~MaskInterrupts => ~redirection'[f].masked,
              \A h \in registered' : RoutesOf(h)
       PROVE  RoutesInv'
  BY <1>1, <1>5, <1>13, <1>14 DEF RoutesInv, tableVars
<1>15. ASSUME NEW h \in registered, UNCHANGED <<redirection, msi>> PROVE RoutesOf(h)
  BY <1>15 DEF IntInv, RoutesInv
<1>16. \A f \in DOMAIN redirection :
         /\ redirection[f] \in [vector : IntVectors, masked : BOOLEAN]
         /\ RegisteredInterrupts[redirection[f].vector] # <<>>
         /\ ~MaskInterrupts => ~redirection[f].masked
  BY DEF IntInv, RoutesInv
<1>17. ASSUME RegisterLapic PROVE RoutesInv'
  <2>1. UNCHANGED <<redirection, msi>> /\ ~OnIoApic(g.req) /\ g.req.type # "msi"
    BY <1>17 DEF RegisterLapic, routeVars, OnIoApic
  <2>2. \A h \in registered' : RoutesOf(h)
    BY <1>3, <1>4, <1>15, <2>1
  <2> HIDE DEF RoutesOf
  <2> QED
    BY <1>14, <1>16, <2>1, <2>2
<1>18. ASSUME NEW programmed \in BOOLEAN, ProgramPciInterrupt(programmed) PROVE RoutesInv'
  <2>1. redirection' = redirection /\ g.req.type = "msi" /\ ~OnIoApic(g.req)
    BY <1>18 DEF ProgramPciInterrupt, OnIoApic
  <2>2. CASE ~programmed
    <3>1. msi' = msi /\ registered' = registered
      BY <1>18, <2>2 DEF ProgramPciInterrupt
    <3>2. \A h \in registered' : RoutesOf(h)
      BY <1>15, <2>1, <3>1
    <3> HIDE DEF RoutesOf
    <3> QED
      BY <1>14, <1>16, <2>1, <3>2
  <2>3. CASE programmed
    <3>1. msi' = Written(msi, g.req.dev, g.vector)
      BY <1>18, <2>3 DEF ProgramPciInterrupt
    <3>2. /\ DOMAIN msi' = DOMAIN msi \union {g.req.dev} /\ msi'[g.req.dev] = g.vector
          /\ \A d \in DOMAIN msi : d # g.req.dev => msi'[d] = msi[d]
      <4> DEFINE d0 == g.req.dev
                 w == Written(msi, d0, g.vector)
      <4>1. DOMAIN w = DOMAIN msi \union {d0} /\ w[d0] = g.vector /\ \A d \in DOMAIN msi : d # d0 => w[d] = msi[d]
        BY DEF Written
      <4> QED
        BY <3>1, <4>1
    <3>3. ASSUME NEW h \in registered, h.req.type = "msi" PROVE h.req.dev # g.req.dev
      BY <1>2, <2>1, <3>3, IntAssumption DEF IntInv, IntTypes
    <3>4. ASSUME NEW h \in registered PROVE RoutesOf(h)
      BY <2>1, <3>2, <3>3 DEF IntInv, RoutesInv
    <3>5. RoutesOf(n)
      BY <1>3, <2>1, <3>2
    <3>6. \A h \in registered' : RoutesOf(h)
      BY <1>4, <3>4, <3>5
    <3> HIDE DEF RoutesOf
    <3> QED
      BY <1>14, <1>16, <2>1, <3>6
  <2> QED
    BY <2>2, <2>3
<1>19. ASSUME IoApicSystemSetInterrupt PROVE RoutesInv'
  <2>1. /\ OnIoApic(g.req) /\ msi' = msi
        /\ redirection' = IF done THEN Written(redirection, e, [vector |-> g.vector, masked |-> MaskInterrupts])
                          ELSE redirection
        /\ IF done \/ ~g.redirect THEN registered' = registered \union {n} ELSE registered' = registered
    BY <1>19 DEF IoApicSystemSetInterrupt, Registered, EntryOf, n
  <2>2. g.req.type # "msi"
    BY <2>1 DEF OnIoApic
  <2>3. ASSUME ~done PROVE RoutesInv'
    <3>1. redirection' = redirection
      BY <2>1, <2>3
    <3>2. ASSUME ~g.redirect PROVE RoutesOf(n)
      BY <1>3, <1>10, <2>1, <2>2, <3>1, <3>2
    <3>3. \A h \in registered' : RoutesOf(h)
      BY <1>15, <2>1, <2>3, <3>1, <3>2
    <3> HIDE DEF RoutesOf
    <3> QED
      BY <1>14, <1>16, <3>1, <3>3
  <2>4. ASSUME done PROVE RoutesInv'
    <3> DEFINE value == [vector |-> g.vector, masked |-> MaskInterrupts]
    <3>1. /\ DOMAIN redirection' = DOMAIN redirection \union {e} /\ redirection'[e] = value
          /\ \A f \in DOMAIN redirection : f # e => redirection'[f] = redirection[f]
      <4> DEFINE w == Written(redirection, e, value)
      <4> HIDE DEF e, value
      <4>1. DOMAIN w = DOMAIN redirection \union {e} /\ w[e] = value
            /\ \A f \in DOMAIN redirection : f # e => w[f] = redirection[f]
        BY DEF Written
      <4>2. redirection' = w
        BY <2>1, <2>4 DEF value
      <4> QED
        BY <4>1, <4>2
    <3>2. /\ value.vector = g.vector /\ value.masked = MaskInterrupts
          /\ value \in [vector : IntVectors, masked : BOOLEAN]
      BY <1>2 DEF IntInv, IntTypes
    <3> HIDE DEF value
    <3>3. ASSUME NEW h \in registered, OnIoApic(h.req) PROVE EntryOf(h.req) # e
      <4>1. SUFFICES ASSUME EntryOf(h.req) = e PROVE FALSE
        OBVIOUS
      <4>2. h.shared
        BY <2>4, <3>3, <4>1 DEF IntInv, RoutesInv
      <4>3. h.req.irql = g.req.irql
        BY <1>2, <1>10, <2>1, <3>3, <4>1 DEF OneLevelPerLine, IntInv, IntTypes
      <4> QED
        BY <1>10, <2>4, <4>2, <4>3
    <3>4. ASSUME NEW h \in registered PROVE RoutesOf(h)
      BY <2>1, <3>1, <3>3 DEF IntInv, RoutesInv
    <3>5. RoutesOf(n)
      BY <1>3, <1>10, <2>1, <2>2, <3>1, <3>2
    <3>6. \A h \in registered' : RoutesOf(h)
      BY <1>4, <3>4, <3>5
    <3>7. \A f \in DOMAIN redirection' :
            /\ redirection'[f] \in [vector : IntVectors, masked : BOOLEAN]
            /\ RegisteredInterrupts[redirection'[f].vector] # <<>>
            /\ ~MaskInterrupts => ~redirection'[f].masked
      BY <1>2, <1>12, <1>16, <3>1, <3>2
    <3> HIDE DEF RoutesOf
    <3> QED
      BY <1>14, <3>6, <3>7
  <2> QED
    BY <2>3, <2>4
<1>20. RoutesInv'
  BY <1>17, <1>18, <1>19
<1> QED
  BY <1>1, <1>7, <1>8, <1>11, <1>20 DEF IntInv

\* What a live registration means.
LEMMA PresentedOnList ==
  ASSUME IntInv, NEW r \in raised, NEW v \in PresentedVectors(r)
  PROVE  /\ v \in IntVectors /\ v \in isrRoutines /\ ClaimedBy(v) # 0
         /\ ClaimedBy(v) \in 1 .. Len(RegisteredInterrupts[v])
<1>1. PICK g \in registered : g.req = r
  BY DEF IntInv, ListsInv
<1>2. v = g.vector
  <2>1. CASE r.type = "msi"
    BY <1>1, <2>1 DEF PresentedVectors, IntInv, RoutesInv
  <2>2. CASE OnIoApic(r)
    BY <1>1, <2>2 DEF PresentedVectors, OnIoApic, IntInv, RoutesInv, EntryOf
  <2>3. CASE r.type # "msi" /\ ~OnIoApic(r)
    BY <1>1, <2>3 DEF PresentedVectors, IntInv, ListsInv
  <2> QED
    BY <2>1, <2>2, <2>3
<1>3. /\ v \in IntVectors /\ OnList(v, r) /\ RegisteredInterrupts[v] \in Seq(IntRequests)
  BY <1>1, <1>2 DEF IntInv, IntTypes, ListsInv
<1>4. RegisteredInterrupts[v] # <<>>
  BY <1>3 DEF OnList, Contains
<1> DEFINE list == RegisteredInterrupts[v]
           claim == {i \in 1 .. Len(list) : list[i] \in raised}
<1>5. claim # {} /\ claim \in SUBSET Nat
  BY <1>3 DEF OnList, Contains
<1>6. ClaimedBy(v) = Min(claim)
  BY <1>5 DEF ClaimedBy, SelectInSeq
<1>7. Min(claim) \in claim
  BY <1>5, MinIsLeast
<1> QED
  BY <1>3, <1>4, <1>6, <1>7 DEF IntInv, ListsInv

\* A device and its handler.
LEMMA DeliveryKeepsInv ==
  ASSUME IntInv,
         \/ \E r \in IntRequests : DeviceRaises(r)
         \/ \E v \in IntVectors : IsrInterruptHandler(v)
  PROVE  IntInv'
<1>1. UNCHANGED <<tableVars, vectorVars, routeVars, registering, registered>>
  BY DEF DeviceRaises, IsrInterruptHandler
<1>2. \A r \in raised' : \E g \in registered : g.req = r
  BY DEF DeviceRaises, IsrInterruptHandler, IntInv, ListsInv
<1>3. ~intHalted'
  <2>1. ASSUME NEW v \in IntVectors, IsrInterruptHandler(v) PROVE ~intHalted'
    <3>1. PICK r \in raised : v \in PresentedVectors(r)
      BY <2>1 DEF IsrInterruptHandler
    <3>2. v \in isrRoutines /\ ClaimedBy(v) # 0
      BY <3>1, PresentedOnList
    <3> QED
      BY <2>1, <3>2 DEF IsrInterruptHandler
  <2>2. ASSUME NEW r \in IntRequests, DeviceRaises(r) PROVE ~intHalted'
    BY <2>2 DEF DeviceRaises
  <2> QED
    BY <2>1, <2>2
<1>4. \A q : EntryOf(q)' = EntryOf(q)
  BY <1>1, LinesStay
<1>5. IntTypes' /\ ListsInv'
  BY <1>1, <1>2 DEF IntInv, IntTypes, ListsInv, OnList, Programming, vectorVars, tableVars
<1>6. RoutesInv'
  BY <1>1, <1>4 DEF IntInv, RoutesInv, routeVars, tableVars, vectorVars
<1>7. SharedInv'
  BY <1>1, <1>4 DEF IntInv, SharedInv, Programming, FreeVectors, routeVars, vectorVars
<1> QED
  BY <1>3, <1>5, <1>6, <1>7 DEF IntInv

\* A registration of IomuRegisterInterrupt that was reported as good is live,
\* and no interrupt stops the system, for any devices, lines, levels and
\* tables: as long as IoApicLateSystemInit leaves the lines it has served
\* alone and devices on one line ask for one priority.
THEOREM InterruptsSafe ==
  IntInit /\ [][IntNext /\ RoutesStay /\ OneLevelPerLine]_intVars => []InterruptsSound
<1>1. IntInit => IntInv
  <2> SUFFICES ASSUME IntInit PROVE IntInv
    OBVIOUS
  <2>1. /\ InterruptBitmap = {} /\ RegisteredInterrupts = [v \in IntVectors |-> <<>>]
        /\ registering = NoRequest /\ registered = {} /\ raised = {} /\ ~intHalted
        /\ MaskInterrupts = TRUE /\ redirection = <<>>
    BY DEF IntInit, IomuPreinitSystem, IoApicSystemInit, IoApicSystemInitEntry
  <2>2. IntTypes
    BY <2>1 DEF IntTypes
  <2>3. ~Programming
    BY <2>1 DEF Programming, NoRequest
  <2>4. ListsInv
    BY <2>1, <2>3 DEF ListsInv
  <2>5. RoutesInv
    BY <2>1 DEF RoutesInv
  <2>6. SharedInv
    BY <2>1, <2>3 DEF SharedInv
  <2> QED
    BY <2>1, <2>2, <2>4, <2>5, <2>6 DEF IntInv
<1>2. IntInv /\ [IntNext /\ RoutesStay /\ OneLevelPerLine]_intVars => IntInv'
  <2> SUFFICES ASSUME IntInv, [IntNext /\ RoutesStay /\ OneLevelPerLine]_intVars PROVE IntInv'
    OBVIOUS
  <2>1. CASE UNCHANGED intVars
    <3>1. \A q : EntryOf(q)' = EntryOf(q)
      BY <2>1, LinesStay DEF intVars
    <3>2. UNCHANGED <<vectorVars, routeVars, registering, registered, raised, intHalted, MaskInterrupts>>
      BY <2>1 DEF intVars, tableVars
    <3>3. IntTypes' /\ ListsInv'
      BY <3>2 DEF IntInv, IntTypes, ListsInv, OnList, Programming, vectorVars
    <3>4. RoutesInv'
      BY <3>1, <3>2 DEF IntInv, RoutesInv, routeVars, vectorVars
    <3>5. SharedInv'
      BY <3>1, <3>2 DEF IntInv, SharedInv, Programming, FreeVectors, routeVars, vectorVars
    <3> QED
      BY <3>2, <3>3, <3>4, <3>5 DEF IntInv
  <2>2. CASE IntNext /\ RoutesStay /\ OneLevelPerLine
    BY <2>2, TablesKeepInv, RegisterKeepsInv, ProgramKeepsInv, DeliveryKeepsInv DEF IntNext
  <2> QED
    BY <2>1, <2>2
<1>3. IntInv => InterruptsSound
  <2> SUFFICES ASSUME IntInv PROVE InterruptsSound
    OBVIOUS
  <2>1. ASSUME NEW g \in registered
        PROVE  g.vector \in isrRoutines /\ Contains(RegisteredInterrupts[g.vector], g.req)
    <3>1. OnList(g.vector, g.req) /\ g.vector \in IntVectors
          /\ RegisteredInterrupts[g.vector] \in Seq(IntRequests)
      BY DEF IntInv, IntTypes, ListsInv
    <3>2. RegisteredInterrupts[g.vector] # <<>>
      BY <3>1 DEF OnList, Contains
    <3> QED
      BY <3>1, <3>2 DEF IntInv, ListsInv, OnList
  <2>2. ASSUME NEW g \in registered, ~MaskInterrupts, ~g.shared
        PROVE  PresentedVectors(g.req) = {g.vector}
    <3>1. CASE g.req.type = "msi"
      BY <3>1 DEF PresentedVectors, IntInv, RoutesInv
    <3>2. CASE OnIoApic(g.req)
      BY <2>2, <3>2 DEF PresentedVectors, OnIoApic, IntInv, RoutesInv, EntryOf
    <3>3. CASE g.req.type # "msi" /\ ~OnIoApic(g.req)
      BY <3>3 DEF PresentedVectors, IntInv, ListsInv
    <3> QED
      BY <3>1, <3>2, <3>3
  <2> QED
    BY <2>1, <2>2 DEF InterruptsSound, RegistrationIsLive, InterruptAssertsHold, IntInv
<1> QED
  BY <1>1, <1>2, <1>3, PTL

(***************************************************************************)
(* Storage: the DMA table of a buffer.  Division by the boundary and by the *)
(* page, and what the engine makes of a table.                             *)
(***************************************************************************)

\* Places one after the other.
Places(a, n) == [i \in 1 .. n |-> a + i - 1]
Entries == [address : Nat, size : Nat]

\* Quotient and remainder.
LEMMA QuotientIs ==
  ASSUME NEW a \in Nat, NEW d \in Nat \ {0}
  PROVE  /\ a \div d \in Nat /\ a % d \in Nat /\ a % d < d
         /\ (a \div d) * d \in Nat /\ a = ((a \div d) * d) + (a % d)
<1>1. a \div d \in Nat /\ a % d \in 0 .. d - 1 /\ a = (d * (a \div d)) + (a % d)
  OBVIOUS
<1>2. \A q \in Nat : d * q = q * d /\ q * d \in Nat
  OBVIOUS
<1> QED
  BY <1>1, <1>2

\* A quotient from its bounds.
LEMMA QuotientOf ==
  ASSUME NEW q \in Nat, NEW d \in Nat \ {0}, NEW x \in Nat, q * d <= x, x < (q * d) + d
  PROVE  x \div d = q
<1> DEFINE p == x \div d
<1>1. p \in Nat /\ (p * d) + (x % d) = x /\ x % d \in Nat /\ x % d < d
  BY QuotientIs
<1> HIDE DEF p
<1>2. ASSUME p < q PROVE FALSE
  <2>1. (p + 1) * d <= q * d
    BY <1>1, <1>2
  <2>2. (p + 1) * d = (p * d) + d
    BY <1>1
  <2> QED
    BY <2>1, <2>2, <1>1
<1>3. ASSUME q < p PROVE FALSE
  <2>1. (q + 1) * d <= p * d
    BY <1>1, <1>3
  <2>2. (q + 1) * d = (q * d) + d
    BY <1>1
  <2> QED
    BY <2>1, <2>2, <1>1
<1> QED
  BY <1>1, <1>2, <1>3 DEF p

\* Sizes are not zero.
LEMMA Sizes ==
  /\ SectorSize \in Nat \ {0} /\ PageSectors \in Nat \ {0} /\ DmaBoundary \in Nat \ {0} /\ TotalSectors \in Nat
BY StAssumption

\* Within an entry that does not cross the boundary the engine counts up.
LEMMA EngineCountsUp ==
  ASSUME NEW e \in Entries, e.size > 0 => e.address \div DmaBoundary = (e.address + e.size - 1) \div DmaBoundary
  PROVE  EngineEntry(e) = Places(e.address, e.size)
<1> DEFINE a == e.address
           n == e.size
           d == DmaBoundary
<1>1. a \in Nat /\ n \in Nat /\ d \in Nat \ {0}
  BY Sizes DEF Entries
<1>2. n > 0 => a \div d = (a + n - 1) \div d
  OBVIOUS
<1>3. EngineEntry(e) = [i \in 1 .. n |-> (a \div d) * d + ((a + i - 1) % d)]
  BY DEF EngineEntry
<1>4. Places(e.address, e.size) = [i \in 1 .. n |-> a + i - 1]
  BY DEF Places
<1> HIDE DEF a, n, d
<1>5. ASSUME NEW i \in 1 .. n PROVE (a \div d) * d + ((a + i - 1) % d) = a + i - 1
  <2>1. a + i - 1 \in Nat /\ a + n - 1 \in Nat /\ a <= a + i - 1 /\ a + i - 1 <= a + n - 1 /\ n > 0
    BY <1>1
  <2> DEFINE x == a + i - 1
             y == a + n - 1
  <2>2. a \div d <= x \div d /\ x \div d <= y \div d /\ a \div d = y \div d
        /\ a \div d \in Nat /\ x \div d \in Nat
    <3>1. x \in Nat /\ y \in Nat /\ a <= x /\ x <= y
      BY <2>1
    <3>2. a \div d = y \div d
      BY <1>2, <2>1
    <3> HIDE DEF x, y
    <3>3. a \div d \in Nat /\ x \div d \in Nat /\ a \div d <= x \div d
      BY <3>1, <1>1, QuotientMonotone
    <3>4. x \div d <= y \div d
      BY <3>1, <1>1, QuotientMonotone
    <3> QED
      BY <3>2, <3>3, <3>4
  <2>3. x \in Nat
    BY <2>1
  <2> HIDE DEF x, y
  <2>4. x = ((x \div d) * d) + (x % d)
    BY <2>3, <1>1, QuotientIs
  <2>5. x \div d = a \div d
    BY <2>2
  <2>6. x = ((a \div d) * d) + (x % d)
    BY <2>4, <2>5
  <2> QED
    BY <2>6 DEF x
<1> QED
  BY <1>3, <1>4, <1>5

\* Places that follow one another.
LEMMA PlacesConcat ==
  ASSUME NEW a \in Nat, NEW m \in Nat, NEW n \in Nat
  PROVE  Places(a, m) \in Seq(Nat) /\ Len(Places(a, m)) = m /\ Places(a, m) \o Places(a + m, n) = Places(a, m + n)
<1>1. \A k \in Nat, b \in Nat : /\ Places(b, k) \in Seq(Nat) /\ Len(Places(b, k)) = k
                                /\ \A i \in 1 .. k : Places(b, k)[i] = b + i - 1
  <2> TAKE k \in Nat, b \in Nat
  <2>1. Places(b, k) = [i \in 1 .. k |-> b + i - 1]
    BY DEF Places
  <2>2. \A i \in 1 .. k : b + i - 1 \in Nat
    OBVIOUS
  <2>3. Places(b, k) \in [1 .. k -> Nat]
    BY <2>1, <2>2
  <2> QED
    BY <2>1, <2>3
<1> DEFINE s == Places(a, m)
           t == Places(a + m, n)
           u == Places(a, m + n)
<1>2. /\ s \in Seq(Nat) /\ Len(s) = m /\ \A i \in 1 .. m : s[i] = a + i - 1
      /\ t \in Seq(Nat) /\ Len(t) = n /\ \A i \in 1 .. n : t[i] = a + m + i - 1
      /\ u \in Seq(Nat) /\ Len(u) = m + n /\ \A i \in 1 .. m + n : u[i] = a + i - 1
  <2>1. a + m \in Nat /\ m + n \in Nat
    OBVIOUS
  <2> QED
    BY <1>1, <2>1, Zenon
<1> HIDE DEF s, t, u
<1>3. s \o t \in Seq(Nat) /\ Len(s \o t) = m + n
  <2>1. s \in Seq(Nat) /\ t \in Seq(Nat) /\ Len(s) = m /\ Len(t) = n
    BY <1>2
  <2> QED
    BY <2>1
<1>4. ASSUME NEW i \in 1 .. m + n PROVE (s \o t)[i] = u[i]
  <2>0. i <= m \/ i > m
    OBVIOUS
  <2>1. CASE i <= m
    BY <1>2, <2>1
  <2>2. CASE i > m
    <3>1. i - m \in 1 .. n
      BY <2>2
    <3>2. (s \o t)[i] = t[i - m]
      BY <1>2, <2>2
    <3>3. t[i - m] = a + m + (i - m) - 1 /\ u[i] = a + i - 1
      BY <1>2, <3>1
    <3> QED
      BY <3>1, <3>2, <3>3
  <2> QED
    BY <2>0, <2>1, <2>2, Zenon
<1>5. s \o t = u
  <2>1. u \in Seq(Nat) /\ Len(s \o t) = Len(u)
    BY <1>2, <1>3
  <2> DEFINE w == s \o t
  <2>2. w \in Seq(Nat) /\ Len(w) = Len(u) /\ \A i \in 1 .. Len(u) : w[i] = u[i]
    BY <1>2, <1>3, <1>4, <2>1
  <2> HIDE DEF w
  <2>3. w = u
    <3>1. w = [i \in 1 .. Len(u) |-> w[i]] /\ u = [i \in 1 .. Len(u) |-> u[i]]
      BY <2>1, <2>2
    <3> QED
      BY <2>2, <3>1
  <2> QED
    BY <2>3 DEF w
<1> QED
  BY <1>2, <1>5 DEF s, t, u

\* Appending one sequence of places after another.
LEMMA PlacesJoin ==
  \A u, v, w \in Seq(Nat) : (u \o v) \o w = u \o (v \o w)
BY ConcatAssociative

\* What an entry is to the engine is a sequence of places.
LEMMA EntryPlaces == ASSUME NEW e \in Entries PROVE EngineEntry(e) \in Seq(Nat)
<1>1. ASSUME NEW i \in 1 .. e.size
      PROVE  (e.address \div DmaBoundary) * DmaBoundary + ((e.address + i - 1) % DmaBoundary) \in Nat
  <2>1. e.address \in Nat /\ e.address + i - 1 \in Nat /\ DmaBoundary \in Nat \ {0}
    BY Sizes DEF Entries
  <2>2. (e.address \div DmaBoundary) * DmaBoundary \in Nat /\ (e.address + i - 1) % DmaBoundary \in Nat
    BY <2>1, QuotientIs
  <2> QED
    BY <2>2
<1>2. EngineEntry(e) \in [1 .. e.size -> Nat] /\ e.size \in Nat
  BY <1>1 DEF EngineEntry, Entries
<1> QED
  BY <1>2

\* The engine goes through a table entry by entry.
LEMMA EngineWalks ==
  ASSUME NEW table \in Seq(Entries)
  PROVE  \E f \in [0 .. Len(table) -> Seq(Nat)] :
           /\ f[0] = <<>> /\ \A n \in 1 .. Len(table) : f[n] = f[n - 1] \o EngineEntry(table[n])
           /\ EnginePieces(table) = f[Len(table)]
<1> DEFINE N == Len(table)
           Walks(f) == f = [n \in 0 .. N |-> IF n = 0 THEN <<>> ELSE f[n - 1] \o EngineEntry(table[n])]
           V == [n \in 0 .. N |-> Seq(Nat)]
           G == [n \in 1 .. N |-> [v \in Seq(Nat) |-> v \o EngineEntry(table[n])]]
<1>1. N \in Nat /\ 0 \in 0 .. N /\ \A n \in 1 .. N : n - 1 \in 0 .. N /\ n \in 0 .. N /\ table[n] \in Entries
  OBVIOUS
<1> HIDE DEF N
<1>2. \A n \in 1 .. N : \A v \in Seq(Nat) : v \o EngineEntry(table[n]) \in Seq(Nat)
  <2> TAKE n \in 1 .. N, v \in Seq(Nat)
  <2>1. EngineEntry(table[n]) \in Seq(Nat)
    BY <1>1, EntryPlaces
  <2> QED
    BY <2>1
<1>3. V \in [0 .. N -> SUBSET Seq(Nat)] /\ \A n \in 0 .. N : V[n] = Seq(Nat)
  OBVIOUS
<1>4. \A n \in 1 .. N : \A v \in Seq(Nat) : G[n][v] = v \o EngineEntry(table[n])
  OBVIOUS
<1>5. <<>> \in Seq(Nat)
  OBVIOUS
<1> HIDE DEF V, G
<1>6. PICK f \in [0 .. N -> Seq(Nat)] :
        f[0] = <<>> /\ \A n \in 1 .. N : f[n] = G[n][f[n - 1]] /\ f[n] \in V[n]
  <2>1. <<>> \in V[0]
    BY <1>1, <1>3, <1>5
  <2>2. ASSUME NEW n \in 1 .. N, NEW v \in V[n - 1] PROVE G[n][v] \in V[n]
    <3>1. V[n - 1] = Seq(Nat) /\ V[n] = Seq(Nat)
      BY <1>1, <1>3
    <3>2. v \in Seq(Nat)
      BY <3>1
    <3> QED
      BY <3>1, <3>2, <1>2, <1>4, Zenon
  <2> DEFINE W == Seq(Nat)
             base == <<>>
  <2>3. N \in Nat /\ V \in [0 .. N -> SUBSET W] /\ base \in V[0]
    BY <1>1, <1>3, <2>1
  <2> HIDE DEF W, base
  <2>4. StepsWithin(N, V, G)
    BY <2>2 DEF StepsWithin
  <2>5. \E f \in [0 .. N -> W] : Computed(f, N, base, V, G)
    BY <2>3, <2>4, Recursion
  <2> QED
    BY <2>5 DEF W, base, Computed
<1>7. ASSUME NEW n \in 1 .. N PROVE f[n] = f[n - 1] \o EngineEntry(table[n])
  <2>1. f[n - 1] \in Seq(Nat)
    BY <1>1, <1>6
  <2> QED
    BY <2>1, <1>4, <1>6
<1>8. Walks(f)
  <2>1. f = [n \in 0 .. N |-> f[n]]
    BY <1>6
  <2>2. ASSUME NEW n \in 0 .. N PROVE f[n] = (IF n = 0 THEN <<>> ELSE f[n - 1] \o EngineEntry(table[n]))
    <3>1. n # 0 => n \in 1 .. N
      BY <1>1
    <3> QED
      BY <3>1, <1>6, <1>7
  <2> QED
    BY <2>1, <2>2, Zenon
<1> DEFINE g == CHOOSE h : Walks(h)
<1>9. Walks(g)
  <2> HIDE DEF Walks
  <2> QED
    BY <1>8, Zenon
<1>10. EnginePieces(table) = g[N]
  BY Zenon DEF EnginePieces, N
<1> HIDE DEF g
<1>11. \A n \in 0 .. N : n \in {k \in 0 .. N : g[k] = f[k]}
  <2> DEFINE S == {k \in 0 .. N : g[k] = f[k]}
  <2>1. 0 \in S
    BY <1>1, <1>6, <1>9
  <2>2. ASSUME NEW n \in 1 .. N, n - 1 \in S PROVE n \in S
    <3>1. n \in 0 .. N /\ n # 0 /\ g[n - 1] = f[n - 1]
      BY <1>1, <2>2
    <3>2. g[n] = g[n - 1] \o EngineEntry(table[n])
      BY <1>9, <3>1
    <3> QED
      BY <3>1, <3>2, <1>7
  <2> HIDE DEF S
  <2>3. \A n \in 0 .. N : n \in S
    BY <1>1, <2>1, <2>2, CountingUp
  <2> QED
    BY <2>3 DEF S
<1>12. g[N] = f[N]
  BY <1>1, <1>11
<1> QED
  BY <1>6, <1>7, <1>10, <1>12 DEF N

\* One entry more is its places more.
LEMMA EngineGrows ==
  ASSUME NEW table \in Seq(Entries)
  PROVE  /\ EnginePieces(table) \in Seq(Nat) /\ EnginePieces(<<>>) = <<>>
         /\ \A e \in Entries : EnginePieces(Append(table, e)) = EnginePieces(table) \o EngineEntry(e)
<1>1. PICK f \in [0 .. Len(table) -> Seq(Nat)] :
        /\ f[0] = <<>> /\ \A n \in 1 .. Len(table) : f[n] = f[n - 1] \o EngineEntry(table[n])
        /\ EnginePieces(table) = f[Len(table)]
  BY EngineWalks
<1>2. EnginePieces(table) \in Seq(Nat)
  <2>1. Len(table) \in 0 .. Len(table)
    OBVIOUS
  <2> QED
    BY <1>1, <2>1
<1>3. EnginePieces(<<>>) = <<>>
  <2>1. <<>> \in Seq(Entries) /\ Len(<<>>) = 0
    OBVIOUS
  <2> QED
    BY <2>1, EngineWalks
<1>4. ASSUME NEW e \in Entries
      PROVE EnginePieces(Append(table, e)) = EnginePieces(table) \o EngineEntry(e)
  <2> DEFINE longer == Append(table, e)
             N == Len(table)
  <2>1. /\ longer \in Seq(Entries) /\ N \in Nat /\ Len(longer) = N + 1 /\ longer[N + 1] = e
        /\ \A n \in 1 .. N : longer[n] = table[n]
    OBVIOUS
  <2> HIDE DEF longer, N
  <2>2. PICK g \in [0 .. N + 1 -> Seq(Nat)] :
          /\ g[0] = <<>> /\ \A n \in 1 .. N + 1 : g[n] = g[n - 1] \o EngineEntry(longer[n])
          /\ EnginePieces(longer) = g[N + 1]
    BY <2>1, EngineWalks
  <2> DEFINE S == {n \in 0 .. N : g[n] = f[n]}
  <2>3. 0 \in S
    BY <1>1, <2>1, <2>2
  <2>4. ASSUME NEW n \in 1 .. N, n - 1 \in S PROVE n \in S
    <3>1. n \in 0 .. N /\ n \in 1 .. N + 1 /\ g[n - 1] = f[n - 1]
      BY <2>1, <2>4
    <3>2. g[n] = g[n - 1] \o EngineEntry(table[n])
      BY <2>1, <2>2, <3>1
    <3>3. f[n] = f[n - 1] \o EngineEntry(table[n])
      BY <1>1 DEF N
    <3> QED
      BY <3>1, <3>2, <3>3
  <2> HIDE DEF S
  <2>5. N \in S
    BY <2>1, <2>3, <2>4, CountingUp, N \in 0 .. N
  <2>6. g[N + 1] = g[N] \o EngineEntry(e)
    <3>1. N + 1 \in 1 .. N + 1 /\ (N + 1) - 1 = N
      BY <2>1
    <3> QED
      BY <3>1, <2>1, <2>2
  <2>7. g[N] = f[N]
    BY <2>5 DEF S
  <2> QED
    BY <1>1, <2>2, <2>6, <2>7 DEF longer, N
<1> QED
  BY <1>2, <1>3, <1>4

\* Where n places from a on cross the boundary, and what is on both sides.
LEMMA Crossing ==
  ASSUME NEW a \in Nat, NEW n \in Nat, NEW d \in Nat \ {0}, n > 0, n < d,
         a \div d # (a + n - 1) \div d
  PROVE  \E e \in Nat : /\ e = d - (a % d) /\ e > 0 /\ e < n
                        /\ a \div d = (a + e - 1) \div d
                        /\ (a + e) \div d = ((a + e) + (n - e) - 1) \div d
<1>0. PICK e : e = d - (a % d)
  OBVIOUS
<1>1. PICK q \in Nat, z \in Nat, m \in Nat :
        q = a \div d /\ z = q * d /\ m = a % d /\ m < d /\ a = z + m
  BY QuotientIs
<1>2. (q + 1) * d = z + d /\ q + 1 \in Nat
  BY <1>1
<1>3. \A x \in Nat : z <= x /\ x < z + d => x \div d = q
  BY <1>1, QuotientOf
<1>4. \A x \in Nat : z + d <= x /\ x < (z + d) + d => x \div d = q + 1
  BY <1>2, QuotientOf
<1>5. a + n - 1 >= z + d
  <2>1. a + n - 1 \in Nat /\ z <= a + n - 1
    BY <1>1
  <2>2. (a + n - 1) \div d # q
    BY <1>1
  <2>3. ~(a + n - 1 < z + d)
    BY <1>3, <2>1, <2>2
  <2> QED
    BY <2>1, <2>3, <1>1
<1>6. e = d - m
  BY <1>0, <1>1
<1>7. /\ e \in Nat /\ e > 0 /\ e < n /\ a + e = z + d /\ a + e - 1 \in Nat /\ a + e \in Nat
      /\ z <= a + e - 1 /\ a + e - 1 < z + d /\ z + d <= a + e /\ a + e < (z + d) + d
  BY <1>1, <1>5, <1>6
<1>8. /\ (a + e) + (n - e) - 1 \in Nat /\ z + d <= (a + e) + (n - e) - 1
      /\ (a + e) + (n - e) - 1 < (z + d) + d
  BY <1>1, <1>5, <1>7
<1>9. (a + e - 1) \div d = q
  BY <1>3, <1>7
<1>10. (a + e) \div d = q + 1
  BY <1>4, <1>7
<1>11. ((a + e) + (n - e) - 1) \div d = q + 1
  BY <1>4, <1>8
<1> QED
  BY <1>0, <1>1, <1>7, <1>9, <1>10, <1>11

\* An entry of the driver's table, or two at the boundary, are to the engine
\* the places of the pair, cut to what remains.
LEMMA OneEntry ==
  ASSUME NEW table \in Seq(Entries), NEW e \in Entries,
         e.size > 0 => e.address \div DmaBoundary = (e.address + e.size - 1) \div DmaBoundary
  PROVE  /\ Append(table, e) \in Seq(Entries) /\ Append(table, e) # <<>>
         /\ EnginePieces(Append(table, e)) = EnginePieces(table) \o Places(e.address, e.size)
<1>1. EngineEntry(e) = Places(e.address, e.size)
  BY EngineCountsUp
<1>2. EnginePieces(Append(table, e)) = EnginePieces(table) \o EngineEntry(e)
  BY EngineGrows
<1>3. Append(table, e) \in Seq(Entries) /\ Len(Append(table, e)) = Len(table) + 1 /\ Len(table) \in Nat
  OBVIOUS
<1>4. Append(table, e) # <<>>
  BY AppendProperties
<1> QED
  BY <1>1, <1>2, <1>3, <1>4

LEMMA EntriesAdded ==
  ASSUME NEW prd, prd.table \in Seq(Entries), prd.remaining \in Nat, prd.remaining > 0,
         NEW pair \in Entries, pair.size > 0, pair.size < DmaBoundary,
         NEW n, n = IF pair.size <= prd.remaining THEN pair.size ELSE prd.remaining
  PROVE  LET added == AddEntries(prd, pair) IN
         /\ added = [remaining |-> prd.remaining - n, table |-> added.table]
         /\ added.table \in Seq(Entries) /\ added.table # <<>>
         /\ EnginePieces(added.table) = EnginePieces(prd.table) \o Places(pair.address, n)
<1>1. Min({pair.size, prd.remaining}) = n
  <2>1. pair.size \in Nat /\ prd.remaining \in Nat
    BY DEF Entries
  <2>2. PICK x : x = Min({pair.size, prd.remaining})
    OBVIOUS
  <2>3. x \in {pair.size, prd.remaining} /\ \A y \in {pair.size, prd.remaining} : x <= y
    <3>1. {pair.size, prd.remaining} \in SUBSET Nat /\ {pair.size, prd.remaining} # {}
      BY <2>1
    <3> QED
      BY <3>1, <2>2, MinIsLeast
  <2>4. x = n
    BY <2>1, <2>3
  <2> QED
    BY <2>2, <2>4
<1>2. PICK a, table : a = pair.address /\ table = prd.table
  OBVIOUS
<1>3. a \in Nat /\ n \in Nat /\ n > 0 /\ n < DmaBoundary /\ DmaBoundary \in Nat \ {0} /\ table \in Seq(Entries)
  BY <1>2, Sizes DEF Entries
<1> DEFINE crosses == a \div DmaBoundary # (a + n - 1) \div DmaBoundary
           head == IF crosses THEN DmaBoundary - (a % DmaBoundary) ELSE 0
           tail == [address |-> a + head, size |-> n - head]
           first == [address |-> a, size |-> head]
<1>4. AddEntries(prd, pair) =
        [remaining |-> prd.remaining - n,
         table |-> IF crosses THEN table \o <<first, tail>> ELSE Append(table, tail)]
  BY <1>1, <1>2, Zenon DEF AddEntries
<1>5. CASE ~crosses
  <2>1. a + head = a /\ n - head = n
    BY <1>3, <1>5
  <2>2. tail = [address |-> a, size |-> n]
    BY <2>1
  <2>3. AddEntries(prd, pair) = [remaining |-> prd.remaining - n, table |-> Append(table, tail)]
    BY <1>4, <1>5
  <2>4. tail \in Entries /\ tail.address = a /\ tail.size = n
    BY <1>3, <2>2 DEF Entries
  <2>5. a \div DmaBoundary = (a + n - 1) \div DmaBoundary
    BY <1>5
  <2> HIDE DEF head, tail, first
  <2>6. /\ Append(table, tail) \in Seq(Entries) /\ Append(table, tail) # <<>>
        /\ EnginePieces(Append(table, tail)) = EnginePieces(table) \o Places(a, n)
    BY <1>3, <2>4, <2>5, OneEntry
  <2> QED
    BY <1>2, <2>3, <2>6
<1>6. CASE crosses
  <2>1. head = DmaBoundary - (a % DmaBoundary)
    BY <1>6
  <2>2. AddEntries(prd, pair) = [remaining |-> prd.remaining - n, table |-> table \o <<first, tail>>]
    BY <1>4, <1>6
  <2>a. a \div DmaBoundary # (a + n - 1) \div DmaBoundary
    BY <1>6
  <2> HIDE DEF head, crosses
  <2>3. /\ head \in Nat /\ head > 0 /\ head < n
        /\ a \div DmaBoundary = (a + head - 1) \div DmaBoundary
        /\ (a + head) \div DmaBoundary = ((a + head) + (n - head) - 1) \div DmaBoundary
    <3>1. \E e \in Nat : /\ e = DmaBoundary - (a % DmaBoundary) /\ e > 0 /\ e < n
                         /\ a \div DmaBoundary = (a + e - 1) \div DmaBoundary
                         /\ (a + e) \div DmaBoundary = ((a + e) + (n - e) - 1) \div DmaBoundary
      BY <1>3, <2>a, Crossing
    <3> QED
      BY <2>1, <3>1
  <2>4. /\ first \in Entries /\ Append(table, first) \in Seq(Entries)
        /\ EnginePieces(Append(table, first)) = EnginePieces(table) \o Places(a, head)
    <3>1. first \in Entries /\ first.address = a /\ first.size = head
      BY <1>3, <2>3 DEF Entries
    <3> HIDE DEF first
    <3> QED
      BY <1>3, <2>3, <3>1, OneEntry
  <2>5. a + head \in Nat /\ n - head \in Nat /\ head + (n - head) = n
    <3>1. a \in Nat /\ n \in Nat /\ head \in Nat /\ head < n
      BY <1>3, <2>3
    <3> QED
      BY <3>1
  <2> DEFINE longer == Append(table, first)
  <2>6. longer \in Seq(Entries)
    BY <2>4
  <2> HIDE DEF longer
  <2>7. /\ tail \in Entries /\ Append(longer, tail) \in Seq(Entries) /\ Append(longer, tail) # <<>>
        /\ EnginePieces(Append(longer, tail)) = EnginePieces(longer) \o Places(a + head, n - head)
    <3>1. tail \in Entries /\ tail.address = a + head /\ tail.size = n - head
      BY <2>5 DEF Entries
    <3> HIDE DEF tail
    <3> QED
      BY <2>3, <2>6, <3>1, OneEntry
  <2> HIDE DEF first, tail
  <2>8. table \o <<first, tail>> = Append(longer, tail)
    BY <1>3, <2>4, <2>7 DEF longer
  <2>9. (EnginePieces(table) \o Places(a, head)) \o Places(a + head, n - head) = EnginePieces(table) \o Places(a, n)
    <3>1. PICK u, v, w : u = EnginePieces(table) /\ v = Places(a, head) /\ w = Places(a + head, n - head)
      OBVIOUS
    <3>2. u \in Seq(Nat)
      BY <1>3, <3>1, EngineGrows
    <3>3. v \in Seq(Nat) /\ v \o w = Places(a, n)
      <4>1. Places(a, head) \in Seq(Nat) /\ Places(a, head) \o Places(a + head, n - head) = Places(a, head + (n - head))
        BY <1>3, <2>3, <2>5, PlacesConcat
      <4> QED
        BY <4>1, <2>5, <3>1
    <3>4. w \in Seq(Nat)
      BY <2>5, <3>1, PlacesConcat
    <3>5. (u \o v) \o w = u \o (v \o w)
      BY <3>2, <3>3, <3>4, PlacesJoin
    <3> QED
      BY <3>1, <3>3, <3>5
  <2>10. EnginePieces(table \o <<first, tail>>) = EnginePieces(table) \o Places(a, n)
    BY <2>4, <2>7, <2>8, <2>9 DEF longer
  <2>11. table \o <<first, tail>> \in Seq(Entries) /\ table \o <<first, tail>> # <<>>
    BY <2>7, <2>8
  <2> HIDE DEF first, tail
  <2>12. PICK added : added = [remaining |-> prd.remaining - n, table |-> table \o <<first, tail>>]
    OBVIOUS
  <2>13. /\ added.table = table \o <<first, tail>>
         /\ added = [remaining |-> prd.remaining - n, table |-> added.table]
    BY <2>12
  <2>14. AddEntries(prd, pair) = added
    BY <2>2, <2>12, Zenon
  <2> QED
    BY <1>2, <2>10, <2>11, <2>13, <2>14
<1> QED
  BY <1>5, <1>6

(***************************************************************************)
(* The pairs of a buffer: where in the buffer each of them ends.           *)
(***************************************************************************)

\* The pairs are n places of t's buffer from at on: e has where in the buffer
\* each pair ends.
Marked(e, pairs, t, at, n) ==
  /\ e \in [0 .. Len(pairs) -> Nat] /\ e[0] = 0 /\ e[Len(pairs)] = n
  /\ \A i, j \in 0 .. Len(pairs) : i <= j => e[i] <= e[j]
  /\ \A j \in 1 .. Len(pairs) :
       /\ pairs[j].size > 0 /\ e[j] = e[j - 1] + pairs[j].size
       /\ \A k \in 0 .. pairs[j].size - 1 : pairs[j].address + k = Piece(t, at + e[j - 1] + k)
  /\ Len(pairs) = 1 \/ pairs[Len(pairs)].size >= PageSectors

Covers(pairs, t, at, n) ==
  /\ pairs \in Seq(Entries) /\ Len(pairs) > 0
  /\ \E e : Marked(e, pairs, t, at, n)

Within(t, at, n) == at + n <= Len(BufferFrames[t]) * PageSectors

\* A buffer's frames are numbers.
LEMMA FramesHold ==
  ASSUME NEW t \in StThreads
  PROVE  /\ BufferFrames[t] \in Seq(Nat) /\ Len(BufferFrames[t]) \in Nat
         /\ Len(BufferFrames[t]) * PageSectors \in Nat
<1>1. BufferFrames[t] \in Seq(Nat) /\ Len(BufferFrames[t]) \in Nat
  BY StAssumption
<1>2. PageSectors \in Nat
  BY Sizes
<1> QED
  BY <1>1, <1>2

\* The places of a page follow one another.
LEMMA PageOf ==
  ASSUME NEW t \in StThreads, NEW p \in Nat, Within(t, p, 1)
  PROVE  /\ Piece(t, p) \in Nat
         /\ \A k \in Nat : (p % PageSectors) + k < PageSectors => Piece(t, p + k) = Piece(t, p) + k
<1> DEFINE d == PageSectors
           f == BufferFrames[t]
<1>1. PICK q \in Nat, m \in Nat, z \in Nat : q = p \div d /\ m = p % d /\ z = q * d /\ p = z + m /\ m < d
  BY Sizes, QuotientIs
<1>2. d \in Nat \ {0} /\ f \in Seq(Nat) /\ Len(f) \in Nat
  BY Sizes, FramesHold
<1>3. p < Len(f) * d
  <2>1. Len(f) * d \in Nat /\ p + 1 <= Len(f) * d
    BY FramesHold DEF Within
  <2> QED
    BY <2>1
<1> HIDE DEF d, f
<1>4. q < Len(f)
  <2>1. SUFFICES ASSUME q >= Len(f) PROVE FALSE
    BY <1>1, <1>2
  <2>2. Len(f) * d <= q * d
    BY <1>1, <1>2, <2>1
  <2>3. Len(f) * d \in Nat
    BY <1>2
  <2> QED
    BY <1>1, <1>3, <2>2, <2>3
<1>5. q + 1 \in 1 .. Len(f) /\ f[q + 1] \in Nat
  BY <1>1, <1>2, <1>4
<1>6. PICK b \in Nat : b = f[q + 1] * d
  BY <1>2, <1>5
<1>7. Piece(t, p) = b + m
  BY <1>1, <1>6 DEF Piece, d, f
<1>8. ASSUME NEW k \in Nat, m + k < d PROVE Piece(t, p + k) = b + m + k
  <2>1. PICK x \in Nat : x = p + k /\ z <= x /\ x < z + d /\ x = z + (m + k)
    BY <1>1, <1>8, <1>2
  <2>2. x \div d = q
    BY <2>1, <1>1, <1>2, QuotientOf
  <2>3. x % d = m + k
    <3>1. x % d \in Nat /\ x = ((x \div d) * d) + (x % d)
      BY <2>1, <1>2, QuotientIs
    <3>2. x = z + (x % d)
      BY <2>2, <3>1, <1>1
    <3> QED
      BY <2>1, <3>1, <3>2, <1>1
  <2>4. Piece(t, x) = b + (m + k)
    BY <2>2, <2>3, <1>6 DEF Piece, d, f
  <2> QED
    BY <2>1, <2>4, <1>1
<1> QED
  BY <1>1, <1>6, <1>7, <1>8 DEF d

\* MdlAllocateEx, the first page.
LEMMA FirstPage ==
  ASSUME NEW t \in StThreads, NEW at \in Nat, Within(t, at, 1)
  PROVE  Covers(<<[address |-> Piece(t, at), size |-> PageSectors - (at % PageSectors)]>>, t, at,
                PageSectors - (at % PageSectors))
<1>1. PICK m \in Nat, a \in Nat, n \in Nat :
        /\ m = at % PageSectors /\ m < PageSectors /\ a = Piece(t, at) /\ n = PageSectors - m /\ n > 0
        /\ PageSectors \in Nat
  <2>1. at % PageSectors \in Nat /\ at % PageSectors < PageSectors /\ PageSectors \in Nat
    BY Sizes, QuotientIs
  <2>2. Piece(t, at) \in Nat
    BY PageOf
  <2> QED
    BY <2>1, <2>2
<1>2. PICK pair \in Entries : pair = [address |-> a, size |-> n] /\ pair.address = a /\ pair.size = n
  <2> DEFINE x == [address |-> a, size |-> n]
  <2>1. x \in Entries /\ x.address = a /\ x.size = n
    BY DEF Entries
  <2> HIDE DEF x
  <2>2. \E y \in Entries : y = x /\ y.address = a /\ y.size = n
    BY <2>1
  <2> QED
    BY <2>2 DEF x
<1>3. PICK pairs \in Seq(Entries) : pairs = <<pair>> /\ Len(pairs) = 1 /\ pairs[1] = pair
  <2>1. <<pair>> \in Seq(Entries) /\ Len(<<pair>>) = 1 /\ <<pair>>[1] = pair
    OBVIOUS
  <2> QED
    BY <2>1
<1> DEFINE e == [i \in 0 .. 1 |-> IF i = 0 THEN 0 ELSE n]
<1>4. e \in [0 .. 1 -> Nat] /\ e[0] = 0 /\ e[1] = n
  OBVIOUS
<1> HIDE DEF e
<1>5. \A k \in 0 .. n - 1 : a + k = Piece(t, at + k)
  BY <1>1, PageOf
<1>6. ASSUME NEW j \in 1 .. 1
      PROVE /\ pairs[j].size > 0 /\ e[j] = e[j - 1] + pairs[j].size
            /\ \A k \in 0 .. pairs[j].size - 1 : pairs[j].address + k = Piece(t, at + e[j - 1] + k)
  <2>1. j = 1 /\ e[j - 1] = 0 /\ pairs[j].address = a /\ pairs[j].size = n
    BY <1>2, <1>3, <1>4
  <2>2. \A k \in 0 .. n - 1 : at + 0 + k = at + k
    OBVIOUS
  <2> QED
    BY <1>1, <1>4, <1>5, <2>1, <2>2
<1>7. \A i, j \in 0 .. 1 : i <= j => e[i] <= e[j]
  BY <1>4
<1>8. Marked(e, pairs, t, at, n)
  BY <1>3, <1>4, <1>6, <1>7 DEF Marked
<1>9. Covers(pairs, t, at, n)
  BY <1>3, <1>8 DEF Covers
<1> QED
  BY <1>1, <1>2, <1>3, <1>9

\* ... and the pages after it.
LEMMA PageAdded ==
  ASSUME NEW t \in StThreads, NEW at \in Nat, NEW n \in Nat, (at + n) % PageSectors = 0,
         Within(t, at + n, 1), NEW pairs, Covers(pairs, t, at, n)
  PROVE  Covers(AddPage(pairs, Piece(t, at + n)), t, at, n + PageSectors)
<1>1. PICK pa \in Nat, d \in Nat \ {0} :
        /\ pa = Piece(t, at + n) /\ d = PageSectors
        /\ \A k \in 0 .. d - 1 : Piece(t, at + n + k) = pa + k
  <2>1. at + n \in Nat /\ PageSectors \in Nat \ {0}
    BY Sizes
  <2>2. Piece(t, at + n) \in Nat
    BY <2>1, PageOf
  <2>3. \A k \in 0 .. PageSectors - 1 : Piece(t, at + n + k) = Piece(t, at + n) + k
    <3> TAKE k \in 0 .. PageSectors - 1
    <3>1. k \in Nat /\ 0 + k < PageSectors
      BY <2>1
    <3> QED
      BY <2>1, <3>1, PageOf
  <2> QED
    BY <2>1, <2>2, <2>3
<1>2. PICK e : Marked(e, pairs, t, at, n)
  BY DEF Covers
<1>3. PICK N \in Nat : N = Len(pairs) /\ N > 0 /\ pairs \in Seq(Entries)
  BY DEF Covers
<1>4. /\ e \in [0 .. N -> Nat] /\ e[0] = 0 /\ e[N] = n
      /\ \A i, j \in 0 .. N : i <= j => e[i] <= e[j]
      /\ \A j \in 1 .. N :
           /\ pairs[j].size > 0 /\ e[j] = e[j - 1] + pairs[j].size
           /\ \A k \in 0 .. pairs[j].size - 1 : pairs[j].address + k = Piece(t, at + e[j - 1] + k)
      /\ N = 1 \/ pairs[N].size >= d
  BY <1>1, <1>2, <1>3 DEF Marked
<1>5. Last(pairs) = pairs[N] /\ pairs[N] \in Entries
  BY <1>3 DEF Last
<1>6. PICK a \in Nat, s \in Nat : a = pairs[N].address /\ s = pairs[N].size /\ pairs[N] = [address |-> a, size |-> s]
  BY <1>5 DEF Entries
<1>7. s > 0 /\ N - 1 \in 0 .. N /\ e[N - 1] \in Nat /\ n = e[N - 1] + s
      /\ \A k \in 0 .. s - 1 : a + k = Piece(t, at + e[N - 1] + k)
  BY <1>3, <1>4, <1>6
<1>8. CASE a + s = pa
  <2>1. PICK last \in Entries : last = [address |-> a, size |-> s + d] /\ last.address = a /\ last.size = s + d
    <3> DEFINE x == [address |-> a, size |-> s + d]
    <3>1. x \in Entries /\ x.address = a /\ x.size = s + d
      BY <1>1 DEF Entries
    <3> QED
      BY <3>1
  <2>2. PICK longer \in Seq(Entries) :
          /\ longer = [pairs EXCEPT ![N] = last] /\ Len(longer) = N /\ longer[N] = last
          /\ \A j \in 1 .. N : j # N => longer[j] = pairs[j]
    <3> DEFINE x == [pairs EXCEPT ![N] = last]
    <3>1. N \in 1 .. Len(pairs)
      BY <1>3
    <3>2. /\ x \in Seq(Entries) /\ Len(x) = Len(pairs)
          /\ \A j \in 1 .. Len(pairs) : x[j] = IF j = N THEN last ELSE pairs[j]
      BY <1>3, <3>1, ExceptSeq
    <3> HIDE DEF x
    <3>3. Len(x) = N /\ x[N] = last /\ \A j \in 1 .. N : j # N => x[j] = pairs[j]
      BY <1>3, <3>1, <3>2
    <3> QED
      BY <3>2, <3>3 DEF x
  <2>3. AddPage(pairs, pa) = longer
    <3>1. [pairs[N] EXCEPT !.size = @ + d] = last
      BY <1>6, <2>1
    <3>2. [pairs EXCEPT ![N].size = @ + d] = [pairs EXCEPT ![N] = [pairs[N] EXCEPT !.size = @ + d]]
      OBVIOUS
    <3>3. AddPage(pairs, pa) = [pairs EXCEPT ![N].size = @ + d]
      BY <1>1, <1>3, <1>5, <1>6, <1>8 DEF AddPage
    <3> QED
      BY <2>2, <3>1, <3>2, <3>3
  <2> DEFINE f == [e EXCEPT ![N] = n + d]
  <2>4. f \in [0 .. N -> Nat] /\ f[N] = n + d /\ \A j \in 0 .. N : j # N => f[j] = e[j]
    BY <1>1, <1>3, <1>4
  <2> HIDE DEF f
  <2>5. f[0] = 0 /\ \A i, j \in 0 .. N : i <= j => f[i] <= f[j]
    <3>1. f[0] = 0
      BY <1>3, <1>4, <2>4
    <3>2. ASSUME NEW i \in 0 .. N, NEW j \in 0 .. N, i <= j PROVE f[i] <= f[j]
      <4>0. N \in 0 .. N /\ i <= N
        BY <1>3
      <4>1. e[i] \in Nat /\ e[j] \in Nat /\ e[i] <= e[j] /\ e[i] <= n
        BY <4>0, <1>4, <3>2
      <4>2. CASE j = N
        BY <4>1, <4>2, <2>4, <1>1
      <4>3. CASE j # N
        <5>1. i # N
          BY <3>2, <4>3
        <5> QED
          BY <4>1, <4>3, <5>1, <2>4
      <4> QED
        BY <4>2, <4>3
    <3> QED
      BY <3>1, <3>2
  <2>6. ASSUME NEW j \in 1 .. N
        PROVE /\ longer[j].size > 0 /\ f[j] = f[j - 1] + longer[j].size
              /\ \A k \in 0 .. longer[j].size - 1 : longer[j].address + k = Piece(t, at + f[j - 1] + k)
    <3>0. j - 1 \in 0 .. N /\ j - 1 # N /\ f[j - 1] = e[j - 1]
      BY <1>3, <2>4
    <3>1. CASE j # N
      <4>1. longer[j] = pairs[j] /\ f[j] = e[j]
        BY <2>2, <2>4, <3>1
      <4> QED
        BY <1>4, <3>0, <4>1
    <3>2. CASE j = N
      <4>1. longer[j].size = s + d /\ longer[j].address = a /\ f[j] = n + d /\ f[j - 1] = e[N - 1]
        BY <2>1, <2>2, <2>4, <3>0, <3>2
      <4>2. ASSUME NEW k \in 0 .. (s + d) - 1 PROVE a + k = Piece(t, at + e[N - 1] + k)
        <5>1. CASE k < s
          BY <1>7, <5>1
        <5>2. CASE k >= s
          <6>a. s \in Nat /\ d \in Nat /\ k \in Nat /\ k < s + d
            OBVIOUS
          <6>0. k - s \in 0 .. d - 1 /\ k = s + (k - s)
            BY <6>a, <5>2
          <6>1. PICK i \in 0 .. d - 1 : k = s + i
            BY <6>0
          <6>2. Piece(t, at + n + i) = pa + i
            BY <1>1, <6>1
          <6>3. at + e[N - 1] + k = at + n + i /\ a + k = pa + i
            BY <1>7, <1>8, <6>1
          <6> QED
            BY <6>2, <6>3
        <5> QED
          BY <5>1, <5>2, <1>6
      <4>a. s \in Nat /\ d \in Nat /\ s > 0 /\ e[N - 1] \in Nat /\ n = e[N - 1] + s
        BY <1>7
      <4>3. s + d > 0 /\ n + d = e[N - 1] + (s + d)
        BY <4>a
      <4> QED
        BY <4>1, <4>2, <4>3
    <3> QED
      BY <3>1, <3>2
  <2>7. Len(longer) = 1 \/ longer[Len(longer)].size >= PageSectors
    BY <1>1, <1>6, <2>1, <2>2
  <2>8. Marked(f, longer, t, at, n + PageSectors)
    BY <1>1, <2>2, <2>4, <2>5, <2>6, <2>7 DEF Marked
  <2> QED
    BY <1>1, <1>3, <2>2, <2>3, <2>8 DEF Covers
<1>9. CASE a + s # pa
  <2>1. PICK last \in Entries : last = [address |-> pa, size |-> d] /\ last.address = pa /\ last.size = d
    <3> DEFINE x == [address |-> pa, size |-> d]
    <3>1. x \in Entries /\ x.address = pa /\ x.size = d
      BY <1>1 DEF Entries
    <3> QED
      BY <3>1
  <2>2. PICK longer \in Seq(Entries) :
          /\ longer = Append(pairs, last) /\ Len(longer) = N + 1 /\ longer[N + 1] = last
          /\ \A j \in 1 .. N : longer[j] = pairs[j]
    <3> DEFINE x == Append(pairs, last)
    <3>1. x \in Seq(Entries)
      BY <1>3
    <3>2. Len(x) = N + 1 /\ x[N + 1] = last /\ \A j \in 1 .. N : x[j] = pairs[j]
      BY <1>3
    <3> HIDE DEF x
    <3> QED
      BY <3>1, <3>2 DEF x
  <2>3. AddPage(pairs, pa) = longer
    BY <1>1, <1>5, <1>6, <1>9, <2>1, <2>2 DEF AddPage
  <2> DEFINE f == [j \in 0 .. N + 1 |-> IF j = N + 1 THEN n + d ELSE e[j]]
  <2>4. f \in [0 .. N + 1 -> Nat] /\ f[N + 1] = n + d /\ \A j \in 0 .. N : f[j] = e[j]
    BY <1>1, <1>3, <1>4
  <2> HIDE DEF f
  <2>5. f[0] = 0 /\ \A i, j \in 0 .. N + 1 : i <= j => f[i] <= f[j]
    <3>1. f[0] = 0
      BY <1>3, <1>4, <2>4
    <3>2. ASSUME NEW i \in 0 .. N + 1, NEW j \in 0 .. N + 1, i <= j PROVE f[i] <= f[j]
      <4>1. CASE j = N + 1
        <5>0. N \in 0 .. N /\ (i \in 0 .. N => i <= N)
          BY <1>3
        <5>1. i \in 0 .. N => e[i] \in Nat /\ e[i] <= n /\ f[i] = e[i]
          BY <5>0, <1>4, <2>4
        <5>2. i = N + 1 \/ i \in 0 .. N
          BY <1>3
        <5> QED
          BY <4>1, <5>1, <5>2, <2>4, <1>1
      <4>2. CASE j # N + 1
        <5>1. i \in 0 .. N /\ j \in 0 .. N
          BY <1>3, <3>2, <4>2
        <5> QED
          BY <5>1, <3>2, <1>4, <2>4
      <4> QED
        BY <4>1, <4>2
    <3> QED
      BY <3>1, <3>2
  <2>6. ASSUME NEW j \in 1 .. N + 1
        PROVE /\ longer[j].size > 0 /\ f[j] = f[j - 1] + longer[j].size
              /\ \A k \in 0 .. longer[j].size - 1 : longer[j].address + k = Piece(t, at + f[j - 1] + k)
    <3>0. j - 1 \in 0 .. N /\ f[j - 1] = e[j - 1]
      BY <1>3, <2>4
    <3>1. CASE j # N + 1
      <4>1. j \in 1 .. N /\ j \in 0 .. N
        BY <1>3, <3>1
      <4>2. longer[j] = pairs[j] /\ f[j] = e[j]
        BY <2>2, <2>4, <4>1
      <4> QED
        BY <1>4, <3>0, <4>1, <4>2
    <3>2. CASE j = N + 1
      <4>1. longer[j].size = d /\ longer[j].address = pa /\ f[j] = n + d /\ f[j - 1] = n
        BY <2>1, <2>2, <2>4, <3>0, <3>2, <1>4
      <4> QED
        BY <1>1, <4>1
    <3> QED
      BY <3>1, <3>2
  <2>7. Len(longer) = 1 \/ longer[Len(longer)].size >= PageSectors
    BY <1>1, <2>1, <2>2
  <2>8. Len(longer) = N + 1 /\ f[Len(longer)] = n + PageSectors
    BY <1>1, <2>2, <2>4
  <2>9. Marked(f, longer, t, at, n + PageSectors)
    BY <2>4, <2>5, <2>6, <2>7, <2>8 DEF Marked
  <2>10. longer \in Seq(Entries) /\ Len(longer) > 0
    BY <1>3, <2>2
  <2>11. Covers(longer, t, at, n + PageSectors)
    BY <2>9, <2>10 DEF Covers
  <2> QED
    BY <1>1, <2>3, <2>11
<1> QED
  BY <1>8, <1>9

\* The table of a buffer covers what is asked for and less than a page more.
LEMMA PairsCover ==
  ASSUME NEW t \in StThreads, NEW at \in Nat, NEW count \in Nat, count > 0, Within(t, at, count)
  PROVE  \E n \in Nat : Covers(MdlPairs(t, at, count), t, at, n) /\ count <= n /\ n < count + PageSectors
<1>1. PICK d \in Nat \ {0}, o \in Nat, q \in Nat, z \in Nat :
        d = PageSectors /\ o = at % d /\ o < d /\ q = at \div d /\ z = q * d /\ at = z + o
  <2>1. PICK d \in Nat \ {0} : d = PageSectors
    BY Sizes
  <2>2. /\ at \div d \in Nat /\ at % d \in Nat /\ at % d < d
        /\ (at \div d) * d \in Nat /\ at = ((at \div d) * d) + (at % d)
    BY QuotientIs
  <2> QED
    BY <2>1, <2>2
<1>2. PICK l \in Nat, r \in Nat, y \in Nat :
        /\ l = at + count - 1 /\ r = l \div d /\ y = r * d /\ y <= l /\ l < y + d
  <2>1. at + count - 1 \in Nat
    OBVIOUS
  <2>2. \A x \in Nat : /\ x \div d \in Nat /\ (x \div d) * d \in Nat
                       /\ (x \div d) * d <= x /\ x < ((x \div d) * d) + d
    <3> TAKE x \in Nat
    <3>1. /\ x \div d \in Nat /\ x % d \in Nat /\ x % d < d
          /\ (x \div d) * d \in Nat /\ x = ((x \div d) * d) + (x % d)
      BY QuotientIs
    <3> QED
      BY <3>1
  <2> QED
    BY <2>1, <2>2
<1>3. q <= r
  <2>1. at <= l
    BY <1>2
  <2> QED
    BY <2>1, <1>1, <1>2, QuotientMonotone
<1>4. PICK N \in Nat : N = r - q
  BY <1>3
<1> DEFINE size(k) == (d - o) + (k * d)
           Next1(v, k) == AddPage(v, Piece(t, at - o + (k * d)))
           first == <<[address |-> Piece(t, at), size |-> d - o]>>
           Walks(f) == f = [k \in 0 .. N |-> IF k = 0 THEN first ELSE Next1(f[k - 1], k)]
           W == {v \in Seq(Entries) : TRUE}
           V == [k \in 0 .. N |-> {v \in W : Covers(v, t, at, size(k))}]
           G == [k \in 1 .. N |-> [v \in W |-> Next1(v, k)]]
<1>5. \A k \in 0 .. N : k * d \in Nat /\ size(k) \in Nat
  BY <1>1
<1>6. \A k \in 1 .. N : /\ at - o + (k * d) = at + size(k - 1) /\ size(k) = size(k - 1) + d
                        /\ at + size(k - 1) = (q + k) * d /\ (q + k) * d <= y
  <2> TAKE k \in 1 .. N
  <2>1. PICK x \in Nat, u \in Nat : x = k * d /\ u = (k - 1) * d
    BY <1>1
  <2>2. x = u + d
    BY <2>1, <1>1
  <2>3. (q + k) * d = z + x
    BY <2>1, <1>1
  <2>4. (q + k) * d <= r * d
    BY <1>1, <1>4
  <2> QED
    BY <1>1, <1>2, <2>1, <2>2, <2>3, <2>4
<1>7. \A k \in 1 .. N : /\ (at + size(k - 1)) % d = 0 /\ Within(t, at + size(k - 1), 1)
  <2> TAKE k \in 1 .. N
  <2>1. PICK p \in Nat, x \in Nat : p = q + k /\ x = p * d /\ x = at + size(k - 1) /\ x <= y
    <3>1. q + k \in Nat /\ (q + k) * d \in Nat
      BY <1>1
    <3> QED
      BY <3>1, <1>6
  <2>2. x \div d = p
    BY <2>1, QuotientOf, <1>1
  <2>3. x % d \in Nat /\ x = ((x \div d) * d) + (x % d)
    BY <2>1, QuotientIs
  <2>4. x % d = 0
    BY <2>1, <2>2, <2>3
  <2>5. Within(t, x, 1)
    <3>1. Len(BufferFrames[t]) * PageSectors \in Nat
      BY FramesHold
    <3> QED
      BY <3>1, <2>1, <1>2 DEF Within
  <2> QED
    BY <2>1, <2>4, <2>5
<1>8. Within(t, at, 1)
  <2>1. Len(BufferFrames[t]) * PageSectors \in Nat
    BY FramesHold
  <2> QED
    BY <2>1 DEF Within
<1>9. Covers(first, t, at, size(0)) /\ first \in Seq(Entries)
  <2>1. size(0) = d - o
    BY <1>1
  <2>2. Covers(first, t, at, d - o)
    BY <1>1, <1>8, FirstPage
  <2> QED
    BY <2>1, <2>2 DEF Covers
<1>10. MdlPairs(t, at, count) = (CHOOSE f : Walks(f))[N]
  BY <1>1, <1>2, <1>4, Zenon DEF MdlPairs
<1>11. ASSUME NEW k \in 1 .. N, NEW v \in Seq(Entries), Covers(v, t, at, size(k - 1))
       PROVE  Next1(v, k) \in Seq(Entries) /\ Covers(Next1(v, k), t, at, size(k))
  <2>1. PICK n \in Nat : n = size(k - 1)
    <3>1. k - 1 \in 0 .. N
      OBVIOUS
    <3> QED
      BY <3>1, <1>5
  <2>2. Covers(AddPage(v, Piece(t, at + n)), t, at, n + PageSectors)
    BY <1>1, <1>7, <1>11, <2>1, PageAdded
  <2>3. at - o + (k * d) = at + n /\ size(k) = n + PageSectors
    BY <1>1, <1>6, <2>1
  <2> QED
    BY <2>2, <2>3 DEF Covers
<1>12. V \in [0 .. N -> SUBSET W] /\ \A k \in 0 .. N : V[k] = {v \in Seq(Entries) : Covers(v, t, at, size(k))}
  OBVIOUS
<1>13. \A k \in 1 .. N : \A v \in Seq(Entries) : G[k][v] = Next1(v, k)
  OBVIOUS
<1>14. first \in V[0]
  BY <1>9, <1>12
<1> HIDE DEF V, G, first
<1>15. StepsWithin(N, V, G)
  <2>1. ASSUME NEW k \in 1 .. N, NEW v \in V[k - 1] PROVE G[k][v] \in V[k]
    <3>1. k \in 0 .. N /\ k - 1 \in 0 .. N
      OBVIOUS
    <3>2. v \in Seq(Entries) /\ Covers(v, t, at, size(k - 1))
      BY <1>12, <3>1
    <3> HIDE DEF size, Next1
    <3>3. Next1(v, k) \in {x \in Seq(Entries) : Covers(x, t, at, size(k))}
      BY <1>11, <3>2
    <3> QED
      BY <1>12, <1>13, <3>1, <3>2, <3>3
  <2> QED
    BY <2>1 DEF StepsWithin
<1> HIDE DEF W
<1>16. PICK f \in [0 .. N -> W] : Computed(f, N, first, V, G)
  BY <1>12, <1>14, <1>15, Recursion
<1>17. f[0] = first /\ \A k \in 1 .. N : f[k] = Next1(f[k - 1], k)
  <2> HIDE DEF Next1
  <2>1. ASSUME NEW k \in 1 .. N PROVE f[k] = Next1(f[k - 1], k)
    <3>1. k - 1 \in 0 .. N /\ f[k - 1] \in Seq(Entries)
      BY DEF W
    <3> QED
      BY <3>1, <1>13, <1>16 DEF Computed
  <2> QED
    BY <2>1, <1>16 DEF Computed
<1> HIDE DEF Next1, size
<1>18. Walks(f)
  <2>1. ASSUME NEW k \in 0 .. N PROVE f[k] = IF k = 0 THEN first ELSE Next1(f[k - 1], k)
    <3>1. k # 0 => k \in 1 .. N
      OBVIOUS
    <3> QED
      BY <3>1, <1>17
  <2>2. f = [k \in 0 .. N |-> f[k]]
    OBVIOUS
  <2> QED
    BY <2>1, <2>2, Zenon
<1> DEFINE g == CHOOSE h : Walks(h)
<1>19. Walks(g)
  <2> HIDE DEF Walks
  <2> QED
    BY <1>18, Zenon
<1> HIDE DEF g
<1>20. N \in {k \in 0 .. N : Covers(g[k], t, at, size(k)) /\ g[k] \in Seq(Entries)}
  <2> DEFINE S == {k \in 0 .. N : Covers(g[k], t, at, size(k)) /\ g[k] \in Seq(Entries)}
  <2>1. 0 \in S
    BY <1>9, <1>19 DEF first
  <2>2. ASSUME NEW k \in 1 .. N, k - 1 \in S PROVE k \in S
    <3>1. k \in 0 .. N /\ k # 0
      OBVIOUS
    <3>2. g[k] = Next1(g[k - 1], k)
      BY <1>19, <3>1
    <3> QED
      BY <1>11, <2>2, <3>1, <3>2
  <2> HIDE DEF S
  <2>3. N \in S
    BY <2>1, <2>2, CountingUp, N \in 0 .. N
  <2> QED
    BY <2>3 DEF S
<1>21. count <= size(N) /\ size(N) < count + d /\ size(N) \in Nat
  <2>1. PICK x \in Nat : x = N * d /\ z + x = y
    <3>1. N * d \in Nat /\ r = q + N /\ (q + N) * d = (q * d) + (N * d)
      BY <1>1, <1>4
    <3> QED
      BY <3>1, <1>1, <1>2
  <2> QED
    BY <1>1, <1>2, <2>1 DEF size
<1> QED
  BY <1>1, <1>10, <1>20, <1>21 DEF g

\* The places of a buffer.
LEMMA PlacesOf ==
  ASSUME NEW t \in StThreads, NEW at \in Nat, NEW n \in Nat, Within(t, at, n)
  PROVE  /\ BufferPieces(t, at, n) \in Seq(Nat) /\ Len(BufferPieces(t, at, n)) = n
         /\ \A i \in 1 .. n : BufferPieces(t, at, n)[i] = Piece(t, at + i - 1)
<1>1. \A i \in 1 .. n : Piece(t, at + i - 1) \in Nat
  <2> TAKE i \in 1 .. n
  <2>1. at + i - 1 \in Nat /\ Within(t, at + i - 1, 1)
    BY FramesHold DEF Within
  <2> QED
    BY <2>1, PageOf
<1>2. BufferPieces(t, at, n) \in [1 .. n -> Nat]
  BY <1>1 DEF BufferPieces
<1>3. BufferPieces(t, at, n) \in Seq(Nat)
  BY <1>2
<1>4. Len(BufferPieces(t, at, n)) = n
  BY <1>2, <1>3
<1> QED
  BY <1>3, <1>4 DEF BufferPieces

\* The places from n on of t's buffer at at are those from a on.
Follows(t, at, n, a, m) == \A k \in 0 .. m - 1 : a + k = Piece(t, at + n + k)

\* The places of a buffer, followed by the next ones.
LEMMA PiecesJoin ==
  ASSUME NEW t \in StThreads, NEW at \in Nat, NEW n \in Nat, NEW m \in Nat, Within(t, at, n + m),
         NEW a \in Nat, Follows(t, at, n, a, m)
  PROVE  BufferPieces(t, at, n) \o Places(a, m) = BufferPieces(t, at, n + m)
<1>1. Within(t, at, n) /\ n + m \in Nat
  BY FramesHold DEF Within
<1>2. PICK u \in Seq(Nat) : /\ u = BufferPieces(t, at, n) /\ Len(u) = n
                            /\ \A i \in 1 .. n : u[i] = Piece(t, at + i - 1)
  BY <1>1, PlacesOf
<1>3. PICK w \in Seq(Nat) : /\ w = BufferPieces(t, at, n + m) /\ Len(w) = n + m
                            /\ \A i \in 1 .. n + m : w[i] = Piece(t, at + i - 1)
  BY <1>1, PlacesOf
<1>4. PICK v \in Seq(Nat) : v = Places(a, m) /\ Len(v) = m /\ \A i \in 1 .. m : v[i] = a + i - 1
  <2>1. Places(a, m) \in Seq(Nat) /\ Len(Places(a, m)) = m
    BY PlacesConcat
  <2> QED
    BY <2>1 DEF Places
<1>5. PICK x \in Seq(Nat) : /\ x = u \o v /\ Len(x) = n + m
                            /\ \A i \in 1 .. n + m : x[i] = IF i <= n THEN u[i] ELSE v[i - n]
  <2>1. /\ u \o v \in Seq(Nat) /\ Len(u \o v) = Len(u) + Len(v)
        /\ \A i \in 1 .. Len(u) + Len(v) : (u \o v)[i] = IF i <= Len(u) THEN u[i] ELSE v[i - Len(u)]
    BY ConcatProperties
  <2>2. Len(u \o v) = n + m
    BY <2>1, <1>2, <1>4
  <2>3. \A i \in 1 .. n + m : (u \o v)[i] = IF i <= n THEN u[i] ELSE v[i - n]
    BY <2>1, <1>2, <1>4
  <2> QED
    BY <2>1, <2>2, <2>3
<1>6. ASSUME NEW i \in 1 .. n + m PROVE x[i] = w[i]
  <2>1. CASE i <= n
    <3>1. i \in 1 .. n
      BY <2>1
    <3> QED
      BY <3>1, <2>1, <1>2, <1>3, <1>5
  <2>2. CASE i > n
    <3>1. i - n \in 1 .. m /\ (i - n) - 1 \in 0 .. m - 1 /\ at + n + ((i - n) - 1) = at + i - 1
          /\ ~(i <= n) /\ a + ((i - n) - 1) = a + (i - n) - 1
      BY <2>2
    <3>2. v[i - n] = Piece(t, at + i - 1)
      BY <3>1, <1>4 DEF Follows
    <3> QED
      BY <3>1, <3>2, <1>3, <1>5
  <2> QED
    BY <2>1, <2>2
<1>7. x = w
  BY <1>3, <1>5, <1>6, SeqEqual
<1> QED
  BY <1>2, <1>3, <1>4, <1>5, <1>7

\* The DMA table of a buffer (MdlAllocateEx, _AtaPrepareDmaTransfer), whose
\* pairs the driver takes, leaves nothing over and is to the engine exactly
\* the places of the buffer that are asked for, one after the other.
LEMMA TableExact ==
  ASSUME NEW t \in StThreads, NEW at \in Nat, NEW count \in Nat, count > 0, Within(t, at, count),
         NEW pairs, pairs = MdlPairs(t, at, count),
         \A i \in DOMAIN pairs : ~PairRefused(pairs[i])
  PROVE  /\ PrdEntries(pairs, count).remaining = 0
         /\ PrdEntries(pairs, count).table # <<>>
         /\ EnginePieces(PrdEntries(pairs, count).table) = BufferPieces(t, at, count)
<1>1. PICK n \in Nat : Covers(pairs, t, at, n) /\ count <= n /\ n < count + PageSectors
  BY PairsCover
<1>2. PICK e : Marked(e, pairs, t, at, n)
  BY <1>1 DEF Covers
<1>3. PICK N \in Nat : N = Len(pairs) /\ N > 0 /\ pairs \in Seq(Entries) /\ DOMAIN pairs = 1 .. N
  BY <1>1 DEF Covers
<1>4. /\ e \in [0 .. N -> Nat] /\ e[0] = 0 /\ e[N] = n
      /\ \A i, j \in 0 .. N : i <= j => e[i] <= e[j]
      /\ \A j \in 1 .. N :
           /\ pairs[j].size > 0 /\ e[j] = e[j - 1] + pairs[j].size
           /\ \A k \in 0 .. pairs[j].size - 1 : pairs[j].address + k = Piece(t, at + e[j - 1] + k)
      /\ N = 1 \/ pairs[N].size >= PageSectors
  BY <1>2, <1>3 DEF Marked
<1>5. \A j \in 1 .. N : pairs[j] \in Entries /\ pairs[j].size < DmaBoundary
  <2> TAKE j \in 1 .. N
  <2>1. pairs[j] \in Entries /\ ~(pairs[j].size >= DmaBoundary)
    BY <1>3 DEF PairRefused
  <2>2. pairs[j].size \in Nat
    BY <2>1 DEF Entries
  <2> QED
    BY <2>1, <2>2, Sizes
<1>6. ASSUME NEW j \in 1 .. N PROVE j - 1 \in 0 .. N /\ j \in 0 .. N /\ e[j - 1] \in Nat /\ e[j - 1] < count
  <2>1. j - 1 \in 0 .. N /\ N - 1 \in 0 .. N /\ j - 1 <= N - 1 /\ N \in 1 .. N
    BY <1>3
  <2>2. e[j - 1] <= e[N - 1] /\ e[j - 1] \in Nat /\ e[N - 1] \in Nat
    BY <1>4, <2>1
  <2>3. n = e[N - 1] + pairs[N].size /\ pairs[N].size \in Nat
    BY <1>4, <1>5, <2>1 DEF Entries
  <2>4. e[N - 1] < count
    <3>1. CASE N = 1
      BY <1>4, <3>1
    <3>2. CASE pairs[N].size >= PageSectors
      BY <1>1, <2>2, <2>3, <3>2, Sizes
    <3> QED
      BY <1>4, <3>1, <3>2
  <2> QED
    BY <2>1, <2>2, <2>4
<1> DEFINE upTo(j) == IF e[j] <= count THEN e[j] ELSE count
           Right(prd, j) == /\ prd \in [remaining : Nat, table : Seq(Entries)]
                            /\ prd.remaining = count - upTo(j)
                            /\ EnginePieces(prd.table) = BufferPieces(t, at, upTo(j))
                            /\ j > 0 => prd.table # <<>>
           W == [remaining : Nat, table : Seq(Entries)]
           base == [remaining |-> count, table |-> <<>>]
           V == [j \in 0 .. N |-> {prd \in W : Right(prd, j)}]
           G == [j \in 1 .. N |-> [prd \in W |-> AddEntries(prd, pairs[j])]]
           Walks(f) == f = [j \in 0 .. N |-> IF j = 0 THEN base ELSE AddEntries(f[j - 1], pairs[j])]
<1>7. Right(base, 0)
  <2>1. upTo(0) = 0
    BY <1>4
  <2>2. base \in [remaining : Nat, table : Seq(Entries)] /\ base.remaining = count /\ base.table = <<>>
    OBVIOUS
  <2>3. BufferPieces(t, at, 0) = <<>>
    BY DEF BufferPieces
  <2>4. EnginePieces(<<>>) = <<>>
    <3>1. <<>> \in Seq(Entries)
      OBVIOUS
    <3> QED
      BY <3>1, EngineGrows
  <2> HIDE DEF base, upTo
  <2> QED
    BY <2>1, <2>2, <2>3, <2>4
<1>8. ASSUME NEW j \in 1 .. N, NEW prd, Right(prd, j - 1) PROVE Right(AddEntries(prd, pairs[j]), j)
  <2>1. PICK x \in Nat, r \in Nat : /\ x = e[j - 1] /\ x < count /\ upTo(j - 1) = x /\ prd.remaining = r
                                    /\ r = count - x /\ r > 0 /\ prd.table \in Seq(Entries)
                                    /\ EnginePieces(prd.table) = BufferPieces(t, at, x)
    <3>1. e[j - 1] \in Nat /\ e[j - 1] < count
      BY <1>6
    <3>2. upTo(j - 1) = e[j - 1] /\ count - e[j - 1] \in Nat /\ count - e[j - 1] > 0
      BY <3>1
    <3>3. /\ prd.remaining = count - upTo(j - 1) /\ prd.table \in Seq(Entries)
          /\ EnginePieces(prd.table) = BufferPieces(t, at, upTo(j - 1))
      BY <1>8
    <3> HIDE DEF upTo
    <3> QED
      BY <3>1, <3>2, <3>3
  <2>2. PICK s \in Nat, a \in Nat : /\ s = pairs[j].size /\ a = pairs[j].address /\ s > 0 /\ s < DmaBoundary
                                    /\ pairs[j] \in Entries /\ e[j] = x + s
                                    /\ \A k \in 0 .. s - 1 : a + k = Piece(t, at + x + k)
    <3>1. pairs[j] \in Entries /\ pairs[j].size < DmaBoundary
      BY <1>5
    <3>2. pairs[j].size \in Nat /\ pairs[j].address \in Nat
      BY <3>1 DEF Entries
    <3>3. /\ pairs[j].size > 0 /\ e[j] = e[j - 1] + pairs[j].size
          /\ \A k \in 0 .. pairs[j].size - 1 : pairs[j].address + k = Piece(t, at + e[j - 1] + k)
      BY <1>4
    <3> HIDE DEF upTo
    <3>4. e[j - 1] = x
      BY <2>1
    <3>5. /\ pairs[j].size > 0 /\ e[j] = x + pairs[j].size
          /\ \A k \in 0 .. pairs[j].size - 1 : pairs[j].address + k = Piece(t, at + x + k)
      BY <3>3, <3>4
    <3> QED
      BY <3>1, <3>2, <3>5, Zenon
  <2>3. PICK m : m = IF s <= r THEN s ELSE r
    OBVIOUS
  <2>4. m \in Nat /\ m <= s /\ upTo(j) = x + m /\ r - m = count - (x + m) /\ r - m \in Nat /\ x + m <= count
    <3>1. /\ m \in Nat /\ m <= s /\ r - m = count - (x + m) /\ r - m \in Nat /\ x + m <= count
          /\ x + m = IF x + s <= count THEN x + s ELSE count
      <4> HIDE DEF upTo
      <4>1. x \in Nat /\ r \in Nat /\ s \in Nat /\ r = count - x /\ m = IF s <= r THEN s ELSE r
        BY <2>1, <2>2, <2>3
      <4> QED
        BY <4>1
    <3>2. upTo(j) = IF x + s <= count THEN x + s ELSE count
      BY <2>2
    <3> HIDE DEF upTo
    <3> QED
      BY <3>1, <3>2
  <2>5. PICK added : added = AddEntries(prd, pairs[j])
    OBVIOUS
  <2>6. /\ added = [remaining |-> r - m, table |-> added.table]
        /\ added.table \in Seq(Entries) /\ added.table # <<>>
        /\ EnginePieces(added.table) = EnginePieces(prd.table) \o Places(a, m)
    <3>1. m = IF pairs[j].size <= prd.remaining THEN pairs[j].size ELSE prd.remaining
      BY <2>1, <2>2, <2>3
    <3>2. prd.table \in Seq(Entries) /\ prd.remaining \in Nat /\ prd.remaining > 0 /\ prd.remaining = r
      BY <2>1
    <3>3. pairs[j] \in Entries /\ pairs[j].size > 0 /\ pairs[j].size < DmaBoundary /\ pairs[j].address = a
      BY <2>2
    <3> HIDE DEF upTo, Right
    <3>4. LET more == AddEntries(prd, pairs[j]) IN
          /\ more = [remaining |-> prd.remaining - m, table |-> more.table]
          /\ more.table \in Seq(Entries) /\ more.table # <<>>
          /\ EnginePieces(more.table) = EnginePieces(prd.table) \o Places(pairs[j].address, m)
      BY <3>1, <3>2, <3>3, EntriesAdded
    <3> QED
      BY <3>2, <3>3, <3>4, <2>5
  <2>7. BufferPieces(t, at, x) \o Places(a, m) = BufferPieces(t, at, x + m)
    <3>1. Within(t, at, x + m)
      <4>1. x + m \in Nat /\ x + m <= count
        BY <2>1, <2>4
      <4> HIDE DEF upTo, Right
      <4>2. at + count <= Len(BufferFrames[t]) * PageSectors /\ Len(BufferFrames[t]) * PageSectors \in Nat
        BY FramesHold DEF Within
      <4> QED
        BY <4>1, <4>2 DEF Within
    <3>2. Follows(t, at, x, a, m)
      BY <2>2, <2>4 DEF Follows
    <3>3. x \in Nat /\ m \in Nat /\ a \in Nat
      BY <2>4
    <3> HIDE DEF upTo, Right
    <3> QED
      BY <3>1, <3>2, <3>3, PiecesJoin
  <2>8. added \in [remaining : Nat, table : Seq(Entries)] /\ added.remaining = r - m
    BY <2>4, <2>6
  <2> HIDE DEF upTo
  <2> QED
    BY <2>1, <2>4, <2>5, <2>6, <2>7, <2>8
<1>9. PrdEntries(pairs, count) = (CHOOSE f : Walks(f))[N]
  BY <1>3, Zenon DEF PrdEntries
<1> HIDE DEF upTo
<1>10. V \in [0 .. N -> SUBSET W] /\ \A j \in 0 .. N : V[j] = {prd \in W : Right(prd, j)}
  OBVIOUS
<1>11. \A j \in 1 .. N : \A prd \in W : G[j][prd] = AddEntries(prd, pairs[j])
  OBVIOUS
<1>12. \A prd, j : Right(prd, j) => prd \in W
  OBVIOUS
<1> HIDE DEF V, G, W, base, Right
<1>13. base \in V[0]
  BY <1>7, <1>10, <1>12, <1>3
<1>14. StepsWithin(N, V, G)
  <2>1. ASSUME NEW j \in 1 .. N, NEW v \in V[j - 1] PROVE G[j][v] \in V[j]
    <3>1. v \in W /\ Right(v, j - 1)
      BY <1>6, <1>10
    <3>2. Right(AddEntries(v, pairs[j]), j)
      BY <3>1, <1>8
    <3> QED
      BY <3>1, <3>2, <1>6, <1>10, <1>11, <1>12
  <2> QED
    BY <2>1 DEF StepsWithin
<1>15. PICK f \in [0 .. N -> W] : Computed(f, N, base, V, G)
  BY <1>10, <1>13, <1>14, Recursion
<1>16. Walks(f)
  <2>1. ASSUME NEW j \in 0 .. N PROVE f[j] = IF j = 0 THEN base ELSE AddEntries(f[j - 1], pairs[j])
    <3>1. CASE j = 0
      BY <3>1, <1>15 DEF Computed
    <3>2. CASE j # 0
      <4>1. j \in 1 .. N
        BY <3>2
      <4>2. f[j - 1] \in W /\ f[j] = G[j][f[j - 1]]
        BY <4>1, <1>6, <1>15 DEF Computed
      <4> QED
        BY <3>2, <4>1, <4>2, <1>11
    <3> QED
      BY <3>1, <3>2
  <2>2. f = [j \in 0 .. N |-> f[j]]
    OBVIOUS
  <2> QED
    BY <2>1, <2>2, Zenon
<1> DEFINE g == CHOOSE h : Walks(h)
<1>17. Walks(g)
  <2> HIDE DEF Walks
  <2> QED
    BY <1>16, Zenon
<1> HIDE DEF g
<1>18. Right(g[N], N)
  <2> DEFINE S == {j \in 0 .. N : Right(g[j], j)}
  <2>1. 0 \in S
    BY <1>7, <1>17
  <2>2. ASSUME NEW j \in 1 .. N, j - 1 \in S PROVE j \in S
    <3>1. j \in 0 .. N /\ j # 0
      OBVIOUS
    <3>2. g[j] = AddEntries(g[j - 1], pairs[j])
      BY <1>17, <3>1
    <3> QED
      BY <1>8, <2>2, <3>1, <3>2
  <2> HIDE DEF S
  <2>3. N \in S
    BY <2>1, <2>2, CountingUp, N \in 0 .. N
  <2> QED
    BY <2>3 DEF S
<1>19. upTo(N) = count
  BY <1>1, <1>4 DEF upTo
<1> QED
  BY <1>3, <1>9, <1>18, <1>19 DEF Right, g

(***************************************************************************)
(* The driver, the engine and the interrupt handler, for any number of     *)
(* requesters and with the handler on any processor.                       *)
(***************************************************************************)

\* The handler may still have to clear the interrupt bit of a transfer whose
\* thread was signalled.
Clearing == ataIsr \in {"idle", "clear"} /\ bus.irq = (ataIsr = "clear")

\* Nothing of the device is under way.
AtRest == ~ready /\ ~interrupt /\ Clearing /\ ~bus.started /\ sectors = finished.disk

\* What the driver has done for a request when its thread is at each step.
Accepted(t) ==
  LET r == request[t].ask IN
  /\ r \in StRequests /\ Route(r).ok
  /\ request[t] = [pc |-> request[t].pc, ask |-> r, at |-> r.at,
                   sector |-> Route(r).sector, count |-> Route(r).count]
Selected(t) ==
  channel = [lba |-> request[t].sector, count |-> request[t].count, nien |-> ~request[t].ask.async]
Tabled(t) == prdt # <<>> /\ EnginePieces(prdt) = Pieces(t)

\* What the engine has done, of which no one was told yet: the data is where
\* it belongs.
Moved(t) ==
  IF request[t].ask.write
  THEN sectors = Put(finished.disk, Asked(request[t].ask), Get(memory, Pieces(t)))
  ELSE sectors = finished.disk /\ Get(memory, Pieces(t)) = Get(sectors, Asked(request[t].ask))

Moving == /\ drive = "dma" /\ ataState = "in_progress" /\ ~ready /\ ~interrupt
          /\ Clearing /\ bus.started /\ sectors = finished.disk

\* Also when the handler clears the bit of this transfer with that of the one
\* before, so that nobody will be told.
MovedUntold == /\ drive = "idle" /\ ataState = "in_progress" /\ ~ready /\ bus.started
               /\ ataIsr \in {"idle", "clear"} /\ (ataIsr = "clear" => bus.irq)
TransferSignalled == /\ drive = "idle" /\ ataState = "finished" /\ ready /\ ~interrupt
                     /\ Clearing /\ ~bus.started

AtSelect(t) == /\ request[t].pc = "select" /\ drive = "idle" /\ ataState = "in_progress"
               /\ AtRest /\ prdt = <<>>
AtPrepare(t) == /\ request[t].pc = "prepare" /\ drive = "idle" /\ ataState = "in_progress"
                /\ AtRest /\ prdt = <<>> /\ Selected(t) /\ request[t].ask.async
AtCommand(t) == /\ request[t].pc = "command" /\ drive = "idle" /\ ataState = "in_progress"
                /\ AtRest /\ Selected(t)
                /\ IF request[t].ask.async THEN Tabled(t) ELSE prdt = <<>>
AtBuffer(t) == /\ request[t].pc = "buffer" /\ drive = "pio" /\ ataState = "in_progress"
               /\ AtRest /\ prdt = <<>> /\ Selected(t) /\ ~request[t].ask.async
AtWait(t) == /\ request[t].pc = "wait" /\ Selected(t) /\ Tabled(t) /\ request[t].ask.async
             /\ bus.write = request[t].ask.write
             /\ Moving \/ (Moved(t) /\ (MovedUntold \/ TransferSignalled))

Stage(t) == AtSelect(t) \/ AtPrepare(t) \/ AtCommand(t) \/ AtBuffer(t) \/ AtWait(t)

\* Where the buffers are.
Buffered == UNION {ToSet(BufferPieces(t, 0, Len(BufferFrames[t]) * PageSectors)) : t \in StThreads}
OnDisk == 0 .. TotalSectors - 1

StShape ==
  /\ bus \in [irq : BOOLEAN, started : BOOLEAN, write : BOOLEAN]
  /\ interrupt \in BOOLEAN /\ ready \in BOOLEAN
  /\ finished = [disk |-> finished.disk, got |-> finished.got, want |-> finished.want]
  /\ DOMAIN sectors = OnDisk /\ DOMAIN finished.disk = OnDisk /\ DOMAIN memory = Buffered
  /\ request = [t \in StThreads |-> request[t]]

StFree == /\ ataState = "free" /\ drive = "idle" /\ AtRest /\ prdt = <<>>
          /\ \A t \in StThreads : request[t] = NoTransfer

\* One request is served and no other thread has one.
Served(t) == /\ Accepted(t) /\ Stage(t)
             /\ \A u \in StThreads \ {t} : request[u] = NoTransfer

StInv ==
  /\ StShape /\ finished.got = finished.want
  /\ IF stHalted THEN Overlapping
     ELSE StFree \/ \E t \in StThreads : Served(t)

\* What a request that is let through (VolDispatchReadWrite,
\* DiskDispatchReadWrite, AtaDispatchReadWrite) gets is what it names.
LEMMA RouteExact ==
  ASSUME NEW r \in StRequests, Route(r).ok
  PROVE  /\ Route(r).sector \in Nat /\ Route(r).sector = Start(r) + (r.offset \div SectorSize)
         /\ Route(r).count \in Nat /\ Route(r).count > 0 /\ Route(r).count = r.length \div SectorSize
<1>1. /\ r.dev \in 0 .. Len(DiskLayout) /\ r.offset \in Nat /\ r.length \in Nat
      /\ DiskLayout \in Seq([offset : Nat, size : Nat])
  BY StAssumption
<1>2. PICK d \in Nat \ {0} : d = SectorSize
  BY Sizes
<1>3. PICK x \in Nat, n \in Nat : x = r.offset \div d /\ n = r.length \div d
  BY <1>1, <1>2, QuotientIs
<1>4. ASSUME NEW offset \in Nat, NEW index \in Nat, offset \div d = index, AtaCheck(offset, r.length).ok
      PROVE  AtaCheck(offset, r.length) = [ok |-> TRUE, sector |-> index, count |-> n] /\ n # 0
  BY <1>2, <1>3, <1>4 DEF AtaCheck, Failed
<1>5. CASE r.dev = 0
  <2>1. Route(r) = AtaCheck(r.offset, r.length)
    BY <1>5 DEF Route, DiskDispatchReadWrite, Failed
  <2>2. Start(r) = 0
    BY <1>5 DEF Start
  <2>3. Route(r) = [ok |-> TRUE, sector |-> x, count |-> n] /\ n # 0
    BY <2>1, <1>1, <1>3, <1>4
  <2> QED
    BY <2>2, <2>3, <1>2, <1>3
<1>6. CASE r.dev # 0
  <2>1. PICK p \in Nat : p = DiskLayout[r.dev].offset
    <3>1. r.dev \in 1 .. Len(DiskLayout)
      BY <1>1, <1>6
    <3>2. DiskLayout[r.dev] \in [offset : Nat, size : Nat]
      BY <1>1, <3>1, ElementOfSeq
    <3> QED
      BY <3>2
  <2>2. Start(r) = p
    BY <1>6, <2>1 DEF Start
  <2>3. Route(r) = AtaCheck((x + p) * SectorSize, r.length)
    BY <1>6, <2>1, <1>2, <1>3 DEF Route, VolDispatchReadWrite, Failed
  <2>4. PICK y \in Nat : y = x + p
    BY <1>3, <2>1
  <2>5. y * d \in Nat /\ (y * d) \div d = y
    <3>1. PICK z \in Nat : z = y * d
      BY <1>2, <2>4
    <3>2. z <= z /\ z < z + d
      BY <1>2, <3>1
    <3> QED
      BY <3>1, <3>2, <1>2, QuotientOf
  <2>6. Route(r) = AtaCheck(y * d, r.length)
    BY <2>3, <2>4, <1>2
  <2>7. Route(r) = [ok |-> TRUE, sector |-> y, count |-> n] /\ n # 0
    BY <2>5, <2>6, <1>4
  <2> QED
    BY <2>2, <2>4, <2>7, <1>2, <1>3
<1> QED
  BY <1>5, <1>6

\* Products grow.
LEMMA MoreTimes ==
  ASSUME NEW a \in Nat, NEW b \in Nat, NEW d \in Nat, a <= b
  PROVE  a * d <= b * d
OBVIOUS

\* The pages of a buffer are mapped to frames of their own.
LEMMA PlacesApart ==
  ASSUME NEW t \in StThreads, NEW p \in Nat, NEW q \in Nat, Within(t, p, 1), Within(t, q, 1),
         Piece(t, p) = Piece(t, q)
  PROVE  p = q
<1>1. PICK d \in Nat \ {0}, f \in Seq(Nat) : d = PageSectors /\ f = BufferFrames[t] /\ IsInjective(f)
  BY Sizes, StAssumption
<1>2. ASSUME NEW x \in Nat, Within(t, x, 1)
      PROVE  \E i \in Nat, o \in Nat, z \in Nat, b \in Nat :
               /\ i = x \div d /\ o = x % d /\ o < d /\ z = i * d /\ x = z + o /\ i + 1 \in 1 .. Len(f)
               /\ b = f[i + 1] /\ b * d \in Nat /\ Piece(t, x) = (b * d) + o
  <2>1. PICK i \in Nat, o \in Nat, z \in Nat : i = x \div d /\ o = x % d /\ z = i * d /\ x = z + o /\ o < d
    BY <1>1, QuotientIs
  <2>2. PICK m \in Nat, w \in Nat : m = Len(f) /\ w = m * d /\ x + 1 <= w
    BY <1>1, <1>2, FramesHold DEF Within
  <2>3. i < Len(f)
    <3>1. SUFFICES ASSUME i >= m PROVE FALSE
      BY <2>1, <2>2
    <3>2. m * d <= i * d
      BY <2>1, <2>2, <3>1, <1>1, MoreTimes
    <3>3. w <= z
      BY <2>1, <2>2, <3>2
    <3> QED
      BY <2>1, <2>2, <3>3
  <2>4. i + 1 \in 1 .. Len(f)
    BY <2>1, <2>2, <2>3
  <2>5. PICK b \in Nat : b = f[i + 1]
    BY <2>4, <1>1
  <2>6. b * d \in Nat
    BY <2>5, <1>1
  <2>7. Piece(t, x) = (b * d) + o
    BY <2>1, <2>5, <1>1 DEF Piece
  <2> QED
    BY <2>1, <2>4, <2>5, <2>6, <2>7
<1>3. PICK i \in Nat, o \in Nat, z \in Nat, b \in Nat :
        /\ i = p \div d /\ o = p % d /\ o < d /\ z = i * d /\ p = z + o /\ i + 1 \in 1 .. Len(f)
        /\ b = f[i + 1] /\ b * d \in Nat /\ Piece(t, p) = (b * d) + o
  BY <1>2
<1>4. PICK j \in Nat, u \in Nat, y \in Nat, c \in Nat :
        /\ j = q \div d /\ u = q % d /\ u < d /\ y = j * d /\ q = y + u /\ j + 1 \in 1 .. Len(f)
        /\ c = f[j + 1] /\ c * d \in Nat /\ Piece(t, q) = (c * d) + u
  BY <1>2
<1>5. PICK v \in Nat, w \in Nat, k \in Nat : w = b * d /\ k = c * d /\ v = w + o /\ v = k + u
  <2>1. PICK w \in Nat : w = b * d
    BY <1>3
  <2>2. PICK k \in Nat : k = c * d
    BY <1>4
  <2>3. w + o = k + u
    BY <2>1, <2>2, <1>3, <1>4
  <2>4. PICK v \in Nat : v = w + o
    OBVIOUS
  <2> QED
    BY <2>1, <2>2, <2>3, <2>4
<1>6. b = c
  <2>1. w <= v /\ v < w + d /\ k <= v /\ v < k + d
    <3>1. o < d /\ u < d /\ d \in Nat
      BY <1>3, <1>4, <1>1
    <3>2. v = w + o /\ v = k + u
      BY <1>5
    <3> QED
      BY <3>1, <3>2
  <2>2. b * d <= v /\ v < (b * d) + d
    BY <2>1, <1>5
  <2>3. c * d <= v /\ v < (c * d) + d
    BY <2>1, <1>5
  <2>4. v \div d = b
    BY <2>2, QuotientOf
  <2>5. v \div d = c
    BY <2>3, QuotientOf
  <2> QED
    BY <2>4, <2>5
<1>7. o = u
  <2>1. w = k
    BY <1>5, <1>6
  <2> QED
    BY <2>1, <1>5
<1>8. i = j
  <2>1. DOMAIN f = 1 .. Len(f)
    BY <1>1
  <2>2. f[i + 1] = f[j + 1]
    BY <1>3, <1>4, <1>6
  <2>3. i + 1 = j + 1
    BY <1>1, <1>3, <1>4, <2>1, <2>2 DEF IsInjective
  <2> QED
    BY <2>3
<1> QED
  <2>1. z = y
    BY <1>3, <1>4, <1>8
  <2> QED
    BY <2>1, <1>3, <1>4, <1>7

\* The places of a request are sectors of memory, each another one.
Distinct(keys) == \A i, j \in DOMAIN keys : keys[i] = keys[j] => i = j

LEMMA PlacesMapped ==
  ASSUME NEW t \in StThreads, NEW at \in Nat, NEW n \in Nat, Within(t, at, n)
  PROVE  /\ DOMAIN BufferPieces(t, at, n) = 1 .. n /\ Distinct(BufferPieces(t, at, n))
         /\ \A i \in 1 .. n : BufferPieces(t, at, n)[i] \in Buffered
<1>1. DOMAIN BufferPieces(t, at, n) = 1 .. n
      /\ \A i \in 1 .. n : BufferPieces(t, at, n)[i] = Piece(t, at + i - 1)
  BY DEF BufferPieces
<1>2. PICK l \in Nat : l = Len(BufferFrames[t]) * PageSectors
  BY FramesHold
<1>3. at + n <= l
  BY <1>2 DEF Within
<1>4. ASSUME NEW i \in 1 .. n PROVE at + i - 1 \in Nat /\ at + i \in 1 .. l /\ Within(t, at + i - 1, 1)
  <2>1. at + i - 1 \in Nat /\ at + i \in 1 .. l /\ (at + i - 1) + 1 <= l
    BY <1>2, <1>3
  <2> QED
    BY <2>1, <1>2 DEF Within
<1>5. ASSUME NEW i \in 1 .. n, NEW j \in 1 .. n, Piece(t, at + i - 1) = Piece(t, at + j - 1) PROVE i = j
  <2>1. at + i - 1 = at + j - 1
    BY <1>4, <1>5, PlacesApart
  <2> QED
    BY <2>1
<1>6. ASSUME NEW i \in 1 .. n PROVE Piece(t, at + i - 1) \in Buffered
  <2> DEFINE all == BufferPieces(t, 0, l)
  <2>1. PICK k \in 1 .. l : k = at + i /\ 0 + k - 1 = at + i - 1
    BY <1>4
  <2>2. DOMAIN all = 1 .. l /\ all[k] = Piece(t, 0 + k - 1)
    BY DEF BufferPieces
  <2>3. Piece(t, at + i - 1) \in ToSet(all)
    BY <2>1, <2>2 DEF ToSet
  <2>4. ToSet(all) \in {ToSet(BufferPieces(u, 0, Len(BufferFrames[u]) * PageSectors)) : u \in StThreads}
    BY <1>2
  <2> HIDE DEF all
  <2> QED
    BY <2>3, <2>4 DEF Buffered
<1> QED
  BY <1>1, <1>5, <1>6 DEF Distinct

\* What was put somewhere is found there.
LEMMA PutFound ==
  ASSUME NEW f, NEW n \in Nat, NEW keys, DOMAIN keys = 1 .. n, Distinct(keys),
         \A i \in 1 .. n : keys[i] \in DOMAIN f, NEW values, values = [i \in 1 .. n |-> values[i]]
  PROVE  Get(Put(f, keys, values), keys) = values
<1>1. ASSUME NEW i \in 1 .. n PROVE Put(f, keys, values)[keys[i]] = values[i]
  <2>1. PICK j : j = CHOOSE k \in DOMAIN keys : keys[k] = keys[i]
    OBVIOUS
  <2>2. j \in DOMAIN keys /\ keys[j] = keys[i]
    BY <2>1
  <2>3. j = i
    BY <2>2 DEF Distinct
  <2> QED
    BY <2>1, <2>3 DEF Put
<1>2. Get(Put(f, keys, values), keys) = [i \in 1 .. n |-> values[i]]
  BY <1>1 DEF Get
<1> QED
  BY <1>2

\* AtaInitialize leaves a device at rest.
LEMMA StInitInv == StInit => StInv
<1> SUFFICES ASSUME StInit PROVE StInv
  OBVIOUS
<1> USE DEF StInit, AtaInitialize
<1>1. DOMAIN memory = Buffered
  BY DEF Buffered
<1>2. DOMAIN sectors = OnDisk /\ DOMAIN finished.disk = OnDisk /\ sectors = finished.disk
  BY DEF OnDisk
<1>3. StShape
  BY <1>1, <1>2 DEF StShape
<1>4. StFree
  BY <1>2 DEF StFree, AtRest, Clearing
<1> QED
  BY <1>3, <1>4 DEF StInv

\* The thread whose request is being served is the only one.
LEMMA TheRequester ==
  ASSUME StInv, ~stHalted, NEW t \in StThreads, request[t].pc # "idle"
  PROVE  Served(t)
<1>1. ~StFree
  BY DEF StFree, NoTransfer
<1>2. PICK u \in StThreads : Served(u)
  BY <1>1 DEF StInv
<1>3. u = t
  BY <1>2 DEF Served, NoTransfer
<1> QED
  BY <1>2, <1>3

\* An accepted request is none of the empty ones.
LEMMA ServedIsThere ==
  ASSUME NEW t, Stage(t)
  PROVE  request[t].pc # "idle" /\ request[t] # NoTransfer
BY DEF Stage, AtSelect, AtPrepare, AtCommand, AtBuffer, AtWait, NoTransfer

\* Where an accepted request has its data, in memory and on the disk.
LEMMA Placed ==
  ASSUME NEW t \in StThreads, Accepted(t)
  PROVE  /\ request[t].at \in Nat /\ request[t].count \in Nat /\ request[t].count > 0
         /\ Within(t, request[t].at, request[t].count)
         /\ DOMAIN Pieces(t) = 1 .. request[t].count /\ Distinct(Pieces(t))
         /\ \A i \in 1 .. request[t].count : Pieces(t)[i] \in Buffered
         /\ Asked(request[t].ask) = [i \in 1 .. request[t].count |-> request[t].sector + i - 1]
<1>1. PICK r \in StRequests, n \in Nat, at \in Nat, s \in Nat :
        /\ r = request[t].ask /\ n = request[t].count /\ at = request[t].at /\ s = request[t].sector
        /\ n = r.length \div SectorSize /\ n > 0 /\ at = r.at /\ s = Start(r) + (r.offset \div SectorSize)
  <2>1. PICK r \in StRequests : r = request[t].ask /\ Route(r).ok
    BY DEF Accepted
  <2>2. request[t].at = r.at /\ request[t].sector = Route(r).sector /\ request[t].count = Route(r).count
    BY <2>1 DEF Accepted
  <2>3. r.at \in Nat
    BY <2>1, StAssumption
  <2>4. /\ Route(r).sector \in Nat /\ Route(r).sector = Start(r) + (r.offset \div SectorSize)
        /\ Route(r).count \in Nat /\ Route(r).count > 0 /\ Route(r).count = r.length \div SectorSize
    BY <2>1, RouteExact
  <2> QED
    BY <2>1, <2>2, <2>3, <2>4
<1>2. Within(t, at, n)
  <2>1. at + n <= Len(BufferFrames[t]) * PageSectors
    BY <1>1, StAssumption
  <2> QED
    BY <2>1 DEF Within
<1>3. Pieces(t) = BufferPieces(t, at, n)
  BY <1>1 DEF Pieces
<1>4. /\ DOMAIN BufferPieces(t, at, n) = 1 .. n /\ Distinct(BufferPieces(t, at, n))
      /\ \A i \in 1 .. n : BufferPieces(t, at, n)[i] \in Buffered
  BY <1>2, PlacesMapped
<1>5. Asked(r) = [i \in 1 .. n |-> s + i - 1]
  BY <1>1 DEF Asked
<1> QED
  BY <1>1, <1>2, <1>3, <1>4, <1>5

\* What the device is told is what was asked for.
LEMMA SpanAsked ==
  ASSUME NEW t \in StThreads, Accepted(t), Selected(t)
  PROVE  [i \in 1 .. channel.count |-> channel.lba + i - 1] = Asked(request[t].ask)
<1>1. channel.count = request[t].count /\ channel.lba = request[t].sector
  BY DEF Selected
<1>2. Asked(request[t].ask) = [i \in 1 .. request[t].count |-> request[t].sector + i - 1]
  BY Placed
<1> QED
  BY <1>1, <1>2

\* What the data of a read is after it has been moved, and what the disk is
\* after a write.
LEMMA DataMoved ==
  ASSUME NEW t \in StThreads, Accepted(t), StShape
  PROVE  LET r == request[t].ask
             asked == Get(sectors, Asked(r))
         IN  /\ Get(Put(memory, Pieces(t), asked), Pieces(t)) = asked
             /\ DOMAIN Put(memory, Pieces(t), asked) = Buffered
             /\ DOMAIN Put(sectors, Asked(r), Get(memory, Pieces(t))) = OnDisk
<1>1. PICK n \in Nat : /\ n = request[t].count /\ DOMAIN Pieces(t) = 1 .. n /\ Distinct(Pieces(t))
                       /\ \A i \in 1 .. n : Pieces(t)[i] \in Buffered
                       /\ DOMAIN Asked(request[t].ask) = 1 .. n
  BY Placed
<1>2. DOMAIN memory = Buffered /\ DOMAIN sectors = OnDisk
  BY DEF StShape
<1> DEFINE asked == Get(sectors, Asked(request[t].ask))
<1>3. asked = [i \in 1 .. n |-> asked[i]]
  BY <1>1 DEF Get
<1>4. DOMAIN Put(memory, Pieces(t), asked) = Buffered
  BY <1>2 DEF Put
<1>5. DOMAIN Put(sectors, Asked(request[t].ask), Get(memory, Pieces(t))) = OnDisk
  BY <1>2 DEF Put
<1> HIDE DEF asked
<1>6. Get(Put(memory, Pieces(t), asked), Pieces(t)) = asked
  BY <1>1, <1>2, <1>3, PutFound
<1> QED
  BY <1>4, <1>5, <1>6 DEF asked

\* The invariant speaks of these variables only.
LEMMA StaysInv ==
  ASSUME StInv, UNCHANGED <<sectors, memory, ataState, ready, prdt, channel, drive, bus, interrupt, ataIsr,
                            request, finished, stHalted>>
  PROVE  StInv'
<1>1. StShape'
  BY DEF StInv, StShape
<1>2. StFree' = StFree /\ Overlapping' = Overlapping
  BY DEF StFree, AtRest, Clearing, Overlapping
<1>3. ASSUME NEW t \in StThreads, Served(t) PROVE Served(t)'
  <2>1. Accepted(t)' /\ Pieces(t)' = Pieces(t)
    BY <1>3 DEF Served, Accepted, Pieces
  <2>2. Stage(t)'
    BY <1>3, <2>1 DEF Served, Stage, AtSelect, AtPrepare, AtCommand, AtBuffer, AtWait, AtRest, Clearing, Selected,
       Tabled, Moved, Moving, MovedUntold, TransferSignalled
  <2> QED
    BY <1>3, <2>1, <2>2 DEF Served
<1> QED
  BY <1>1, <1>2, <1>3 DEF StInv

\* Each operation preserves the invariant: IoReadWriteDevice, which fails its
\* assertion when another request is being served, ...
LEMMA IoReadWriteDeviceStep ==
  ASSUME StInv, NEW t \in StThreads, NEW r \in StRequests, IoReadWriteDevice(t, r)
  PROVE  StInv'
<1>1. ~stHalted /\ request[t].pc = "idle" /\ StShape
      /\ UNCHANGED <<sectors, memory, ready, prdt, channel, drive, bus, interrupt, ataIsr, finished>>
  BY DEF IoReadWriteDevice, Runs, StInv
<1> DEFINE new == [pc |-> "select", ask |-> r, at |-> r.at, sector |-> Route(r).sector, count |-> Route(r).count]
<1>2. CASE Route(r).ok
  <2>1. /\ stHalted' = (ataState # "free")
        /\ ataState' = IF ataState = "free" THEN "in_progress" ELSE ataState
        /\ request' = [request EXCEPT ![t] = new]
    BY <1>2 DEF IoReadWriteDevice, AtaDispatchReadWrite
  <2>2. /\ request'[t] = new /\ request' = [u \in StThreads |-> request'[u]]
        /\ \A u \in StThreads \ {t} : request'[u] = request[u]
    BY <1>1, <2>1 DEF StShape
  <2>3. StShape' /\ finished'.got = finished'.want
    BY <1>1, <2>2 DEF StInv, StShape
  <2>4. CASE StFree
    <3>1. ~stHalted' /\ ataState' = "in_progress"
      BY <2>1, <2>4 DEF StFree
    <3>2. Accepted(t)'
      BY <1>2, <2>2 DEF Accepted
    <3>3. AtSelect(t)'
      BY <1>1, <2>2, <2>4, <3>1 DEF AtSelect, AtRest, Clearing, StFree
    <3>4. Served(t)'
      BY <2>2, <2>4, <3>2, <3>3 DEF Served, Stage, StFree
    <3> QED
      BY <2>3, <3>1, <3>4 DEF StInv
  <2>5. ASSUME NEW u \in StThreads, Served(u) PROVE StInv'
    <3>1. request[u].pc # "idle" /\ request[u] # NoTransfer
      BY <2>5, ServedIsThere DEF Served
    <3>2. u # t /\ request'[u] = request[u] /\ request'[t] # NoTransfer
      BY <1>1, <2>2, <3>1 DEF NoTransfer
    <3>3. Overlapping'
      BY <3>1, <3>2 DEF Overlapping
    <3>4. ataState # "free"
      BY <2>5 DEF Served, Stage, AtSelect, AtPrepare, AtCommand, AtBuffer, AtWait, Moving, MovedUntold, TransferSignalled
    <3> QED
      BY <2>1, <2>3, <3>3, <3>4 DEF StInv
  <2> QED
    BY <1>1, <2>4, <2>5 DEF StInv
<1>3. CASE ~Route(r).ok
  <2>1. UNCHANGED <<sectors, memory, ataState, ready, prdt, channel, drive, bus, interrupt, ataIsr,
                    request, finished, stHalted>>
    BY <1>3 DEF IoReadWriteDevice
  <2> QED
    BY <2>1, StaysInv
<1> QED
  BY <1>2, <1>3

\* The thread goes on to another step with the same request.
LEMMA GoesOn ==
  ASSUME StShape, NEW t \in StThreads, Accepted(t), NEW step, StGoto(t, step)
  PROVE  /\ request'[t] = [request[t] EXCEPT !.pc = step]
         /\ request'[t].pc = step /\ request'[t].ask = request[t].ask /\ request'[t].at = request[t].at
         /\ request'[t].sector = request[t].sector /\ request'[t].count = request[t].count
         /\ Accepted(t)' /\ Pieces(t)' = Pieces(t) /\ request' = [u \in StThreads |-> request'[u]]
         /\ \A u \in StThreads \ {t} : request'[u] = request[u]
<1>1. PICK r \in StRequests : r = request[t].ask /\ Route(r).ok
        /\ request[t] = [pc |-> request[t].pc, ask |-> r, at |-> r.at,
                         sector |-> Route(r).sector, count |-> Route(r).count]
  BY DEF Accepted
<1>2. /\ request'[t] = [request[t] EXCEPT !.pc = step] /\ request' = [u \in StThreads |-> request'[u]]
      /\ \A u \in StThreads \ {t} : request'[u] = request[u]
  BY DEF StShape, StGoto
<1>3. request'[t] = [pc |-> step, ask |-> r, at |-> r.at, sector |-> Route(r).sector, count |-> Route(r).count]
  BY <1>1, <1>2
<1>4. Accepted(t)'
  BY <1>1, <1>3 DEF Accepted
<1>5. request'[t].at = request[t].at /\ request'[t].count = request[t].count
  BY <1>1, <1>3
<1>6. Pieces(t)' = Pieces(t)
  BY <1>5 DEF Pieces
<1> QED
  BY <1>1, <1>2, <1>3, <1>4, <1>5, <1>6

\* The request is over.
LEMMA RequestEnds ==
  ASSUME StShape, NEW t \in StThreads, Served(t), request' = [request EXCEPT ![t] = NoTransfer]
  PROVE  request' = [u \in StThreads |-> request'[u]] /\ \A u \in StThreads : request'[u] = NoTransfer
BY DEF Served, StShape

\* The request goes on being served, and no other comes.
LEMMA StillServed ==
  ASSUME NEW t \in StThreads, Served(t), \A u \in StThreads \ {t} : request'[u] = request[u],
         Accepted(t)', Stage(t)', StShape', ~stHalted', finished'.got = finished'.want
  PROVE  StInv'
BY DEF Served, StInv

\* ... the steps of AtaReadWriteSectors, ...
LEMMA AtaWriteIOParametersStep ==
  ASSUME StInv, NEW t \in StThreads, AtaWriteIOParameters(t)
  PROVE  StInv'
<1>1. Served(t) /\ Accepted(t) /\ AtSelect(t) /\ ~stHalted
  BY TheRequester DEF AtaWriteIOParameters, Runs, Served, Stage, AtPrepare, AtCommand, AtBuffer, AtWait
<1>2. UNCHANGED <<sectors, memory, ataState, ready, prdt, drive, bus, interrupt, ataIsr, finished, stHalted>>
  BY DEF AtaWriteIOParameters
<1>3. PICK step : StGoto(t, step) /\ step = IF request[t].ask.async THEN "prepare" ELSE "command"
  BY DEF AtaWriteIOParameters
<1>4. /\ request'[t].pc = step /\ request'[t].ask = request[t].ask
      /\ request'[t].sector = request[t].sector /\ request'[t].count = request[t].count
      /\ Accepted(t)' /\ request' = [u \in StThreads |-> request'[u]]
      /\ \A u \in StThreads \ {t} : request'[u] = request[u]
  BY <1>1, <1>3, GoesOn DEF StInv
<1>5. Selected(t)'
  BY <1>4 DEF AtaWriteIOParameters, Selected
<1>6. StShape' /\ AtRest'
  BY <1>1, <1>2, <1>4 DEF StInv, StShape, AtSelect, AtRest, Clearing
<1>7. AtPrepare(t)' \/ AtCommand(t)'
  BY <1>1, <1>2, <1>3, <1>4, <1>5, <1>6 DEF AtSelect, AtPrepare, AtCommand
<1> QED
  BY <1>1, <1>2, <1>4, <1>6, <1>7, StillServed DEF StInv, Stage

LEMMA AtaPrepareDmaTransferStep ==
  ASSUME StInv, NEW t \in StThreads, AtaPrepareDmaTransfer(t)
  PROVE  StInv'
<1>1. Served(t) /\ Accepted(t) /\ AtPrepare(t) /\ ~stHalted
  BY TheRequester DEF AtaPrepareDmaTransfer, Runs, Served, Stage, AtSelect, AtCommand, AtBuffer, AtWait
<1>2. UNCHANGED <<sectors, memory, ready, channel, drive, bus, interrupt, ataIsr, finished>>
  BY DEF AtaPrepareDmaTransfer
<1>3. PICK pairs, entries : /\ pairs = MdlPairs(t, request[t].at, request[t].count)
                            /\ entries = PrdEntries(pairs, request[t].count)
  OBVIOUS
<1>4. CASE \E i \in DOMAIN pairs : PairRefused(pairs[i])
  <2>1. ataState' = "free" /\ request' = [request EXCEPT ![t] = NoTransfer] /\ UNCHANGED <<prdt, stHalted>>
    BY <1>3, <1>4 DEF AtaPrepareDmaTransfer
  <2>2. request' = [u \in StThreads |-> request'[u]] /\ \A u \in StThreads : request'[u] = NoTransfer
    BY <2>1, <1>1, RequestEnds DEF StInv
  <2>3. StShape'
    BY <1>2, <2>2 DEF StInv, StShape
  <2>4. StFree'
    BY <1>1, <1>2, <2>1, <2>2 DEF AtPrepare, AtRest, StFree, Clearing
  <2> QED
    BY <1>1, <1>2, <2>1, <2>3, <2>4 DEF StInv
<1>5. CASE ~\E i \in DOMAIN pairs : PairRefused(pairs[i])
  <2>1. /\ prdt' = entries.table /\ stHalted' = (entries.remaining # 0)
        /\ StGoto(t, "command") /\ UNCHANGED ataState
    BY <1>3, <1>5 DEF AtaPrepareDmaTransfer
  <2>2. PICK at \in Nat, n \in Nat : at = request[t].at /\ n = request[t].count /\ n > 0 /\ Within(t, at, n)
    BY <1>1, Placed
  <2>3. entries.remaining = 0 /\ entries.table # <<>> /\ EnginePieces(entries.table) = BufferPieces(t, at, n)
    BY <1>3, <1>5, <2>2, TableExact
  <2>4. /\ request'[t].pc = "command" /\ request'[t].ask = request[t].ask
        /\ request'[t].sector = request[t].sector /\ request'[t].count = request[t].count
        /\ Accepted(t)' /\ Pieces(t)' = Pieces(t) /\ request' = [u \in StThreads |-> request'[u]]
        /\ \A u \in StThreads \ {t} : request'[u] = request[u]
    BY <1>1, <2>1, GoesOn DEF StInv
  <2>5. prdt' # <<>> /\ EnginePieces(prdt') = Pieces(t)'
    BY <2>1, <2>2, <2>3, <2>4 DEF Pieces
  <2>6. Tabled(t)'
    BY <2>5 DEF Tabled
  <2>7. Selected(t)'
    BY <1>1, <1>2, <2>4 DEF AtPrepare, Selected
  <2>8. AtCommand(t)' /\ ~stHalted'
    BY <1>1, <1>2, <2>1, <2>3, <2>4, <2>6, <2>7 DEF AtPrepare, AtCommand, AtRest, Clearing
  <2>9. StShape'
    BY <1>2, <2>4 DEF StInv, StShape
  <2> QED
    BY <1>1, <1>2, <2>4, <2>8, <2>9, StillServed DEF StInv, Stage
<1> QED
  BY <1>4, <1>5

LEMMA AtaWriteCommandStep ==
  ASSUME StInv, NEW t \in StThreads, AtaWriteCommand(t)
  PROVE  StInv'
<1>1. Served(t) /\ Accepted(t) /\ AtCommand(t) /\ ~stHalted
  BY TheRequester DEF AtaWriteCommand, Runs, Served, Stage, AtSelect, AtPrepare, AtBuffer, AtWait
<1>2. UNCHANGED <<sectors, memory, ataState, ready, prdt, channel, interrupt, ataIsr, finished, stHalted>>
  BY DEF AtaWriteCommand
<1>3. PICK async \in BOOLEAN, write \in BOOLEAN : async = request[t].ask.async /\ write = request[t].ask.write
  BY <1>1, StAssumption DEF Accepted
<1>4. /\ drive' = IF async THEN "dma" ELSE "pio"
      /\ bus' = [bus EXCEPT !.started = async, !.write = async /\ write]
      /\ StGoto(t, IF async THEN "wait" ELSE "buffer")
  BY <1>3 DEF AtaWriteCommand
<1>5. /\ request'[t].pc = (IF async THEN "wait" ELSE "buffer") /\ request'[t].ask = request[t].ask
      /\ request'[t].sector = request[t].sector /\ request'[t].count = request[t].count
      /\ Accepted(t)' /\ Pieces(t)' = Pieces(t) /\ request' = [u \in StThreads |-> request'[u]]
      /\ \A u \in StThreads \ {t} : request'[u] = request[u]
  BY <1>1, <1>4, GoesOn DEF StInv
<1>6. bus \in [irq : BOOLEAN, started : BOOLEAN, write : BOOLEAN] /\ bus.irq = (ataIsr = "clear")
  BY <1>1 DEF StInv, StShape, AtCommand, AtRest, Clearing
<1>7. /\ bus' \in [irq : BOOLEAN, started : BOOLEAN, write : BOOLEAN] /\ bus'.irq = bus.irq
      /\ bus'.started = async /\ bus'.write = (async /\ write)
  BY <1>4, <1>6
<1>8. Selected(t)'
  BY <1>1, <1>2, <1>5 DEF AtCommand, Selected
<1>9. StShape'
  BY <1>2, <1>5, <1>7 DEF StInv, StShape
<1>10. CASE async
  <2>1. Tabled(t)'
    BY <1>1, <1>2, <1>3, <1>5, <1>10 DEF AtCommand, Tabled
  <2>2. Moving'
    BY <1>1, <1>2, <1>4, <1>7, <1>10 DEF AtCommand, AtRest, Moving, Clearing
  <2>3. AtWait(t)'
    BY <1>3, <1>5, <1>7, <1>8, <1>10, <2>1, <2>2 DEF AtWait
  <2> QED
    BY <1>1, <1>2, <1>5, <1>9, <2>3, StillServed DEF StInv, Stage
<1>11. CASE ~async
  <2>1. AtRest'
    BY <1>1, <1>2, <1>7, <1>11 DEF AtCommand, AtRest, Clearing
  <2>2. AtBuffer(t)'
    BY <1>1, <1>2, <1>3, <1>4, <1>5, <1>8, <1>11, <2>1 DEF AtCommand, AtBuffer
  <2> QED
    BY <1>1, <1>2, <1>5, <1>9, <2>2, StillServed DEF StInv, Stage
<1> QED
  BY <1>10, <1>11

LEMMA AtaTransferBufferStep ==
  ASSUME StInv, NEW t \in StThreads, AtaTransferBuffer(t)
  PROVE  StInv'
<1>1. Served(t) /\ Accepted(t) /\ AtBuffer(t) /\ ~stHalted
  BY TheRequester DEF AtaTransferBuffer, Runs, Served, Stage, AtSelect, AtPrepare, AtCommand, AtWait
<1>2. UNCHANGED <<ready, prdt, channel, bus, interrupt, ataIsr, stHalted>> /\ drive' = "idle"
  BY DEF AtaTransferBuffer
<1>3. PICK span, r : /\ span = [i \in 1 .. channel.count |-> channel.lba + i - 1]
                     /\ r = request[t].ask /\ span = Asked(r)
  BY <1>1, SpanAsked DEF AtBuffer
<1>4. PICK wrote, read : wrote = Get(memory, Pieces(t)) /\ read = Get(sectors, Asked(r))
  OBVIOUS
<1>5. PICK disk, mem : /\ disk = IF r.write THEN Put(sectors, Asked(r), wrote) ELSE sectors
                       /\ mem = IF r.write THEN memory ELSE Put(memory, Pieces(t), read)
  OBVIOUS
<1>6. sectors' = disk /\ memory' = mem /\ Finish(t, disk, mem)
  BY <1>3, <1>4, <1>5 DEF AtaTransferBuffer
<1>7. /\ request' = [request EXCEPT ![t] = NoTransfer] /\ ataState' = "free"
      /\ finished' = IF r.write THEN [finished EXCEPT !.disk = Put(@, Asked(r), wrote)]
                     ELSE [finished EXCEPT !.got = Get(mem, Pieces(t)), !.want = Get(disk, Asked(r))]
  BY <1>3, <1>4, <1>6 DEF Finish
<1>8. request' = [u \in StThreads |-> request'[u]] /\ \A u \in StThreads : request'[u] = NoTransfer
  BY <1>7, <1>1, RequestEnds DEF StInv
<1>9. /\ Get(Put(memory, Pieces(t), read), Pieces(t)) = read
      /\ DOMAIN Put(memory, Pieces(t), read) = Buffered
      /\ DOMAIN Put(sectors, Asked(r), wrote) = OnDisk
  BY <1>1, <1>3, <1>4, DataMoved DEF StInv
<1>10. /\ finished = [disk |-> finished.disk, got |-> finished.got, want |-> finished.want]
       /\ finished.disk = sectors /\ finished.got = finished.want
       /\ DOMAIN sectors = OnDisk /\ DOMAIN memory = Buffered
  BY <1>1 DEF StInv, StShape, AtBuffer, AtRest
<1>11. /\ finished' = [disk |-> finished'.disk, got |-> finished'.got, want |-> finished'.want]
       /\ finished'.disk = sectors' /\ finished'.got = finished'.want
       /\ DOMAIN sectors' = OnDisk /\ DOMAIN memory' = Buffered
  <2>1. CASE r.write
    BY <2>1, <1>5, <1>6, <1>7, <1>9, <1>10
  <2>2. CASE ~r.write
    <3>1. sectors' = sectors /\ memory' = Put(memory, Pieces(t), read) /\ disk = sectors
      BY <2>2, <1>5, <1>6
    <3>2. finished' = [finished EXCEPT !.got = read, !.want = read]
      BY <2>2, <1>4, <1>5, <1>7, <1>9
    <3> QED
      BY <3>1, <3>2, <1>9, <1>10
  <2> QED
    BY <2>1, <2>2
<1>12. StShape'
  BY <1>2, <1>8, <1>11 DEF StInv, StShape
<1>13. StFree'
  BY <1>1, <1>2, <1>7, <1>8, <1>11 DEF AtBuffer, AtRest, StFree, Clearing
<1> QED
  BY <1>1, <1>2, <1>11, <1>12, <1>13 DEF StInv

LEMMA AtaTransferReadyStep ==
  ASSUME StInv, NEW t \in StThreads, AtaTransferReady(t)
  PROVE  StInv'
<1>1. Served(t) /\ Accepted(t) /\ AtWait(t) /\ ready /\ ~stHalted
  BY TheRequester DEF AtaTransferReady, Runs, Served, Stage, AtSelect, AtPrepare, AtCommand, AtBuffer
<1>2. Moved(t) /\ TransferSignalled /\ prdt # <<>>
  BY <1>1 DEF AtWait, Moving, MovedUntold, Tabled
<1>3. UNCHANGED <<sectors, memory, channel, drive, bus, interrupt, ataIsr>>
      /\ ready' = FALSE /\ prdt' = <<>> /\ ~stHalted' /\ Finish(t, sectors, memory)
  BY <1>2 DEF AtaTransferReady, TransferSignalled
<1>4. PICK r, wrote : r = request[t].ask /\ wrote = Get(memory, Pieces(t))
  OBVIOUS
<1>5. /\ request' = [request EXCEPT ![t] = NoTransfer] /\ ataState' = "free"
      /\ finished' = IF r.write THEN [finished EXCEPT !.disk = Put(@, Asked(r), wrote)]
                     ELSE [finished EXCEPT !.got = Get(memory, Pieces(t)), !.want = Get(sectors, Asked(r))]
  BY <1>3, <1>4 DEF Finish
<1>6. request' = [u \in StThreads |-> request'[u]] /\ \A u \in StThreads : request'[u] = NoTransfer
  BY <1>5, <1>1, RequestEnds DEF StInv
<1>7. /\ finished = [disk |-> finished.disk, got |-> finished.got, want |-> finished.want]
      /\ finished.got = finished.want /\ DOMAIN sectors = OnDisk
  BY DEF StInv, StShape
<1>8. /\ finished' = [disk |-> finished'.disk, got |-> finished'.got, want |-> finished'.want]
      /\ finished'.disk = sectors /\ finished'.got = finished'.want
  <2>1. CASE r.write
    <3>1. sectors = Put(finished.disk, Asked(r), wrote)
      BY <2>1, <1>2, <1>4 DEF Moved
    <3>2. finished' = [finished EXCEPT !.disk = sectors]
      BY <3>1, <2>1, <1>5
    <3> QED
      BY <3>2, <1>7
  <2>2. CASE ~r.write
    <3>1. sectors = finished.disk /\ Get(memory, Pieces(t)) = Get(sectors, Asked(r))
      BY <2>2, <1>2, <1>4 DEF Moved
    <3> QED
      BY <3>1, <2>2, <1>5, <1>7
  <2> QED
    BY <2>1, <2>2
<1>9. StShape'
  BY <1>3, <1>6, <1>7, <1>8 DEF StInv, StShape
<1>10. StFree'
  BY <1>1, <1>2, <1>3, <1>5, <1>6, <1>8 DEF TransferSignalled, AtRest, StFree, Clearing
<1> QED
  BY <1>3, <1>8, <1>9, <1>10 DEF StInv

\* While the engine is at it or its interrupt is not served a request waits.
LEMMA TheWaiter ==
  ASSUME StInv, ~stHalted, drive = "dma" \/ (bus.irq /\ ataIsr = "idle")
  PROVE  \E t \in StThreads : Served(t) /\ Accepted(t) /\ AtWait(t)
<1>1. ~StFree
  BY DEF StFree, AtRest, Clearing
<1>2. PICK t \in StThreads : Served(t)
  BY <1>1 DEF StInv
<1> QED
  BY <1>2 DEF Served, Stage, AtSelect, AtPrepare, AtCommand, AtBuffer, AtRest, Clearing

\* An operation of the device leaves the requests as they are.
LEMMA SameRequest ==
  ASSUME NEW t \in StThreads, Accepted(t), UNCHANGED request
  PROVE  Accepted(t)' /\ Pieces(t)' = Pieces(t)
BY DEF Accepted, Pieces

\* ... the engine, and the interrupt handler.
LEMMA DmaCompletesStep ==
  ASSUME StInv, DmaCompletes
  PROVE  StInv'
<1>1. PICK t \in StThreads : Served(t) /\ Accepted(t) /\ AtWait(t)
  BY TheWaiter DEF DmaCompletes
<1>2. Moving /\ Selected(t) /\ Tabled(t) /\ ~stHalted
  BY <1>1 DEF AtWait, DmaCompletes, MovedUntold, TransferSignalled
<1>3. UNCHANGED <<ataState, ready, prdt, channel, ataIsr, request, finished, stHalted>>
      /\ drive' = "idle" /\ bus' = [bus EXCEPT !.irq = TRUE] /\ interrupt' = ~channel.nien /\ interrupt' \in BOOLEAN
  BY DEF DmaCompletes
<1>4. PICK span, pieces, r : /\ span = [i \in 1 .. channel.count |-> channel.lba + i - 1]
                             /\ pieces = EnginePieces(prdt) /\ r = request[t].ask
                             /\ span = Asked(r) /\ pieces = Pieces(t)
  BY <1>1, <1>2, SpanAsked DEF Tabled
<1>5. PICK wrote, read : wrote = Get(memory, Pieces(t)) /\ read = Get(sectors, Asked(r))
  OBVIOUS
<1>6. bus.write = r.write
  BY <1>1, <1>4 DEF AtWait
<1>7. /\ sectors' = IF r.write THEN Put(sectors, Asked(r), wrote) ELSE sectors
      /\ memory' = IF r.write THEN memory ELSE Put(memory, Pieces(t), read)
  BY <1>4, <1>5, <1>6 DEF DmaCompletes
<1>8. /\ Get(Put(memory, Pieces(t), read), Pieces(t)) = read
      /\ DOMAIN Put(memory, Pieces(t), read) = Buffered
      /\ DOMAIN Put(sectors, Asked(r), wrote) = OnDisk
  BY <1>1, <1>4, <1>5, DataMoved DEF StInv
<1>9. Accepted(t)' /\ Pieces(t)' = Pieces(t)
  BY <1>1, <1>3, SameRequest
<1>10. Selected(t)' /\ Tabled(t)'
  BY <1>2, <1>3, <1>9 DEF Selected, Tabled
<1>11. Moved(t)'
  <2>1. request'[t].ask = r /\ finished' = finished /\ sectors = finished.disk
    BY <1>2, <1>3, <1>4 DEF Moving
  <2>2. CASE r.write
    <3>1. sectors' = Put(finished'.disk, Asked(r), Get(memory', Pieces(t)'))
      BY <2>1, <2>2, <1>5, <1>7, <1>9
    <3> QED
      BY <3>1, <2>1, <2>2 DEF Moved
  <2>3. CASE ~r.write
    <3>1. sectors' = finished'.disk
      BY <2>1, <2>3, <1>7
    <3>2. Get(memory', Pieces(t)') = Get(sectors', Asked(r))
      BY <2>3, <1>5, <1>7, <1>8, <1>9
    <3> QED
      BY <3>1, <3>2, <2>1, <2>3 DEF Moved
  <2> QED
    BY <2>2, <2>3
<1>12. bus \in [irq : BOOLEAN, started : BOOLEAN, write : BOOLEAN] /\ bus.started
  BY <1>2 DEF StInv, StShape, Moving
<1>13. bus' \in [irq : BOOLEAN, started : BOOLEAN, write : BOOLEAN]
       /\ bus'.irq /\ bus'.started /\ bus'.write = bus.write
  BY <1>3, <1>12
<1>14. ataIsr \in {"idle", "clear"}
  BY <1>2 DEF Moving, Clearing
<1>15. MovedUntold'
  BY <1>2, <1>3, <1>13, <1>14 DEF Moving, MovedUntold
<1>16. AtWait(t)'
  BY <1>1, <1>3, <1>10, <1>11, <1>13, <1>15 DEF AtWait
<1>17. StShape'
  <2>1. DOMAIN sectors' = OnDisk /\ DOMAIN memory' = Buffered
    BY <1>7, <1>8 DEF StInv, StShape
  <2> QED
    BY <2>1, <1>3, <1>13 DEF StInv, StShape
<1> QED
  BY <1>1, <1>2, <1>3, <1>9, <1>16, <1>17, StillServed DEF StInv, Stage

\* The handler leaves the stage of the request as it is.
LEMMA OtherStageStep ==
  ASSUME StInv, ~stHalted,
         UNCHANGED <<sectors, memory, ataState, ready, prdt, channel, drive, request, finished, stHalted>>,
         bus' \in [irq : BOOLEAN, started : BOOLEAN, write : BOOLEAN], bus'.write = bus.write, interrupt' \in BOOLEAN,
         AtRest => AtRest', Moving => Moving', TransferSignalled => TransferSignalled', MovedUntold => MovedUntold'
  PROVE  StInv'
<1>1. StShape'
  BY DEF StInv, StShape
<1>2. ASSUME StFree PROVE StFree'
  BY <1>2 DEF StFree
<1>3. ASSUME NEW t \in StThreads, Served(t) PROVE StInv'
  <2>1. Accepted(t) /\ Stage(t)
    BY <1>3 DEF Served
  <2>2. Accepted(t)' /\ Pieces(t)' = Pieces(t)
    BY <2>1, SameRequest
  <2>3. Selected(t)' = Selected(t) /\ Tabled(t)' = Tabled(t) /\ Moved(t)' = Moved(t)
    BY <2>2 DEF Selected, Tabled, Moved
  <2>4. Stage(t)'
    BY <2>1, <2>3 DEF Stage, AtSelect, AtPrepare, AtCommand, AtBuffer, AtWait
  <2> QED
    BY <1>1, <1>3, <2>2, <2>4, StillServed DEF StInv
<1> QED
  BY <1>1, <1>2, <1>3 DEF StInv

LEMMA AtaDmaInterruptStep ==
  ASSUME StInv, AtaDmaInterrupt
  PROVE  StInv'
<1>1. /\ UNCHANGED <<sectors, memory, prdt, channel, drive, request, finished>>
      /\ interrupt' = FALSE /\ ataIsr = "idle" /\ ~stHalted
  BY DEF AtaDmaInterrupt
<1>2. CASE bus.irq
  <2>1. PICK t \in StThreads : Served(t) /\ Accepted(t) /\ AtWait(t)
    BY <1>1, <1>2, TheWaiter
  <2>2. MovedUntold /\ Moved(t) /\ Selected(t) /\ Tabled(t)
    BY <1>1, <1>2, <2>1 DEF AtWait, Moving, TransferSignalled, Clearing
  <2>3. /\ bus' = [bus EXCEPT !.started = FALSE] /\ ~stHalted' /\ ataState' = "finished"
        /\ ready' = TRUE /\ ataIsr' = "clear"
    BY <1>2, <2>2 DEF AtaDmaInterrupt, MovedUntold
  <2>4. bus \in [irq : BOOLEAN, started : BOOLEAN, write : BOOLEAN]
    BY DEF StInv, StShape
  <2>5. bus' \in [irq : BOOLEAN, started : BOOLEAN, write : BOOLEAN]
        /\ bus'.irq = TRUE /\ ~bus'.started /\ bus'.write = bus.write
    BY <1>2, <2>3, <2>4
  <2>6. TransferSignalled'
    BY <1>1, <2>2, <2>3, <2>5 DEF MovedUntold, TransferSignalled, Clearing
  <2>7. Accepted(t)' /\ Pieces(t)' = Pieces(t)
    BY <1>1, <2>1, SameRequest
  <2>8. Selected(t)' /\ Tabled(t)' /\ Moved(t)'
    BY <1>1, <2>2, <2>7 DEF Selected, Tabled, Moved
  <2>9. AtWait(t)'
    BY <1>1, <2>1, <2>5, <2>6, <2>8 DEF AtWait
  <2>10. StShape'
    BY <1>1, <2>3, <2>5 DEF StInv, StShape
  <2> QED
    BY <1>1, <2>1, <2>3, <2>7, <2>9, <2>10, StillServed DEF StInv, Stage
<1>3. CASE ~bus.irq
  <2>1. UNCHANGED <<bus, stHalted, ataState, ready, ataIsr>>
    BY <1>3 DEF AtaDmaInterrupt
  <2>2. /\ AtRest => AtRest'
        /\ Moving => Moving'
        /\ TransferSignalled => TransferSignalled'
        /\ MovedUntold => MovedUntold'
    BY <1>1, <2>1 DEF AtRest, Moving, TransferSignalled, MovedUntold, Clearing
  <2> QED
    BY <1>1, <2>1, <2>2, OtherStageStep DEF StInv, StShape
<1> QED
  BY <1>2, <1>3

LEMMA AtaClearInterruptStep ==
  ASSUME StInv, AtaClearInterrupt
  PROVE  StInv'
<1>1. /\ UNCHANGED <<sectors, memory, ataState, ready, prdt, channel, drive, interrupt, request, finished, stHalted>>
      /\ bus' = [bus EXCEPT !.irq = FALSE] /\ ataIsr' = "idle" /\ ataIsr = "clear" /\ ~stHalted
  BY DEF AtaClearInterrupt
<1>2. bus \in [irq : BOOLEAN, started : BOOLEAN, write : BOOLEAN]
  BY DEF StInv, StShape
<1>3. bus' \in [irq : BOOLEAN, started : BOOLEAN, write : BOOLEAN]
      /\ bus'.irq = FALSE /\ bus'.started = bus.started /\ bus'.write = bus.write
  BY <1>1, <1>2
<1>4. /\ AtRest => AtRest'
      /\ Moving => Moving'
      /\ TransferSignalled => TransferSignalled'
      /\ MovedUntold => MovedUntold'
  BY <1>1, <1>3 DEF AtRest, Moving, TransferSignalled, MovedUntold, Clearing
<1>5. interrupt' \in BOOLEAN
  BY <1>1 DEF StInv, StShape
<1> QED
  BY <1>1, <1>3, <1>4, <1>5, OtherStageStep

LEMMA StNextInv == StInv /\ [StNext]_stVars => StInv'
<1> SUFFICES ASSUME StInv, [StNext]_stVars PROVE StInv'
  OBVIOUS
<1>1. ASSUME NEW t \in StThreads, NEW r \in StRequests, IoReadWriteDevice(t, r) PROVE StInv'
  BY <1>1, IoReadWriteDeviceStep
<1>2. ASSUME NEW t \in StThreads, AtaReadWriteSectors(t) PROVE StInv'
  BY <1>2, AtaWriteIOParametersStep, AtaPrepareDmaTransferStep, AtaWriteCommandStep,
     AtaTransferBufferStep, AtaTransferReadyStep DEF AtaReadWriteSectors
<1>3. ASSUME DmaCompletes \/ AtaDmaInterrupt \/ AtaClearInterrupt PROVE StInv'
  BY <1>3, DmaCompletesStep, AtaDmaInterruptStep, AtaClearInterruptStep
<1>4. ASSUME UNCHANGED stVars PROVE StInv'
  BY <1>4, StaysInv DEF stVars
<1> QED
  BY <1>1, <1>2, <1>3, <1>4 DEF StNext

LEMMA StInductive == StInit /\ [][StNext]_stVars => []StInv
BY StInitInv, StNextInv, PTL

\* Whatever threads ask for at once and on whatever processor the handler
\* runs, every request that ends, however it is split and its buffer
\* scattered, has moved exactly the sectors that it names between the disk
\* and its buffer (IoReadDeviceEx and IoWriteDeviceEx down to the engine).
THEOREM RequestsSafe == StInit /\ [][StNext]_stVars => []RequestsExact
<1>1. StInv => RequestsExact
  <2> SUFFICES ASSUME StInv PROVE RequestsExact
    OBVIOUS
  <2>1. finished.got = finished.want
    BY DEF StInv
  <2>2. ASSUME \A t \in StThreads : request[t] = NoTransfer, ~stHalted PROVE sectors = finished.disk
    BY <2>2, ServedIsThere DEF StInv, StFree, AtRest, Served
  <2> QED
    BY <2>1, <2>2 DEF RequestsExact
<1> QED
  BY <1>1, StInductive, PTL

\* Of the assertions on the transfer (AtaDispatchReadWrite,
\* AtaReadWriteSectors, _AtaDmaInterrupt) only that of AtaDispatchReadWrite
\* can fail, and only because a second thread asks while one is served.
THEOREM AssertionsSafe == StInit /\ [][StNext]_stVars => []OnlyOverlapFails
<1>1. StInv => OnlyOverlapFails
  BY DEF StInv, OnlyOverlapFails, TransferAssertsHold
<1> QED
  BY <1>1, StInductive, PTL

\* The engine does not complete a transfer while the handler has yet to clear
\* the interrupt bit of the one before.
HandlerKeepsUp == StSmp /\ DmaCompletes => ataIsr = "idle"

\* A thread that waits is told, and the handler clears no bit but its own.
TransferTold ==
  \A t \in StThreads :
    request[t].pc = "wait" => \/ ready \/ stHalted
                              \/ drive = "dma" /\ (StSmp \/ ataIsr = "idle")
                              \/ interrupt /\ bus.irq /\ ataIsr = "idle"

\* Only the served request's thread waits.
LEMMA OneWaits ==
  ASSUME StInv, ~stHalted, NEW t \in StThreads, request[t].pc = "wait"
  PROVE  /\ AtWait(t) /\ Served(t)
         /\ \A u \in StThreads : request[u].pc # "idle" => u = t
<1>1. Served(t)
  BY TheRequester
<1>2. \A u \in StThreads : request[u].pc # "idle" => u = t
  BY <1>1 DEF Served, NoTransfer
<1> QED
  BY <1>1, <1>2 DEF Served, Stage, AtSelect, AtPrepare, AtCommand, AtBuffer

\* A step of a thread: another one that waits is told as before.
LEMMA RequesterAnnounces ==
  ASSUME StInv, TransferTold, NEW u \in StThreads,
         (\E r \in StRequests : IoReadWriteDevice(u, r)) \/ AtaReadWriteSectors(u)
  PROVE  TransferTold'
<1> SUFFICES ASSUME NEW t \in StThreads, request'[t].pc = "wait", ~stHalted'
             PROVE  \/ ready'
                    \/ drive' = "dma" /\ (StSmp \/ ataIsr' = "idle")
                    \/ interrupt' /\ bus'.irq /\ ataIsr' = "idle"
  BY DEF TransferTold
<1>1. ~stHalted /\ request = [v \in StThreads |-> request[v]] /\ UNCHANGED <<interrupt, ataIsr>>
  <2>1. request = [v \in StThreads |-> request[v]]
    BY DEF StInv, StShape
  <2>2. ~stHalted /\ UNCHANGED <<interrupt, ataIsr>>
    BY DEF IoReadWriteDevice, AtaReadWriteSectors, AtaWriteIOParameters, AtaPrepareDmaTransfer,
       AtaWriteCommand, AtaTransferBuffer, AtaTransferReady, Runs
  <2> QED
    BY <2>1, <2>2
<1>2. CASE \E r \in StRequests : IoReadWriteDevice(u, r)
  <2>1. PICK r \in StRequests : IoReadWriteDevice(u, r)
    BY <1>2
  <2>2. UNCHANGED <<ready, drive, bus>>
        /\ \/ UNCHANGED request
           \/ \E x : x.pc = "select" /\ request' = [request EXCEPT ![u] = x]
    <3>1. CASE Route(r).ok
      <4> DEFINE new == [pc |-> "select", ask |-> r, at |-> r.at, sector |-> Route(r).sector, count |-> Route(r).count]
      <4>1. new.pc = "select" /\ request' = [request EXCEPT ![u] = new] /\ UNCHANGED <<ready, drive, bus>>
        BY <2>1, <3>1 DEF IoReadWriteDevice, AtaDispatchReadWrite
      <4> HIDE DEF new
      <4> QED
        BY <4>1
    <3> QED
      BY <2>1, <3>1 DEF IoReadWriteDevice
  <2>3. request'[t] = request[t]
    BY <1>1, <2>2
  <2> QED
    BY <1>1, <2>2, <2>3 DEF TransferTold
<1>3. CASE AtaWriteCommand(u)
  <2>1. request[u].pc = "command" /\ (StSmp \/ ataIsr = "idle")
    BY <1>3 DEF AtaWriteCommand, Runs
  <2>2. Served(u) /\ Accepted(u)
    BY <1>1, <2>1, TheRequester DEF Served
  <2>3. PICK async : /\ async = request[u].ask.async /\ StGoto(u, IF async THEN "wait" ELSE "buffer")
                     /\ drive' = IF async THEN "dma" ELSE "pio"
    BY <1>3 DEF AtaWriteCommand
  <2>4. request'[u].pc = (IF async THEN "wait" ELSE "buffer") /\ \A v \in StThreads \ {u} : request'[v] = request[v]
    BY <2>2, <2>3, GoesOn DEF StInv
  <2>5. t = u
    BY <2>2, <2>4 DEF Served, NoTransfer
  <2>6. drive' = "dma"
    BY <2>3, <2>4, <2>5
  <2> QED
    BY <1>1, <2>1, <2>6
<1>4. CASE AtaWriteIOParameters(u) \/ AtaPrepareDmaTransfer(u) \/ AtaTransferBuffer(u) \/ AtaTransferReady(u)
  <2>1. request[u].pc # "idle"
    BY <1>4 DEF AtaWriteIOParameters, AtaPrepareDmaTransfer, AtaTransferBuffer, AtaTransferReady, Runs
  <2>2. Served(u) /\ Accepted(u)
    BY <1>1, <2>1, TheRequester DEF Served
  <2>3. \/ request' = [request EXCEPT ![u] = NoTransfer]
        \/ StGoto(u, "prepare") \/ StGoto(u, "command")
    BY <1>4 DEF AtaWriteIOParameters, AtaPrepareDmaTransfer, AtaTransferBuffer, AtaTransferReady, Finish
  <2>4. request'[u].pc # "wait" /\ \A v \in StThreads \ {u} : request'[v] = request[v]
    <3>1. CASE request' = [request EXCEPT ![u] = NoTransfer]
      BY <1>1, <3>1 DEF NoTransfer
    <3>2. CASE StGoto(u, "prepare")
      <4>1. StShape /\ StGoto(u, "prepare") /\ Accepted(u)
        BY <2>2, <3>2 DEF StInv
      <4>2. request'[u].pc = "prepare" /\ \A v \in StThreads \ {u} : request'[v] = request[v]
        BY <4>1, GoesOn
      <4> QED
        BY <4>2
    <3>3. CASE StGoto(u, "command")
      <4>1. StShape /\ StGoto(u, "command") /\ Accepted(u)
        BY <2>2, <3>3 DEF StInv
      <4>2. request'[u].pc = "command" /\ \A v \in StThreads \ {u} : request'[v] = request[v]
        BY <4>1, GoesOn
      <4> QED
        BY <4>2
    <3> QED
      BY <2>3, <3>1, <3>2, <3>3
  <2> QED
    BY <2>2, <2>4 DEF Served, NoTransfer
<1> QED
  BY <1>2, <1>3, <1>4 DEF AtaReadWriteSectors

\* A step of the engine or the handler: the thread that waits is told.
LEMMA DeviceAnnounces ==
  ASSUME StInv, TransferTold, HandlerKeepsUp, DmaCompletes \/ AtaDmaInterrupt \/ AtaClearInterrupt
  PROVE  TransferTold'
<1> SUFFICES ASSUME NEW t \in StThreads, request'[t].pc = "wait", ~stHalted'
             PROVE  \/ ready'
                    \/ drive' = "dma" /\ (StSmp \/ ataIsr' = "idle")
                    \/ interrupt' /\ bus'.irq /\ ataIsr' = "idle"
  BY DEF TransferTold
<1>1. ~stHalted /\ request' = request
  BY DEF DmaCompletes, AtaDmaInterrupt, AtaClearInterrupt
<1>2. request[t].pc = "wait"
  BY <1>1
<1>3. AtWait(t) /\ Served(t)
  BY <1>1, <1>2, OneWaits
<1>4. /\ bus \in [irq : BOOLEAN, started : BOOLEAN, write : BOOLEAN]
      /\ \/ ready
         \/ drive = "dma" /\ (StSmp \/ ataIsr = "idle")
         \/ interrupt /\ bus.irq /\ ataIsr = "idle"
  BY <1>1, <1>2 DEF TransferTold, StInv, StShape
<1>5. CASE DmaCompletes
  <2>1. drive = "dma" /\ Moving
    BY <1>3, <1>5 DEF DmaCompletes, AtWait, MovedUntold, TransferSignalled
  <2>2. ataIsr' = ataIsr /\ ataIsr = "idle"
    BY <1>4, <1>5, <2>1 DEF DmaCompletes, HandlerKeepsUp, Moving, Clearing
  <2>3. request[t].ask.async /\ channel = [lba |-> request[t].sector, count |-> request[t].count,
                                          nien |-> ~request[t].ask.async]
    BY <1>3 DEF AtWait, Selected
  <2>4. interrupt' /\ bus'.irq
    BY <1>4, <1>5, <2>3 DEF DmaCompletes
  <2> QED
    BY <2>2, <2>4
<1>6. CASE AtaDmaInterrupt
  <2>1. CASE bus.irq
    BY <1>6, <2>1 DEF AtaDmaInterrupt
  <2>2. CASE ~bus.irq
    <3>1. UNCHANGED <<drive, ready, ataIsr>>
      BY <1>6, <2>2 DEF AtaDmaInterrupt
    <3> QED
      BY <1>4, <2>2, <3>1
  <2> QED
    BY <2>1, <2>2
<1>7. CASE AtaClearInterrupt
  BY <1>4, <1>7 DEF AtaClearInterrupt
<1> QED
  BY <1>5, <1>6, <1>7

\* A thread that waits for its transfer is told, however many ask: the notice
\* of a transfer is lost in one way only, when the engine moves data while
\* the handler has yet to clear the bit of the transfer before (_AtaDmaInterrupt
\* signals first).  With one processor (~StSmp) that cannot happen.
THEOREM TransferSafe ==
  StInit /\ [][StNext]_stVars /\ [][HandlerKeepsUp]_stVars => []TransferSound
<1>1. StInit => TransferTold
  BY DEF StInit, TransferTold, NoTransfer
<1>2. StInv /\ TransferTold /\ [HandlerKeepsUp]_stVars /\ [StNext]_stVars => TransferTold'
  <2> SUFFICES ASSUME StInv, TransferTold, [HandlerKeepsUp]_stVars, [StNext]_stVars PROVE TransferTold'
    OBVIOUS
  <2>1. CASE UNCHANGED stVars
    BY <2>1 DEF stVars, TransferTold
  <2> QED
    BY <2>1, RequesterAnnounces, DeviceAnnounces DEF StNext
<1>3. TransferTold => TransferIsAnnounced
  BY DEF TransferTold, TransferIsAnnounced
<1>4. TransferIsAnnounced /\ OnlyOverlapFails => TransferSound
  BY DEF TransferSound
<1> QED
  BY <1>1, <1>2, <1>3, <1>4, AssertionsSafe, StInductive, PTL

(***************************************************************************)
(* The configuration space of a function.                                  *)
(***************************************************************************)

\* One thread at a time uses the ports, or the window.
OneAccess == \A t, u \in PciThreads : t = u

Bytes == PciBytes \cup {0}

\* What a thread on its way through an access holds: the double words of the
\* register are there; a narrow write has read the one around it, which the
\* address port selects where that matters.
AccessSound(t) ==
  LET a == access[t]
      reg == AlignAddressLower(a.reg)
  IN  \/ a.pc = "idle"
      \/ /\ pciPhase = "run" /\ a.pc \in {"read", "address", "write"}
         /\ a.reg \in Nat /\ a.width \in {1, 2, 4, 8} /\ a.reg % a.width = 0
         /\ a.value \in Seq(PciBytes) /\ Len(a.value) = a.width
         /\ reg + (IF a.width = 8 THEN 8 ELSE 4) <= SpaceSize
         /\ a.pc = "read" => a.width < 4
         /\ a.pc # "address" /\ ~PciExpressSupport => configAddress = reg
         /\ a.pc # "read" /\ a.width < 4 => a.initial = DwordAt(reg)

ConfigurationInv ==
  /\ space \in [0 .. SpaceSize - 1 -> Bytes] /\ expected = space
  /\ PciExpressSupport \in BOOLEAN
  /\ DOMAIN access = PciThreads
  /\ \A t \in PciThreads : AccessSound(t)

\* The double word that holds a register.
LEMMA DwordOf ==
  ASSUME NEW reg \in Nat, NEW w \in {1, 2, 4, 8}, reg % w = 0
  PROVE  /\ AlignAddressLower(reg) \in Nat /\ AlignAddressLower(reg) % 4 = 0
         /\ AlignAddressLower(reg) <= reg /\ reg <= AlignAddressLower(reg) + 3
         /\ w # 8 => reg + w <= AlignAddressLower(reg) + 4
         /\ w >= 4 => AlignAddressLower(reg) = reg
<1>1. CASE w = 1
  BY <1>1 DEF AlignAddressLower
<1>2. CASE w = 2
  BY <1>2 DEF AlignAddressLower
<1>3. CASE w = 4
  BY <1>3 DEF AlignAddressLower
<1>4. CASE w = 8
  BY <1>4 DEF AlignAddressLower
<1> QED
  BY <1>1, <1>2, <1>3, <1>4

LEMMA ConfigurationInitially ==
  PciSystemPreinit => ConfigurationInv
<1> SUFFICES ASSUME PciSystemPreinit PROVE ConfigurationInv
  OBVIOUS
<1>1. space \in [0 .. SpaceSize - 1 -> Bytes]
  BY DEF PciSystemPreinit, Bytes
<1>2. \A t \in PciThreads : access[t].pc = "idle"
  BY DEF PciSystemPreinit, NoAccess
<1> QED
  BY <1>1, <1>2 DEF PciSystemPreinit, ConfigurationInv, AccessSound

\* While the space stays, an access that stays is as it was.
LEMMA SameAccess ==
  ASSUME NEW t \in PciThreads, AccessSound(t), access'[t] = access[t],
         access[t].pc # "idle" => UNCHANGED <<pciPhase, PciExpressSupport, configAddress, space>>
  PROVE  AccessSound(t)'
<1>1. CASE access[t].pc = "idle"
  BY <1>1 DEF AccessSound
<1>2. CASE access[t].pc # "idle"
  <2>1. UNCHANGED <<pciPhase, PciExpressSupport, configAddress, space>>
    BY <1>2
  <2>2. \A r : DwordAt(r)' = DwordAt(r)
    BY <2>1 DEF DwordAt
  <2> QED
    BY <2>1, <2>2, <1>2 DEF AccessSound
<1> QED
  BY <1>1, <1>2

LEMMA WriteGenericStep ==
  ASSUME OneAccess, ConfigurationInv, NEW t \in PciThreads, NEW reg \in 0 .. SpaceSize - 1,
         NEW v \in Seq(PciBytes), Len(v) \in {1, 2, 4, 8}, PciWriteGeneric(t, reg, v)
  PROVE  ConfigurationInv'
<1> DEFINE w == Len(v)
           b == [pc |-> IF w < 4 THEN "read" ELSE "address", reg |-> reg, width |-> w,
                 value |-> v, initial |-> <<>>]
<1>1. /\ pciPhase = "run" /\ access[t].pc = "idle" /\ reg % w = 0
      /\ AlignAddressLower(reg) + (IF w = 8 THEN 8 ELSE 4) <= SpaceSize
      /\ configAddress' = IF w < 4 /\ ~PciExpressSupport THEN AlignAddressLower(reg) ELSE configAddress
      /\ access' = [access EXCEPT ![t] = b]
      /\ UNCHANGED <<enumeration, acpi, space, expected>>
  BY DEF PciWriteGeneric
<1>2. UNCHANGED <<pciPhase, PciExpressSupport, space, expected>>
  BY <1>1 DEF enumeration
<1>3. access'[t] = b /\ DOMAIN access' = PciThreads
  BY <1>1 DEF ConfigurationInv
<1>4. AccessSound(t)'
  <2>1. reg \in Nat
    BY PciAssumption
  <2>2. access'[t].pc \in {"read", "address"} /\ access'[t].reg = reg /\ access'[t].width = w
        /\ access'[t].value = v /\ (access'[t].pc = "read" <=> w < 4)
    BY <1>3
  <2> QED
    BY <1>1, <1>2, <2>1, <2>2 DEF AccessSound
<1>5. \A u \in PciThreads : u = t
  BY DEF OneAccess
<1> QED
  BY <1>2, <1>3, <1>4, <1>5 DEF ConfigurationInv

LEMMA ReadInitialStep ==
  ASSUME OneAccess, ConfigurationInv, NEW t \in PciThreads, ReadInitial(t)
  PROVE  ConfigurationInv'
<1>1. /\ access[t].pc = "read"
      /\ access' = [access EXCEPT ![t].pc = "address", ![t].initial = DwordAt(SelectedBy(t))]
      /\ UNCHANGED <<pciPhase, PciExpressSupport, space, expected, configAddress>>
  BY DEF ReadInitial, enumeration
<1>2. /\ DOMAIN access' = PciThreads
      /\ access'[t] = [access[t] EXCEPT !.pc = "address", !.initial = DwordAt(SelectedBy(t))]
  BY <1>1 DEF ConfigurationInv
<1>3. AccessSound(t)
  BY DEF ConfigurationInv
<1>4. SelectedBy(t) = AlignAddressLower(access[t].reg)
  BY <1>1, <1>3 DEF AccessSound, SelectedBy
<1>5. \A r : DwordAt(r)' = DwordAt(r)
  BY <1>1 DEF DwordAt
<1>6. AccessSound(t)'
  BY <1>1, <1>2, <1>3, <1>4, <1>5 DEF AccessSound
<1>7. \A u \in PciThreads : u = t
  BY DEF OneAccess
<1> QED
  BY <1>1, <1>2, <1>6, <1>7 DEF ConfigurationInv

LEMMA WriteAddressStep ==
  ASSUME OneAccess, ConfigurationInv, NEW t \in PciThreads, WriteAddress(t)
  PROVE  ConfigurationInv'
<1>1. /\ access[t].pc = "address"
      /\ access' = [access EXCEPT ![t].pc = "write"]
      /\ configAddress' = IF PciExpressSupport THEN configAddress
                          ELSE AlignAddressLower(access[t].reg)
      /\ UNCHANGED <<pciPhase, PciExpressSupport, space, expected>>
  BY DEF WriteAddress, enumeration
<1>2. DOMAIN access' = PciThreads /\ access'[t] = [access[t] EXCEPT !.pc = "write"]
  BY <1>1 DEF ConfigurationInv
<1>3. AccessSound(t)
  BY DEF ConfigurationInv
<1>5. \A r : DwordAt(r)' = DwordAt(r)
  BY <1>1 DEF DwordAt
<1>6. AccessSound(t)'
  BY <1>1, <1>2, <1>3, <1>5 DEF AccessSound
<1>7. \A u \in PciThreads : u = t
  BY DEF OneAccess
<1> QED
  BY <1>1, <1>2, <1>6, <1>7 DEF ConfigurationInv

\* The double word that is written is the one around the register, with the
\* new bytes in their places.
LEMMA WrittenDword ==
  ASSUME ConfigurationInv, NEW t \in PciThreads, AccessSound(t), access[t].pc = "write"
  PROVE  LET a == access[t]
             n == IF a.width = 8 THEN 4 ELSE a.width
         IN  /\ Stored(space, SelectedBy(t), ValueToWrite(a)) = Stored(space, a.reg, SubSeq(a.value, 1, n))
             /\ Stored(space, a.reg, SubSeq(a.value, 1, n)) \in [0 .. SpaceSize - 1 -> Bytes]
<1> DEFINE a == access[t]
           w == a.width
           r == a.reg
           n == IF w = 8 THEN 4 ELSE w
           low == AlignAddressLower(r)
           new == SubSeq(a.value, 1, n)
           dword == ValueToWrite(a)
<1>1. /\ r \in Nat /\ w \in {1, 2, 4, 8} /\ r % w = 0
      /\ a.value \in Seq(PciBytes) /\ Len(a.value) = w
      /\ w < 4 => a.initial = DwordAt(low)
      /\ SelectedBy(t) = low
  BY DEF AccessSound, SelectedBy
<1>2. /\ low \in Nat /\ low <= r /\ r + n <= low + 4
      /\ w >= 4 => low = r /\ n = 4
      /\ n \in 1 .. 4 /\ n <= w /\ (w < 4 => n = w)
  <2> HIDE DEF r, w
  <2>1. /\ w = 1 \/ w = 2 \/ w = 4 \/ w = 8
        /\ low \in Nat /\ low <= r /\ (w # 8 => r + w <= low + 4) /\ (w >= 4 => low = r)
    BY <1>1, DwordOf
  <2>2. r \in Nat
    BY <1>1
  <2> HIDE DEF low
  <2> QED
    BY <2>1, <2>2
<1>r. r \in Nat
  BY <1>1
<1>3. new \in Seq(PciBytes) /\ Len(new) = n /\ \A i \in 1 .. n : new[i] = a.value[i]
  BY <1>1, <1>2, Excerpt
<1>4. Len(dword) = 4 /\ DOMAIN dword = 1 .. 4
      /\ \A i \in 1 .. 4 : dword[i] = IF i > r - low /\ i <= r - low + n THEN a.value[i - (r - low)]
                                      ELSE space[low + i - 1]
  <2>1. CASE w >= 4
    <3>1. dword = new /\ n = 4 /\ r - low = 0
      BY <2>1, <1>1, <1>2 DEF ValueToWrite
    <3>2. DOMAIN new = 1 .. 4
      BY <1>3, <3>1
    <3> HIDE DEF dword, new, n, low
    <3>3. \A i \in 1 .. 4 : dword[i] = a.value[i] /\ i > 0 /\ i <= 0 + n /\ i - 0 = i
      BY <3>1, <1>3
    <3> QED
      BY <3>1, <3>2, <3>3, <1>3
  <2>2. CASE w < 4
    <3>1. dword = [i \in 1 .. 4 |-> IF i > r - low /\ i <= r - low + n THEN a.value[i - (r - low)]
                                    ELSE a.initial[i]]
      <4>1. r - low + w = r - low + n /\ ~(w >= 4)
        BY <2>2, <1>1, <1>2
      <4> QED
        BY <4>1 DEF ValueToWrite
    <3>2. Len(dword) = 4 /\ DOMAIN dword = 1 .. 4
      <4> HIDE DEF dword
      <4>1. DOMAIN dword = 1 .. 4
        BY <3>1
      <4>2. \E f : dword = [i \in 1 .. 4 |-> f[i]]
        BY <3>1
      <4> QED
        BY <4>1, <4>2
    <3>3. \A i \in 1 .. 4 : a.initial[i] = space[low + i - 1]
      BY <2>2, <1>1 DEF DwordAt
    <3> HIDE DEF dword
    <3> QED
      BY <3>1, <3>2, <3>3
  <2> QED
    BY <1>1, <2>1, <2>2
<1> HIDE DEF new, dword, n, low
<1> DEFINE A == Stored(space, low, dword)
           B == Stored(space, r, new)
<1>5. DOMAIN space = 0 .. SpaceSize - 1 /\ \A k \in 0 .. SpaceSize - 1 : space[k] \in Bytes
  BY DEF ConfigurationInv
<1>6. A = [k \in 0 .. SpaceSize - 1 |-> A[k]] /\ B = [k \in 0 .. SpaceSize - 1 |-> B[k]]
  BY <1>5 DEF Stored
<1>7. ASSUME NEW k \in 0 .. SpaceSize - 1 PROVE A[k] = B[k] /\ B[k] \in Bytes
  <2>0. k \in Int
    BY PciAssumption
  <2>1. A[k] = IF k \in low .. low + 3 THEN dword[k - low + 1] ELSE space[k]
    <3>1. low + Len(dword) - 1 = low + 3
      BY <1>2, <1>4
    <3> QED
      BY <1>5, <3>1 DEF Stored
  <2>2. B[k] = IF k \in r .. r + n - 1 THEN new[k - r + 1] ELSE space[k]
    BY <1>3, <1>5 DEF Stored
  <2>3. CASE k \in r .. r + n - 1
    <3>1. k - low + 1 \in 1 .. 4 /\ k - low + 1 > r - low /\ k - low + 1 <= r - low + n
          /\ k - low + 1 - (r - low) = k - r + 1 /\ k - r + 1 \in 1 .. n
          /\ k \in low .. low + 3
      <4> HIDE DEF r
      <4> QED
        BY <2>3, <2>0, <1>r, <1>2
    <3>2. new[k - r + 1] \in Bytes
      BY <1>3, <3>1 DEF Bytes
    <3>3. dword[k - low + 1] = a.value[k - r + 1]
      <4> DEFINE i == k - low + 1
                 j == i - (r - low)
      <4>1. i \in 1 .. 4 /\ i > r - low /\ i <= r - low + n /\ j = k - r + 1
        <5> HIDE DEF r
        <5> QED
          BY <3>1, <2>0, <1>r, <1>2
      <4>2. dword[i] = a.value[j]
        <5> HIDE DEF a, r, i
        <5> QED
          BY <4>1, <1>4
      <4> QED
        BY <4>1, <4>2
    <3> HIDE DEF A, B, a
    <3> QED
      BY <2>1, <2>2, <2>3, <1>3, <3>1, <3>2, <3>3
  <2>4. CASE k \in low .. low + 3 /\ k \notin r .. r + n - 1
    <3>1. k - low + 1 \in 1 .. 4 /\ ~(k - low + 1 > r - low /\ k - low + 1 <= r - low + n)
          /\ low + (k - low + 1) - 1 = k
      <4> HIDE DEF r
      <4> QED
        BY <2>4, <2>0, <1>r, <1>2
    <3> HIDE DEF A, B, a
    <3> QED
      BY <2>1, <2>2, <2>4, <1>4, <1>5, <3>1
  <2>5. CASE k \notin low .. low + 3
    <3>1. k \notin r .. r + n - 1
      BY <2>5, <2>0, <1>r, <1>2
    <3> HIDE DEF A, B
    <3> QED
      BY <2>1, <2>2, <2>5, <1>5, <3>1
  <2> QED
    BY <2>3, <2>4, <2>5
<1>8. A = B /\ B \in [0 .. SpaceSize - 1 -> Bytes]
  <2> HIDE DEF A, B
  <2> QED
    BY <1>6, <1>7
<1> QED
  BY <1>1, <1>8 DEF new, n, low, dword, r, w

LEMMA WriteDwordStep ==
  ASSUME OneAccess, ConfigurationInv, NEW t \in PciThreads, WriteDword(t)
  PROVE  ConfigurationInv'
<1> DEFINE a == access[t]
           r == a.reg
           w == a.width
           n == IF w = 8 THEN 4 ELSE w
           b == [a EXCEPT !.pc = "address", !.reg = @ + 4, !.width = 4, !.value = SubSeq(@, 5, 8)]
<1>1. /\ a.pc = "write"
      /\ space' = Stored(space, SelectedBy(t), ValueToWrite(a))
      /\ IF w = 8 THEN access' = [access EXCEPT ![t] = b] /\ expected' = Stored(expected, r, SubSeq(a.value, 1, 4))
         ELSE access' = [access EXCEPT ![t] = NoAccess] /\ expected' = Stored(expected, r, a.value)
      /\ UNCHANGED <<pciPhase, PciExpressSupport, configAddress>>
  BY DEF WriteDword, enumeration
<1>2. AccessSound(t) /\ expected = space /\ DOMAIN access = PciThreads
  BY DEF ConfigurationInv
<1>3. /\ pciPhase = "run" /\ r \in Nat /\ w \in {1, 2, 4, 8} /\ r % w = 0
      /\ a.value \in Seq(PciBytes) /\ Len(a.value) = w
      /\ AlignAddressLower(r) + (IF w = 8 THEN 8 ELSE 4) <= SpaceSize
  BY <1>1, <1>2 DEF AccessSound
<1>4. w # 8 => SubSeq(a.value, 1, n) = a.value
  <2> SUFFICES ASSUME w # 8 PROVE SubSeq(a.value, 1, n) = a.value
    OBVIOUS
  <2>1. PICK v \in Seq(PciBytes) : v = a.value /\ Len(v) = n /\ n \in 1 .. 4
    BY <1>3
  <2> HIDE DEF n, a
  <2>2. SubSeq(v, 1, n) = v
    BY <2>1
  <2> QED
    BY <2>1, <2>2
<1>5. space' = Stored(space, r, SubSeq(a.value, 1, n)) /\ space' \in [0 .. SpaceSize - 1 -> Bytes]
  BY <1>1, <1>2, WrittenDword
<1>6. expected' = space'
  BY <1>1, <1>2, <1>4, <1>5
<1>7. AccessSound(t)'
  <2>1. CASE w = 8
    <3>1. access'[t] = b
      BY <2>1, <1>1, <1>2
    <3>2. AlignAddressLower(r) = r /\ r + 8 <= SpaceSize
      <4> HIDE DEF r, w
      <4>0. r \in Nat /\ r % 8 = 0 /\ 8 >= 4
        BY <2>1, <1>3
      <4>1. AlignAddressLower(r) = r
        BY <4>0, DwordOf
      <4> QED
        BY <4>1, <2>1, <1>3
    <3>3. r + 4 \in Nat /\ (r + 4) % 4 = 0
      BY <2>1, <1>3
    <3>4. AlignAddressLower(r + 4) = r + 4
      <4> HIDE DEF r
      <4> QED
        BY <3>3, DwordOf
    <3>5. SubSeq(a.value, 5, 8) \in Seq(PciBytes) /\ Len(SubSeq(a.value, 5, 8)) = 4
      BY <2>1, <1>3, Excerpt
    <3>6. access'[t].pc = "address" /\ access'[t].reg = r + 4 /\ access'[t].width = 4
          /\ access'[t].value = SubSeq(a.value, 5, 8)
      BY <3>1
    <3>7. r + 4 + 4 <= SpaceSize
      BY <3>2, <1>3, PciAssumption
    <3> HIDE DEF a, r, w
    <3> QED
      BY <1>1, <1>3, <3>3, <3>4, <3>5, <3>6, <3>7 DEF AccessSound
  <2>2. CASE w # 8
    <3>1. access'[t] = NoAccess
      BY <2>2, <1>1, <1>2
    <3> QED
      BY <3>1 DEF NoAccess, AccessSound
  <2> QED
    BY <2>1, <2>2
<1>8. \A u \in PciThreads : u = t
  BY DEF OneAccess
<1>9. DOMAIN access' = PciThreads
  BY <1>1, <1>2
<1> QED
  BY <1>1, <1>5, <1>6, <1>7, <1>8, <1>9 DEF ConfigurationInv

\* Steps of the enumeration.
LEMMA EnumerationKeepsConfiguration ==
  ASSUME ConfigurationInv, PciExpressSupport' \in BOOLEAN, UNCHANGED configuration,
         (pciPhase' = pciPhase /\ PciExpressSupport' = PciExpressSupport) \/ pciPhase # "run"
  PROVE  ConfigurationInv'
<1>1. UNCHANGED <<space, expected, configAddress, access>>
  BY DEF configuration
<1>2. ASSUME NEW t \in PciThreads PROVE AccessSound(t)'
  <2>1. AccessSound(t) /\ (pciPhase # "run" => access[t].pc = "idle")
    BY DEF ConfigurationInv, AccessSound
  <2> QED
    BY <1>1, <2>1, SameAccess
<1> QED
  BY <1>1, <1>2 DEF ConfigurationInv

LEMMA ConfigurationNext ==
  ASSUME OneAccess
  PROVE  ConfigurationInv /\ [PciNext]_pciVars => ConfigurationInv'
<1> SUFFICES ASSUME ConfigurationInv, [PciNext]_pciVars PROVE ConfigurationInv'
  OBVIOUS
<1>0. PciExpressSupport \in BOOLEAN
  BY DEF ConfigurationInv
<1>1. ASSUME NEW mcfg \in McfgTables, PciSystemInit(mcfg) PROVE ConfigurationInv'
  BY <1>0, <1>1, EnumerationKeepsConfiguration DEF PciSystemInit
<1>2. ASSUME RetrieveNextDevice \/ NoMoreDevices \/ EstablishHierarchy \/ HierarchyDone
             \/ AcpiInterfaceParsePrts \/ AcpiInterfaceLateInitFails
      PROVE  ConfigurationInv'
  <2>1. UNCHANGED <<PciExpressSupport, configuration>> /\ pciPhase # "run"
    BY <1>2 DEF RetrieveNextDevice, NoMoreDevices, EstablishHierarchy, HierarchyDone, AcpiInterfaceParsePrts,
                AcpiInterfaceLateInitFails
  <2> QED
    BY <1>0, <2>1, EnumerationKeepsConfiguration
<1>3. ASSUME NEW t \in PciThreads, NEW reg \in 0 .. SpaceSize - 1, NEW v \in Values, PciWriteGeneric(t, reg, v)
      PROVE  ConfigurationInv'
  <2>1. v \in Seq(PciBytes) /\ Len(v) \in {1, 2, 4, 8}
    <3>1. CASE \E w \in {1, 2} : v \in [1 .. w -> PciBytes]
      BY <3>1
    <3>2. CASE \E w \in {4, 8} : \E b \in PciBytes : v = [i \in 1 .. w |-> b]
      <4>1. PICK w \in {4, 8}, b \in PciBytes : v = [i \in 1 .. w |-> b]
        BY <3>2
      <4>2. v \in [1 .. w -> PciBytes] /\ w \in Nat
        BY <4>1
      <4> QED
        BY <4>2
    <3> QED
      BY <3>1, <3>2 DEF Values
  <2> QED
    BY <1>3, <2>1, WriteGenericStep
<1>4. ASSUME NEW t \in PciThreads, ReadInitial(t) \/ WriteAddress(t) \/ WriteDword(t) PROVE ConfigurationInv'
  BY <1>4, ReadInitialStep, WriteAddressStep, WriteDwordStep
<1>5. ASSUME UNCHANGED pciVars PROVE ConfigurationInv'
  BY <1>0, <1>5, EnumerationKeepsConfiguration DEF pciVars, enumeration
<1> QED
  BY <1>1, <1>2, <1>3, <1>4, <1>5 DEF PciNext

\* A read of any width returns the bytes it names.
LEMMA ReadsExact ==
  ASSUME ConfigurationInv, NEW w \in {1, 2, 4, 8}, NEW r \in 0 .. SpaceSize - 1
  PROVE  r % w = 0 /\ r + w <= SpaceSize => PciReadGeneric(r, w) = [i \in 1 .. w |-> space[r + i - 1]]
<1>a. SUFFICES ASSUME r % w = 0, r + w <= SpaceSize
               PROVE  PciReadGeneric(r, w) = [i \in 1 .. w |-> space[r + i - 1]]
  OBVIOUS
<1> DEFINE low == AlignAddressLower(r)
           d == DwordAt(low)
<1>0. SpaceSize \in Nat /\ SpaceSize % 4 = 0
  BY PciAssumption
<1>1. r \in Nat /\ r < SpaceSize
  BY <1>0
<1>2. low \in Nat /\ low % 4 = 0 /\ low <= r /\ (w # 8 => r + w <= low + 4) /\ (w >= 4 => low = r)
  BY <1>a, <1>1, DwordOf
<1>3. low + 4 <= SpaceSize
  <2> HIDE DEF low
  <2> QED
    BY <1>0, <1>1, <1>2
<1>4. ASSUME NEW k \in Nat, k + 4 <= SpaceSize
      PROVE  DwordAt(k) \in Seq(Bytes) /\ Len(DwordAt(k)) = 4 /\ \A i \in 1 .. 4 : DwordAt(k)[i] = space[k + i - 1]
  <2>1. ASSUME NEW i \in 1 .. 4 PROVE space[k + i - 1] \in Bytes
    <3>1. k + i - 1 \in 0 .. SpaceSize - 1
      BY <1>0, <1>4
    <3> QED
      BY <3>1 DEF ConfigurationInv
  <2>2. DwordAt(k) \in [1 .. 4 -> Bytes]
    BY <2>1 DEF DwordAt
  <2> QED
    BY <2>2 DEF DwordAt
<1>5. CASE w = 8
  <2>1. /\ low = r /\ r + 4 \in Nat /\ r + 4 + 4 <= SpaceSize
        /\ PciReadGeneric(r, w) = d \o DwordAt(r + 4)
    BY <1>a, <1>1, <1>2, <1>5 DEF PciReadGeneric
  <2> DEFINE u == DwordAt(r + 4)
             p == d \o u
  <2>2. /\ d \in Seq(Bytes) /\ Len(d) = 4 /\ \A i \in 1 .. 4 : d[i] = space[r + i - 1]
        /\ u \in Seq(Bytes) /\ Len(u) = 4 /\ \A i \in 1 .. 4 : u[i] = space[r + 4 + i - 1]
    <3>1. r \in Nat /\ r + 4 <= SpaceSize
      BY <1>a, <1>5, <1>1, <2>1, <1>0
    <3> HIDE DEF low
    <3> QED
      BY <3>1, <2>1, <1>4
  <2> HIDE DEF d, u, low
  <2>3. p \in Seq(Bytes) /\ Len(p) = 8 /\ \A i \in 1 .. 8 : p[i] = IF i <= 4 THEN d[i] ELSE u[i - 4]
    <3>1. /\ p \in Seq(Bytes) /\ Len(p) = Len(d) + Len(u)
          /\ \A i \in 1 .. Len(d) + Len(u) : p[i] = IF i <= Len(d) THEN d[i] ELSE u[i - Len(d)]
      BY <2>2, ConcatProperties
    <3> HIDE DEF p
    <3> QED
      BY <2>2, <3>1
  <2> HIDE DEF p
  <2>4. ASSUME NEW i \in 1 .. 8 PROVE p[i] = space[r + i - 1]
    <3>1. CASE i <= 4
      <4>1. i \in 1 .. 4
        BY <3>1
      <4> QED
        BY <4>1, <2>2, <2>3
    <3>2. CASE i > 4
      <4>1. i - 4 \in 1 .. 4 /\ r + 4 + (i - 4) - 1 = r + i - 1
        BY <3>2, <1>1
      <4> QED
        BY <4>1, <3>2, <2>2, <2>3
    <3> QED
      BY <3>1, <3>2
  <2>5. p = [i \in 1 .. 8 |-> space[r + i - 1]]
    BY <2>3, <2>4
  <2> QED
    BY <1>5, <2>1, <2>5 DEF p, u
<1>6. CASE w # 8
  <2> DEFINE m == r - low + 1
             n == r - low + w
             p == SubSeq(d, m, n)
  <2>1. PciReadGeneric(r, w) = p
    BY <1>6 DEF PciReadGeneric
  <2>2. d \in Seq(Bytes) /\ Len(d) = 4 /\ \A i \in 1 .. 4 : d[i] = space[low + i - 1]
    <3> HIDE DEF low
    <3> QED
      BY <1>2, <1>3, <1>4
  <2> HIDE DEF d, low
  <2>3. m \in Nat /\ n \in Nat /\ 1 <= m /\ m <= n + 1 /\ n <= 4 /\ n - m + 1 = w
    BY <1>1, <1>2, <1>6
  <2>4. p \in Seq(Bytes) /\ Len(p) = w /\ \A i \in 1 .. w : p[i] = d[m + i - 1]
    <3> HIDE DEF m, n
    <3> QED
      BY <2>2, <2>3, Excerpt
  <2>5. ASSUME NEW i \in 1 .. w PROVE p[i] = space[r + i - 1]
    <3>1. m + i - 1 \in 1 .. 4 /\ low + (m + i - 1) - 1 = r + i - 1
      BY <1>1, <1>2, <1>6
    <3> HIDE DEF p, m
    <3> QED
      BY <3>1, <2>2, <2>4
  <2> HIDE DEF p
  <2>6. p = [i \in 1 .. w |-> space[r + i - 1]]
    BY <2>4, <2>5
  <2> QED
    BY <2>1, <2>6
<1> QED
  BY <1>5, <1>6

\* Where one thread at a time configures a function, a write of any width
\* (PciSystemWriteConfigurationSpaceGeneric) changes its own bytes and no
\* others, and a read of any width returns exactly the bytes it names.
THEOREM ConfigurationSafe ==
  ASSUME OneAccess
  PROVE  PciSystemPreinit /\ [][PciNext]_pciVars => []ConfigurationExact
<1>1. ConfigurationInv => ConfigurationExact
  BY ReadsExact DEF ConfigurationExact, ConfigurationInv
<1> QED
  BY <1>1, ConfigurationInitially, ConfigurationNext, PTL

(***************************************************************************)
(* The enumeration of the buses.                                           *)
(***************************************************************************)

\* One root complex covers the buses of the machine.
OneSegment == \A mcfg \in McfgTables : mcfg = <<>> \/ (Len(mcfg) = 1 /\ mcfg[1].last >= NoOfBuses - 1)

\* The bridge to a bus comes before what is behind it.
BridgesFirst ==
  \A f \in DOMAIN Functions : f.bus # 0 =>
    \E b \in DOMAIN Functions : /\ Functions[b].bridge /\ Functions[b].secondary = f.bus
                                /\ LocationNr(b) < LocationNr(f)

\* An object with a routing table has a bus number of its own, or the object
\* right above it has one, or none is above it.
NoBridgeBehindABridge ==
  \A namespace \in AcpiNamespaces : \A i \in DOMAIN namespace :
    namespace[i].prt = "none" \/ namespace[i].bbn >= 0 \/ namespace[i].parent = 0
      \/ namespace[namespace[i].parent].bbn >= 0

Enumerated == {"hierarchy", "late", "run", "failed"}

\* What was found is in the order of the search and before the cursor.
CursorSound ==
  /\ PciDeviceList \in Seq(DOMAIN Functions) /\ currentDeviceLocation \in Nat
  /\ \A i \in DOMAIN PciDeviceList : LocationNr(PciDeviceList[i]) < currentDeviceLocation
  /\ \A i, j \in DOMAIN PciDeviceList :
       i < j => LocationNr(PciDeviceList[i]) < LocationNr(PciDeviceList[j])

\* Nothing before the cursor was missed.
SearchSound ==
  /\ pciPhase \in {"init", "retrieve"} \cup Enumerated
  /\ pciPhase = "init" => PciDeviceList = <<>>
  /\ pciPhase = "retrieve" =>
       /\ currentComplex = 1
       /\ PciExpressSupport => /\ Len(PciRootComplexList) = 1
                               /\ PciRootComplexList[1] \in [first : {0}, last : Nat]
                               /\ PciRootComplexList[1].last >= NoOfBuses - 1
       /\ \A f \in DOMAIN Functions : LocationNr(f) < currentDeviceLocation => f \in Range(PciDeviceList)
  /\ pciPhase \in Enumerated => DOMAIN Functions \subseteq Range(PciDeviceList)

\* The devices so far have their parents, and the bridges among them are known.
HierarchySound ==
  /\ PciBridgeList \in Seq(DOMAIN Functions)
  /\ parents \in Seq([bus : Int, slot : Int]) /\ Len(parents) <= Len(PciDeviceList)
  /\ pciPhase \in {"init", "retrieve"} => parents = <<>>
  /\ \A i \in DOMAIN parents :
       LET d == PciDeviceList[i] IN
       /\ Functions[d].bridge => d \in Range(PciBridgeList)
       /\ d.bus # 0 => Functions[parents[i]].secondary = d.bus

RoutesSound ==
  /\ AcpiObjects \in AcpiNamespaces
  /\ RoutesExact

EnumerationInv == CursorSound /\ SearchSound /\ HierarchySound /\ RoutesSound

\* The number of a location, and its location.
LEMMA LocationsOf ==
  ASSUME NEW f \in DOMAIN Functions
  PROVE  /\ f.bus \in Nat /\ f.slot \in Nat /\ f \in [bus : Int, slot : Int]
         /\ LocationNr(f) \in Nat /\ At(LocationNr(f)) = f
         /\ \A last \in Nat : last >= NoOfBuses - 1 => LocationNr(f) < (last + 1) * NoOfSlots
<1>1. /\ f \in [bus : 0 .. NoOfBuses - 1, slot : 0 .. NoOfSlots - 1]
      /\ NoOfBuses \in Nat \ {0} /\ NoOfSlots \in Nat \ {0}
  BY PciAssumption
<1> DEFINE q == f.bus
           r == f.slot
           x == LocationNr(f)
<1>2. q \in Nat /\ q <= NoOfBuses - 1 /\ r \in Nat /\ r < NoOfSlots /\ f = [bus |-> q, slot |-> r]
  BY <1>1
<1>3. q * NoOfSlots \in Nat
  BY <1>1, <1>2
<1>4. x \in Nat /\ x = (q * NoOfSlots) + r
  BY <1>1, <1>2, <1>3 DEF LocationNr
<1> HIDE DEF x, q, r
<1>5. x \div NoOfSlots = q
  BY <1>1, <1>2, <1>3, <1>4, QuotientOf
<1>6. x % NoOfSlots = r
  <2>1. x = ((x \div NoOfSlots) * NoOfSlots) + (x % NoOfSlots) /\ x % NoOfSlots \in Nat
    BY <1>1, <1>4, QuotientIs
  <2> QED
    BY <2>1, <1>2, <1>3, <1>4, <1>5
<1>7. At(x) = f
  BY <1>2, <1>5, <1>6 DEF At
<1>8. ASSUME NEW last \in Nat, last >= NoOfBuses - 1 PROVE x < (last + 1) * NoOfSlots
  <2>1. q <= last
    BY <1>1, <1>2, <1>8
  <2>2. q * NoOfSlots <= last * NoOfSlots /\ last * NoOfSlots \in Nat
    BY <1>1, <1>2, <2>1
  <2>3. (last + 1) * NoOfSlots = (last * NoOfSlots) + NoOfSlots
    BY <1>1
  <2> QED
    BY <1>1, <1>2, <1>3, <1>4, <2>2, <2>3
<1> QED
  BY <1>2, <1>4, <1>7, <1>8 DEF x, q, r

LEMMA NumberOf ==
  ASSUME NEW n \in Nat
  PROVE  LocationNr(At(n)) = n
BY PciAssumption, QuotientIs DEF LocationNr, At

\* The search ends behind the last function.
LEMMA SearchCovers ==
  ASSUME SearchSound, pciPhase = "retrieve", NEW f \in DOMAIN Functions
  PROVE  LocationNr(f) < EndOfSearch /\ EndOfSearch \in Nat
<1>1. NoOfBuses \in Nat \ {0} /\ NoOfSlots \in Nat \ {0}
  BY PciAssumption
<1> DEFINE last == IF PciExpressSupport THEN PciRootComplexList[currentComplex].last ELSE NoOfBuses - 1
<1>2. last \in Nat /\ last >= NoOfBuses - 1
  BY <1>1 DEF SearchSound
<1>3. EndOfSearch = (last + 1) * NoOfSlots
  BY <1>1 DEF EndOfSearch
<1> HIDE DEF last
<1>4. (last + 1) * NoOfSlots \in Nat
  BY <1>1, <1>2
<1> QED
  BY <1>2, <1>3, <1>4, LocationsOf

LEMMA EnumerationInitially == PciSystemPreinit => EnumerationInv
BY EmptyRange DEF PciSystemPreinit, EnumerationInv, CursorSound, SearchSound, HierarchySound, RoutesSound, RoutesExact, acpi, Enumerated

LEMMA SystemInitStep ==
  ASSUME OneSegment, EnumerationInv, NEW mcfg \in McfgTables, PciSystemInit(mcfg)
  PROVE  EnumerationInv'
<1>1. /\ pciPhase = "init" /\ pciPhase' = "retrieve" /\ currentComplex' = 1
      /\ PciRootComplexList' = mcfg /\ PciExpressSupport' = (mcfg # <<>>)
      /\ currentDeviceLocation' = IF mcfg = <<>> THEN 0 ELSE mcfg[1].first * NoOfSlots
      /\ UNCHANGED <<PciDeviceList, PciBridgeList, parents, acpi>>
  BY DEF PciSystemInit
<1>2. mcfg \in Seq([first : {0}, last : Nat]) /\ NoOfSlots \in Nat
  BY PciAssumption
<1>3. mcfg # <<>> => Len(mcfg) = 1 /\ mcfg[1] \in [first : {0}, last : Nat] /\ mcfg[1].last >= NoOfBuses - 1
  <2>1. mcfg = <<>> \/ (Len(mcfg) = 1 /\ mcfg[1].last >= NoOfBuses - 1)
    BY DEF OneSegment
  <2>2. Len(mcfg) = 1 => mcfg[1] \in [first : {0}, last : Nat]
    <3>1. ASSUME NEW R, NEW s \in Seq(R), Len(s) = 1 PROVE s[1] \in R
      BY <3>1
    <3> QED
      BY <1>2, <3>1
  <2> QED
    BY <2>1, <2>2
<1>4. currentDeviceLocation' = 0
  BY <1>1, <1>2, <1>3
<1>5. PciDeviceList = <<>>
  BY <1>1 DEF EnumerationInv, SearchSound
<1>6. CursorSound'
  BY <1>1, <1>4, <1>5 DEF CursorSound
<1>7. SearchSound'
  <2>1. \A f \in DOMAIN Functions : ~(LocationNr(f) < 0)
    BY LocationsOf
  <2> QED
    BY <1>1, <1>3, <1>4, <2>1 DEF SearchSound, Enumerated
<1>8. HierarchySound' /\ RoutesSound'
  BY <1>1 DEF EnumerationInv, HierarchySound, RoutesSound, RoutesExact, acpi
<1> QED
  BY <1>6, <1>7, <1>8 DEF EnumerationInv

LEMMA RetrieveStep ==
  ASSUME EnumerationInv, RetrieveNextDevice
  PROVE  EnumerationInv'
<1> DEFINE found == SearchRange(currentDeviceLocation)
           n == Min(found)
           d == At(n)
<1>1. /\ pciPhase = "retrieve" /\ found # {}
      /\ PciDeviceList' = Append(PciDeviceList, d) /\ currentDeviceLocation' = n + 1
      /\ UNCHANGED <<pciPhase, PciRootComplexList, PciExpressSupport, currentComplex,
                     PciBridgeList, parents, acpi>>
  BY DEF RetrieveNextDevice
<1>2. CursorSound /\ SearchSound /\ HierarchySound /\ RoutesSound
  BY DEF EnumerationInv
<1>3. found \in SUBSET Nat /\ \A m \in found : m >= currentDeviceLocation /\ At(m) \in DOMAIN Functions
  <2>1. currentDeviceLocation \in Nat /\ EndOfSearch \in Int
    <3>1. PICK m \in found : TRUE
      BY <1>1
    <3>2. At(m) \in DOMAIN Functions
      BY DEF SearchRange, PresentFrom
    <3> QED
      BY <1>1, <1>2, <3>2, SearchCovers DEF CursorSound
  <2> QED
    BY <2>1 DEF SearchRange, PresentFrom
<1>4. n \in Nat /\ n \in found /\ n >= currentDeviceLocation /\ d \in DOMAIN Functions
      /\ \A m \in found : n <= m
  BY <1>1, <1>3, MinIsLeast
<1>5. LocationNr(d) = n
  BY <1>4, NumberOf
<1> HIDE DEF n, d
<1>6. /\ PciDeviceList \in Seq(DOMAIN Functions) /\ currentDeviceLocation \in Nat
      /\ PciDeviceList' \in Seq(DOMAIN Functions) /\ Len(PciDeviceList') = Len(PciDeviceList) + 1
      /\ PciDeviceList'[Len(PciDeviceList) + 1] = d
      /\ \A i \in 1 .. Len(PciDeviceList) : PciDeviceList'[i] = PciDeviceList[i]
      /\ Range(PciDeviceList') = Range(PciDeviceList) \cup {d}
  BY <1>1, <1>2, <1>4, RangeAppend DEF CursorSound
<1>7. CursorSound'
  <2>1. ASSUME NEW i \in DOMAIN PciDeviceList' PROVE LocationNr(PciDeviceList'[i]) < n + 1
    <3>1. CASE i \in DOMAIN PciDeviceList
      <4>1. PciDeviceList'[i] = PciDeviceList[i] /\ PciDeviceList[i] \in DOMAIN Functions
        BY <3>1, <1>6
      <4>2. LocationNr(PciDeviceList[i]) < currentDeviceLocation /\ LocationNr(PciDeviceList[i]) \in Nat
        BY <3>1, <4>1, <1>2, LocationsOf DEF CursorSound
      <4> QED
        BY <4>1, <4>2, <1>4, <1>6
    <3>2. CASE i \notin DOMAIN PciDeviceList
      BY <3>2, <1>4, <1>5, <1>6
    <3> QED
      BY <3>1, <3>2
  <2>2. ASSUME NEW i \in DOMAIN PciDeviceList', NEW j \in DOMAIN PciDeviceList', i < j
        PROVE  LocationNr(PciDeviceList'[i]) < LocationNr(PciDeviceList'[j])
    <3>1. i \in DOMAIN PciDeviceList /\ PciDeviceList'[i] = PciDeviceList[i]
      BY <2>2, <1>6
    <3>2. CASE j \in DOMAIN PciDeviceList
      <4>1. PciDeviceList'[j] = PciDeviceList[j]
        BY <3>2, <1>6
      <4> QED
        BY <2>2, <3>1, <3>2, <4>1, <1>2 DEF CursorSound
    <3>3. CASE j \notin DOMAIN PciDeviceList
      <4>1. PciDeviceList'[j] = d
        BY <3>3, <1>6
      <4>2. PciDeviceList[i] \in DOMAIN Functions
        BY <3>1, <1>6
      <4>3. LocationNr(PciDeviceList[i]) < currentDeviceLocation /\ LocationNr(PciDeviceList[i]) \in Nat
        BY <3>1, <4>2, <1>2, LocationsOf DEF CursorSound
      <4> QED
        BY <3>1, <4>1, <4>3, <1>4, <1>5, <1>6
    <3> QED
      BY <3>2, <3>3
  <2> QED
    BY <2>1, <2>2, <1>1, <1>4, <1>6 DEF CursorSound
<1>8. SearchSound'
  <2>1. ASSUME NEW f \in DOMAIN Functions, LocationNr(f) < n + 1 PROVE f \in Range(PciDeviceList')
    <3>1. LocationNr(f) \in Nat /\ At(LocationNr(f)) = f /\ LocationNr(f) < EndOfSearch /\ EndOfSearch \in Nat
      BY <1>1, <1>2, LocationsOf, SearchCovers
    <3>2. CASE LocationNr(f) < currentDeviceLocation
      BY <3>2, <1>1, <1>2, <1>6 DEF SearchSound
    <3>3. CASE ~(LocationNr(f) < currentDeviceLocation)
      <4>1. LocationNr(f) \in currentDeviceLocation .. EndOfSearch - 1
        BY <3>1, <3>3, <1>6
      <4>2. LocationNr(f) \in found
        BY <3>1, <4>1 DEF SearchRange, PresentFrom
      <4>3. LocationNr(f) = n
        BY <2>1, <3>1, <4>2, <1>4
      <4>4. f = d
        BY <3>1, <4>3 DEF d
      <4> QED
        BY <4>4, <1>6
    <3> QED
      BY <3>2, <3>3
  <2> QED
    BY <2>1, <1>1, <1>2 DEF SearchSound, Enumerated
<1>9. HierarchySound'
  BY <1>1, <1>2, <1>6 DEF HierarchySound
<1>10. RoutesSound'
  BY <1>1, <1>2 DEF RoutesSound, RoutesExact, acpi
<1> QED
  BY <1>7, <1>8, <1>9, <1>10 DEF EnumerationInv

LEMMA NoMoreStep ==
  ASSUME EnumerationInv, NoMoreDevices
  PROVE  EnumerationInv'
<1>1. /\ pciPhase = "retrieve" /\ SearchRange(currentDeviceLocation) = {}
      /\ IF PciExpressSupport /\ currentComplex < Len(PciRootComplexList)
         THEN currentComplex' = currentComplex + 1
         ELSE pciPhase' = "hierarchy" /\ UNCHANGED <<currentComplex, currentDeviceLocation>>
      /\ UNCHANGED <<PciDeviceList, PciBridgeList, parents, acpi>>
  BY DEF NoMoreDevices
<1>2. CursorSound /\ SearchSound /\ HierarchySound /\ RoutesSound
  BY DEF EnumerationInv
<1>3. pciPhase' = "hierarchy" /\ UNCHANGED currentDeviceLocation
  <2>1. PciExpressSupport => currentComplex = 1 /\ Len(PciRootComplexList) = 1
    BY <1>1, <1>2 DEF SearchSound
  <2>2. ASSUME PciExpressSupport PROVE ~(currentComplex < Len(PciRootComplexList))
    <3>1. currentComplex = 1 /\ Len(PciRootComplexList) = 1
      BY <2>1, <2>2
    <3> QED
      BY <3>1
  <2> QED
    BY <1>1, <2>2
<1>4. ASSUME NEW f \in DOMAIN Functions PROVE f \in Range(PciDeviceList)
  <2>1. LocationNr(f) \in Nat /\ At(LocationNr(f)) = f /\ LocationNr(f) < EndOfSearch /\ EndOfSearch \in Nat
    BY <1>1, <1>2, LocationsOf, SearchCovers
  <2>2. LocationNr(f) \notin currentDeviceLocation .. EndOfSearch - 1
    BY <2>1, <1>1 DEF SearchRange, PresentFrom
  <2>3. LocationNr(f) < currentDeviceLocation
    BY <2>1, <2>2, <1>2 DEF CursorSound
  <2> QED
    BY <2>3, <1>1, <1>2 DEF SearchSound
<1> QED
  BY <1>1, <1>2, <1>3, <1>4 DEF EnumerationInv, CursorSound, SearchSound, HierarchySound, RoutesSound, RoutesExact, acpi, Enumerated

\* A bridge to the bus is found if there is one.
LEMMA ParentFound ==
  ASSUME NEW bridges \in Seq(DOMAIN Functions), NEW number, NEW b \in Range(bridges),
         Functions[b].secondary = number
  PROVE  ParentOf(bridges, number) \in DOMAIN Functions /\ Functions[ParentOf(bridges, number)].secondary = number
<1> DEFINE I == {i \in 1 .. Len(bridges) : Functions[bridges[i]].secondary = number}
<1>1. I # {} /\ I \in SUBSET Nat
  <2>1. PICK i \in DOMAIN bridges : bridges[i] = b
    BY DEF Range
  <2>2. i \in I
    BY <2>1
  <2> QED
    BY <2>2
<1>2. Min(I) \in I
  BY <1>1, MinIsLeast
<1>3. SelectInSeq(bridges, LAMBDA x : Functions[x].secondary = number) = Min(I)
  BY <1>1 DEF SelectInSeq
<1>4. ParentOf(bridges, number) = bridges[Min(I)]
  <2>1. Min(I) # 0
    BY <1>2
  <2> QED
    BY <1>3, <2>1 DEF ParentOf
<1> HIDE DEF I
<1>5. \A i \in I : i \in 1 .. Len(bridges) /\ Functions[bridges[i]].secondary = number
  BY DEF I
<1> QED
  BY <1>2, <1>4, <1>5

LEMMA HierarchyStep ==
  ASSUME BridgesFirst, EnumerationInv, EstablishHierarchy
  PROVE  EnumerationInv'
<1> DEFINE i == Len(parents) + 1
           d == PciDeviceList[i]
           bridges == IF Functions[d].bridge THEN Append(PciBridgeList, d) ELSE PciBridgeList
           p == IF d.bus = 0 THEN d ELSE ParentOf(bridges, d.bus)
<1>1. /\ pciPhase = "hierarchy" /\ i <= Len(PciDeviceList)
      /\ PciBridgeList' = bridges /\ parents' = Append(parents, p)
      /\ pciPhase' = IF d.bus # 0 /\ ParentOf(bridges, d.bus).bus = -1 THEN "panic" ELSE pciPhase
      /\ UNCHANGED <<PciDeviceList, currentDeviceLocation, acpi>>
  BY DEF EstablishHierarchy
<1>2. CursorSound /\ SearchSound /\ HierarchySound /\ RoutesSound
  BY DEF EnumerationInv
<1>3. /\ PciDeviceList \in Seq(DOMAIN Functions) /\ PciBridgeList \in Seq(DOMAIN Functions)
      /\ parents \in Seq([bus : Int, slot : Int]) /\ Len(parents) \in Nat
      /\ i \in 1 .. Len(PciDeviceList)
  BY <1>1, <1>2 DEF CursorSound, HierarchySound
<1>4. d \in DOMAIN Functions
  BY <1>3
<1> HIDE DEF d
<1>5. /\ bridges \in Seq(DOMAIN Functions)
      /\ Range(bridges) = IF Functions[d].bridge THEN Range(PciBridgeList) \cup {d} ELSE Range(PciBridgeList)
  <2>1. Range(Append(PciBridgeList, d)) = Range(PciBridgeList) \cup {d}
    BY <1>3, <1>4, RangeAppend
  <2>2. Append(PciBridgeList, d) \in Seq(DOMAIN Functions)
    BY <1>3, <1>4
  <2> QED
    BY <1>3, <2>1, <2>2
<1> HIDE DEF bridges
<1>6. ASSUME d.bus # 0 PROVE \E b \in Range(bridges) : Functions[b].secondary = d.bus
  <2>1. PICK b \in DOMAIN Functions : /\ Functions[b].bridge /\ Functions[b].secondary = d.bus
                                      /\ LocationNr(b) < LocationNr(d)
    BY <1>4, <1>6 DEF BridgesFirst
  <2>2. b \in Range(PciDeviceList)
    BY <1>1, <1>2 DEF SearchSound, Enumerated
  <2>3. PICK k \in DOMAIN PciDeviceList : PciDeviceList[k] = b
    BY <2>2 DEF Range
  <2>4. ~(i < k) /\ i # k
    <3>1. LocationNr(b) \in Nat /\ LocationNr(d) \in Nat
      BY <1>4, LocationsOf
    <3>2. i \in DOMAIN PciDeviceList /\ PciDeviceList[i] = d
      BY <1>3 DEF d
    <3>3. ~(LocationNr(d) < LocationNr(b)) /\ LocationNr(b) # LocationNr(d)
      BY <2>1, <3>1
    <3> HIDE DEF i
    <3> QED
      BY <2>3, <3>2, <3>3, <1>2 DEF CursorSound
  <2>5. k \in DOMAIN parents
    BY <2>3, <2>4, <1>3
  <2>6. b \in Range(PciBridgeList)
    BY <2>1, <2>3, <2>5, <1>2 DEF HierarchySound
  <2> QED
    BY <2>1, <2>6, <1>5
<1>7. ASSUME d.bus # 0
      PROVE  p \in DOMAIN Functions /\ Functions[p].secondary = d.bus /\ ParentOf(bridges, d.bus) = p
  BY <1>5, <1>6, <1>7, ParentFound
<1>8. p \in DOMAIN Functions /\ p \in [bus : Int, slot : Int]
  <2>1. p \in DOMAIN Functions
    BY <1>4, <1>7
  <2> HIDE DEF p
  <2> QED
    BY <2>1, LocationsOf
<1>9. pciPhase' = "hierarchy"
  <2>1. ASSUME d.bus # 0 PROVE ParentOf(bridges, d.bus).bus # -1
    <3>1. ParentOf(bridges, d.bus) = p /\ p.bus \in Nat
      BY <2>1, <1>7, LocationsOf
    <3> HIDE DEF p
    <3> QED
      BY <3>1
  <2> QED
    BY <1>1, <2>1
<1> HIDE DEF p
<1>10. /\ parents' \in Seq([bus : Int, slot : Int]) /\ Len(parents') = i /\ DOMAIN parents' = 1 .. i
       /\ parents'[i] = p /\ \A k \in 1 .. Len(parents) : parents'[k] = parents[k]
  BY <1>1, <1>3, <1>8
<1>11. HierarchySound'
  <2>1. ASSUME NEW k \in DOMAIN parents'
        PROVE  LET e == PciDeviceList[k] IN
               /\ Functions[e].bridge => e \in Range(bridges)
               /\ e.bus # 0 => Functions[parents'[k]].secondary = e.bus
    <3>1. CASE k = i
      BY <3>1, <1>5, <1>7, <1>10 DEF d
    <3>2. CASE k # i
      <4>1. k \in DOMAIN parents /\ parents'[k] = parents[k]
        <5>1. k \in 1 .. Len(parents)
          BY <3>2, <1>3, <1>10
        <5> QED
          BY <5>1, <1>3, <1>10
      <4> QED
        BY <4>1, <1>2, <1>5 DEF HierarchySound
    <3> QED
      BY <3>1, <3>2
  <2> QED
    BY <2>1, <1>1, <1>3, <1>5, <1>9, <1>10 DEF HierarchySound
<1>12. CursorSound' /\ SearchSound' /\ RoutesSound'
  BY <1>1, <1>2, <1>9 DEF CursorSound, SearchSound, RoutesSound, RoutesExact, acpi, Enumerated
<1> QED
  BY <1>11, <1>12 DEF EnumerationInv

LEMMA HierarchyDoneStep ==
  ASSUME EnumerationInv, HierarchyDone
  PROVE  EnumerationInv'
BY DEF HierarchyDone, EnumerationInv, CursorSound, SearchSound, HierarchySound, RoutesSound, RoutesExact, acpi, Enumerated

\* A search finds nothing but what it looks for, and something if it is there.
LEMMA MatchingWithin ==
  ASSUME CursorSound, NEW S
  PROVE  /\ DevicesMatching(S) \in Seq(S \cap DOMAIN Functions)
         /\ S \cap Range(PciDeviceList) # {} => DevicesMatching(S) # <<>>
<1> DEFINE N == Len(PciDeviceList)
           W == Seq(S \cap DOMAIN Functions)
           Turn(v, n) == IF PciDeviceList[n] \in S THEN Append(v, PciDeviceList[n]) ELSE v
           V == [n \in 0 .. N |-> W]
           G == [n \in 1 .. N |-> [v \in W |-> Turn(v, n)]]
           Walks(f) == f = [n \in 0 .. N |-> IF n = 0 THEN <<>>
                              ELSE IF PciDeviceList[n] \in S THEN Append(f[n - 1], PciDeviceList[n])
                              ELSE f[n - 1]]
<1>1. N \in Nat /\ \A n \in 1 .. N : PciDeviceList[n] \in DOMAIN Functions
  BY DEF CursorSound
<1>2. DevicesMatching(S) = (CHOOSE f : Walks(f))[N]
  BY Zenon DEF DevicesMatching
<1> HIDE DEF N
<1>3. ASSUME NEW n \in 1 .. N, NEW v \in W PROVE Turn(v, n) \in W
  BY <1>1
<1>4. /\ V \in [0 .. N -> SUBSET W] /\ \A n \in 0 .. N : V[n] = W
      /\ \A n \in 1 .. N : \A v \in W : G[n][v] = Turn(v, n)
      /\ <<>> \in W
  OBVIOUS
<1> HIDE DEF V, G, W, Turn
<1>5. StepsWithin(N, V, G)
  <2>1. \A n \in 1 .. N : n \in 0 .. N /\ n - 1 \in 0 .. N
    BY <1>1
  <2> QED
    BY <1>3, <1>4, <2>1 DEF StepsWithin
<1>6. PICK f \in [0 .. N -> W] : Computed(f, N, <<>>, V, G)
  <2>1. <<>> \in V[0]
    BY <1>1, <1>4
  <2> QED
    BY <1>1, <1>4, <1>5, <2>1, Recursion
<1>7. Walks(f)
  <2>1. f = [n \in 0 .. N |-> f[n]]
    OBVIOUS
  <2>2. ASSUME NEW n \in 0 .. N
        PROVE  f[n] = IF n = 0 THEN <<>> ELSE IF PciDeviceList[n] \in S THEN Append(f[n - 1], PciDeviceList[n])
                      ELSE f[n - 1]
    <3>1. CASE n = 0
      BY <3>1, <1>6 DEF Computed
    <3>2. CASE n # 0
      <4>1. n \in 1 .. N /\ f[n - 1] \in W
        BY <3>2, <1>1
      <4>2. f[n] = Turn(f[n - 1], n)
        BY <4>1, <1>4, <1>6 DEF Computed
      <4> QED
        BY <3>2, <4>2 DEF Turn
    <3> QED
      BY <3>1, <3>2
  <2> QED
    BY <2>1, <2>2, Zenon
<1> DEFINE g == CHOOSE h : Walks(h)
<1>8. Walks(g)
  <2> HIDE DEF Walks
  <2> QED
    BY <1>7, Zenon
<1> HIDE DEF g
<1>9. N \in {n \in 0 .. N : g[n] \in W}
  <2> DEFINE T == {n \in 0 .. N : g[n] \in W}
  <2>1. 0 \in T
    BY <1>1, <1>4, <1>8
  <2>2. ASSUME NEW n \in 1 .. N, n - 1 \in T PROVE n \in T
    <3>1. n \in 0 .. N /\ n # 0 /\ g[n - 1] \in W
      BY <2>2
    <3>2. g[n] = Turn(g[n - 1], n)
      BY <3>1, <1>8 DEF Turn
    <3> QED
      BY <3>1, <3>2, <1>3
  <2> HIDE DEF T
  <2>3. N \in T
    BY <1>1, <2>1, <2>2, CountingUp, N \in 0 .. N
  <2> QED
    BY <2>3 DEF T
<1>10. ASSUME NEW k \in 1 .. N, PciDeviceList[k] \in S PROVE g[N] # <<>>
  <2> DEFINE T == {n \in 0 .. N : g[n] \in W /\ (k <= n => g[n] # <<>>)}
  <2>1. 0 \in T
    BY <1>1, <1>4, <1>8
  <2>2. ASSUME NEW n \in 1 .. N, n - 1 \in T PROVE n \in T
    <3>1. n \in 0 .. N /\ n # 0 /\ g[n - 1] \in W /\ (k <= n - 1 => g[n - 1] # <<>>)
      BY <2>2
    <3>2. g[n] = Turn(g[n - 1], n) /\ Turn(g[n - 1], n) \in W
      <4>1. g[n] = Turn(g[n - 1], n)
        BY <3>1, <1>8 DEF Turn
      <4> QED
        BY <3>1, <4>1, <1>3
    <3>3. ASSUME PciDeviceList[n] \in S PROVE Append(g[n - 1], PciDeviceList[n]) # <<>>
      <4>1. PciDeviceList[n] \in S \cap DOMAIN Functions
        BY <1>1, <3>3
      <4>2. ASSUME NEW R, NEW v \in Seq(R), NEW d \in R PROVE Append(v, d) # <<>>
        OBVIOUS
      <4> QED
        BY <3>1, <4>1, <4>2 DEF W
    <3>4. k <= n => g[n] # <<>>
      BY <3>1, <3>2, <3>3, <1>10 DEF Turn
    <3> QED
      BY <3>1, <3>2, <3>4
  <2> HIDE DEF T
  <2>3. N \in T
    BY <1>1, <2>1, <2>2, CountingUp, N \in 0 .. N
  <2> QED
    BY <2>3, <1>1 DEF T
<1>11. ASSUME S \cap Range(PciDeviceList) # {} PROVE g[N] # <<>>
  <2>1. PICK k \in 1 .. N : PciDeviceList[k] \in S
    BY <1>1, <1>11 DEF Range, N, CursorSound
  <2> QED
    BY <2>1, <1>10
<1> QED
  BY <1>2, <1>9, <1>11 DEF g, W

\* Sequences put one behind the other have the elements they had.
LEMMA FlattenWithin ==
  ASSUME NEW E, NEW s \in Seq(Seq(E))
  PROVE  /\ FlattenSeq(s) \in Seq(E)
         /\ \A i \in DOMAIN s : \A e \in DOMAIN s[i] :
              \E x \in DOMAIN FlattenSeq(s) : FlattenSeq(s)[x] = s[i][e]
<1>1. CASE Len(s) = 0
  <2>1. s = <<>>
    BY <1>1
  <2> QED
    BY <1>1, <2>1 DEF FlattenSeq
<1>2. CASE Len(s) # 0
  <2> DEFINE L == Len(s)
             N == L - 1
             W == Seq(E)
             V == [n \in 0 .. N |-> W]
             G == [n \in 1 .. N |-> [v \in W |-> v \o s[n + 1]]]
             Walks(f) == f = [i \in 1 .. L |-> IF i = 1 THEN s[i] ELSE f[i - 1] \o s[i]]
  <2>1. L \in Nat /\ N \in Nat /\ L = N + 1 /\ \A i \in 1 .. L : s[i] \in W
    BY <1>2
  <2>2. FlattenSeq(s) = (CHOOSE f : Walks(f))[L]
    BY <1>2, Zenon DEF FlattenSeq
  <2> HIDE DEF L, N
  <2>3. \A v \in W : \A w \in W : v \o w \in W
    BY ConcatProperties
  <2>4. /\ V \in [0 .. N -> SUBSET W] /\ \A n \in 0 .. N : V[n] = W
        /\ \A n \in 1 .. N : \A v \in W : G[n][v] = v \o s[n + 1]
    OBVIOUS
  <2> HIDE DEF V, G, W
  <2>5. StepsWithin(N, V, G)
    <3>1. \A n \in 1 .. N : n \in 0 .. N /\ n - 1 \in 0 .. N /\ n + 1 \in 1 .. L
      BY <2>1
    <3> QED
      <4>1. ASSUME NEW n \in 1 .. N, NEW v \in V[n - 1] PROVE G[n][v] \in V[n]
        <5>1. n \in 0 .. N /\ n - 1 \in 0 .. N /\ n + 1 \in 1 .. L
          BY <3>1
        <5>2. v \in W /\ s[n + 1] \in W
          BY <2>1, <2>4, <5>1
        <5>3. G[n][v] = v \o s[n + 1] /\ v \o s[n + 1] \in W
          BY <2>3, <2>4, <5>2
        <5> QED
          BY <2>4, <5>1, <5>3
      <4> QED
        BY <4>1 DEF StepsWithin
  <2>6. PICK h \in [0 .. N -> W] : Computed(h, N, s[1], V, G)
    <3>1. s[1] \in V[0]
      BY <2>1, <2>4
    <3> QED
      BY <2>1, <2>4, <2>5, <3>1, Recursion
  <2> DEFINE f == [i \in 1 .. L |-> h[i - 1]]
  <2>7. Walks(f)
    <3>1. ASSUME NEW i \in 1 .. L PROVE f[i] = IF i = 1 THEN s[i] ELSE f[i - 1] \o s[i]
      <4>1. CASE i = 1
        BY <4>1, <2>6 DEF Computed
      <4>2. CASE i # 1
        <5>1. i - 1 \in 1 .. N /\ i - 1 \in 1 .. L /\ i - 1 - 1 \in 0 .. N /\ i - 1 + 1 = i
          BY <4>2, <2>1
        <5>2. h[i - 1] = h[i - 1 - 1] \o s[i]
          BY <5>1, <2>4, <2>6 DEF Computed
        <5> QED
          BY <4>2, <5>1, <5>2
      <4> QED
        BY <4>1, <4>2
    <3>2. f = [i \in 1 .. L |-> f[i]]
      OBVIOUS
    <3> HIDE DEF f
    <3> QED
      BY <3>1, <3>2, Zenon
  <2> DEFINE g == CHOOSE x : Walks(x)
  <2>8. Walks(g)
    <3> HIDE DEF Walks, f
    <3> QED
      BY <2>7, Zenon
  <2> HIDE DEF g
  <2>9. N \in {n \in 0 .. N : g[n + 1] \in W}
    <3> DEFINE T == {n \in 0 .. N : g[n + 1] \in W}
    <3>1. 0 \in T
      BY <2>1, <2>8
    <3>2. ASSUME NEW n \in 1 .. N, n - 1 \in T PROVE n \in T
      <4>1. n \in 0 .. N /\ n + 1 \in 1 .. L /\ n + 1 # 1 /\ n + 1 - 1 = n /\ n - 1 + 1 = n /\ g[n] \in W
        BY <3>2, <2>1
      <4>2. g[n + 1] = g[n] \o s[n + 1]
        <5>1. \A i \in 1 .. L : g[i] = IF i = 1 THEN s[i] ELSE g[i - 1] \o s[i]
          BY <2>8
        <5>2. PICK i \in 1 .. L : i = n + 1 /\ i # 1 /\ i - 1 = n
          BY <4>1
        <5>3. g[i] = g[i - 1] \o s[i]
          BY <5>1, <5>2
        <5> QED
          BY <5>2, <5>3
      <4> QED
        BY <4>1, <4>2, <2>1, <2>3
    <3> HIDE DEF T
    <3>3. N \in T
      BY <2>1, <3>1, <3>2, CountingUp, N \in 0 .. N
    <3> QED
      BY <3>3 DEF T
  <2>10. ASSUME NEW n \in 1 .. N
         PROVE  g[n + 1] = g[n] \o s[n + 1] /\ g[n + 1] \in W /\ g[n] \in W /\ s[n + 1] \in W
    <3> DEFINE T == {x \in 0 .. N : g[x + 1] \in W}
    <3>1. 0 \in T
      BY <2>1, <2>8
    <3>2. ASSUME NEW x \in 1 .. N PROVE /\ x \in 0 .. N /\ x - 1 + 1 = x /\ s[x + 1] \in W
                                        /\ g[x + 1] = g[x] \o s[x + 1]
      <4>1. \A i \in 1 .. L : g[i] = IF i = 1 THEN s[i] ELSE g[i - 1] \o s[i]
        BY <2>8
      <4>2. PICK i \in 1 .. L : i = x + 1 /\ i # 1 /\ i - 1 = x
        BY <2>1
      <4>3. g[i] = g[i - 1] \o s[i] /\ s[i] \in W
        BY <2>1, <4>1, <4>2
      <4> QED
        BY <4>2, <4>3, <2>1
    <3>3. ASSUME NEW x \in 1 .. N, x - 1 \in T PROVE x \in T
      <4>1. g[x] \in W
        BY <3>2, <3>3
      <4> QED
        BY <3>2, <4>1, <2>3
    <3> HIDE DEF T
    <3>4. \A x \in 0 .. N : x \in T
      BY <2>1, <3>1, <3>3, CountingUp
    <3>5. n \in T /\ n - 1 \in T
      BY <2>1, <3>4
    <3> QED
      BY <3>2, <3>5 DEF T
  <2>11. ASSUME NEW i \in 1 .. L, NEW e \in DOMAIN s[i]
         PROVE  \E x \in DOMAIN g[L] : g[L][x] = s[i][e]
    <3> DEFINE T == {n \in 0 .. N : i <= n + 1 => \E x \in DOMAIN g[n + 1] : g[n + 1][x] = s[i][e]}
    <3>1. 0 \in T
      BY <2>1, <2>8
    <3>2. ASSUME NEW n \in 1 .. N, n - 1 \in T PROVE n \in T
      <4> DEFINE G1 == g[n]
                 S1 == s[n + 1]
      <4>1. /\ n \in 0 .. N /\ n - 1 + 1 = n
            /\ i <= n => \E x \in DOMAIN G1 : G1[x] = s[i][e]
            /\ g[n + 1] = G1 \o S1 /\ G1 \in W /\ S1 \in W
        <5>1. n \in 0 .. N /\ n - 1 + 1 = n
          BY <2>1
        <5>2. i <= n - 1 + 1 => \E x \in DOMAIN g[n - 1 + 1] : g[n - 1 + 1][x] = s[i][e]
          BY <3>2
        <5>3. g[n + 1] = g[n] \o s[n + 1] /\ g[n] \in W /\ s[n + 1] \in W
          BY <2>10
        <5> QED
          BY <5>1, <5>2, <5>3
      <4> HIDE DEF G1
      <4>2. CASE i <= n
        <5>1. PICK x \in DOMAIN G1 : G1[x] = s[i][e]
          BY <4>1, <4>2
        <5>2. x \in DOMAIN (G1 \o S1) /\ (G1 \o S1)[x] = G1[x]
          BY <4>1 DEF W
        <5> QED
          BY <4>1, <5>1, <5>2
      <4>3. CASE i = n + 1
        <5>1. S1[e] = s[i][e] /\ e \in DOMAIN S1
          BY <4>3
        <5> HIDE DEF S1
        <5>2. Len(G1) + e \in DOMAIN (G1 \o S1) /\ (G1 \o S1)[Len(G1) + e] = S1[e]
          BY <4>1, <5>1 DEF W
        <5> QED
          BY <4>1, <5>1, <5>2
      <4> QED
        BY <4>1, <4>2, <4>3
    <3> HIDE DEF T
    <3>3. N \in T
      BY <2>1, <3>1, <3>2, CountingUp, N \in 0 .. N
    <3> QED
      BY <2>1, <3>3 DEF T
  <2>12. DOMAIN s = 1 .. L
    BY DEF L
  <2>13. FlattenSeq(s) = g[L]
    BY <2>2 DEF g
  <2>14. g[L] \in Seq(E)
    BY <2>1, <2>9 DEF W
  <2> QED
    BY <2>11, <2>12, <2>13, <2>14
<1> QED
  BY <1>1, <1>2

\* Whose bus number an object with a routing table has.
LEMMA OwnerNear ==
  ASSUME NoBridgeBehindABridge, AcpiObjects \in AcpiNamespaces,
         NEW i \in DOMAIN AcpiObjects, AcpiObjects[i].prt # "none", BbnOwner(i) # 0
  PROVE  LET o == AcpiObjects[i] IN
         \/ o.bbn >= 0 /\ BbnOwner(i) = i
         \/ /\ ~(o.bbn >= 0) /\ BbnOwner(i) = o.parent /\ o.parent # i
            /\ o.parent \in DOMAIN AcpiObjects /\ AcpiObjects[o.parent].bbn >= 0
<1> DEFINE N == Len(AcpiObjects)
           p == AcpiObjects[i].parent
           owners == {j \in Ancestors(i) : AcpiObjects[j].bbn >= 0}
<1>1. /\ N \in Nat /\ DOMAIN AcpiObjects = 1 .. N
      /\ \A k \in 1 .. N : AcpiObjects[k].parent \in 0 .. k - 1 /\ AcpiObjects[k].bbn \in Int
  <2>1. /\ AcpiObjects \in Seq([parent : Nat, bbn : Int, adr : Int, lines : Seq(Nat),
                               prt : {"none", "fails", "returns"}])
        /\ \A k \in DOMAIN AcpiObjects : AcpiObjects[k].parent < k
    BY PciAssumption
  <2>2. ASSUME NEW R, NEW s \in Seq(R) PROVE Len(s) \in Nat /\ DOMAIN s = 1 .. Len(s) /\ \A k \in 1 .. Len(s) : s[k] \in R
    OBVIOUS
  <2>3. N \in Nat /\ DOMAIN AcpiObjects = 1 .. N
    BY <2>1, <2>2
  <2>4. ASSUME NEW k \in 1 .. N PROVE AcpiObjects[k].parent \in Nat /\ AcpiObjects[k].bbn \in Int
    <3>1. AcpiObjects[k] \in [parent : Nat, bbn : Int, adr : Int, lines : Seq(Nat),
                             prt : {"none", "fails", "returns"}]
      BY <2>1, <2>2
    <3> QED
      BY <3>1
  <2>5. ASSUME NEW k \in 1 .. N PROVE AcpiObjects[k].parent \in 0 .. k - 1
    <3>1. k \in DOMAIN AcpiObjects /\ AcpiObjects[k].parent \in Nat /\ k \in Nat
      BY <2>3, <2>4
    <3>2. AcpiObjects[k].parent < k
      BY <2>1, <3>1
    <3> DEFINE x == AcpiObjects[k].parent
    <3> HIDE DEF x
    <3>3. x \in 0 .. k - 1
      BY <3>1, <3>2 DEF x
    <3> QED
      BY <3>3 DEF x
  <2> QED
    BY <2>3, <2>4, <2>5
<1> HIDE DEF N
<1>2. i \in 1 .. N /\ p \in 0 .. i - 1
  BY <1>1
<1>3. i \in Ancestors(i) /\ (p # 0 => p \in Ancestors(i))
  <2>1. p # 0 => p \in DOMAIN AcpiObjects
    BY <1>1, <1>2
  <2> QED
    BY <2>1 DEF Ancestors
<1>4. ASSUME NEW j \in Ancestors(i) PROVE j = i \/ j \in 1 .. p
  <2> DEFINE S == {i} \union 1 .. p
  <2>1. S \in SUBSET DOMAIN AcpiObjects /\ i \in S
    BY <1>1, <1>2
  <2>2. ASSUME NEW k \in S PROVE AcpiObjects[k].parent \in S \union {0}
    BY <1>1, <1>2
  <2>3. j \in S
    BY <2>1, <2>2 DEF Ancestors
  <2> QED
    BY <2>3
<1>5. owners \subseteq 1 .. N /\ \A j \in owners : j \in Ancestors(i) /\ AcpiObjects[j].bbn >= 0
  BY <1>1 DEF Ancestors
<1>6. BbnOwner(i) = IF owners = {} THEN 0 ELSE Max(owners)
  BY DEF BbnOwner
<1> HIDE DEF owners
<1>7. owners # {} /\ BbnOwner(i) = Max(owners)
  BY <1>6
<1>8. Max(owners) \in owners /\ \A j \in owners : Max(owners) >= j
  <2>1. owners \in SUBSET (0 .. N)
    BY <1>1, <1>5
  <2> QED
    BY <1>1, <1>7, <2>1, MaxIsGreatest
<1>9. PICK m \in owners : m = Max(owners)
  BY <1>8
<1>10. m \in Int /\ (m = i \/ m \in 1 .. p) /\ AcpiObjects[m].bbn >= 0 /\ \A j \in owners : m >= j
  <2>1. m \in 1 .. N /\ m \in Ancestors(i)
    BY <1>5
  <2> QED
    BY <1>4, <1>5, <1>8, <1>9, <2>1
<1> HIDE DEF p
<1>11. CASE AcpiObjects[i].bbn >= 0
  <2>1. m >= i
    BY <1>3, <1>10, <1>11 DEF owners
  <2>2. m = i
    BY <1>2, <1>10, <2>1
  <2> QED
    BY <1>7, <1>9, <1>11, <2>2
<1>12. CASE ~(AcpiObjects[i].bbn >= 0)
  <2>1. m \in 1 .. p
    BY <1>10, <1>12
  <2>2. p # 0 /\ p \in 1 .. N /\ p # i
    BY <1>1, <1>2, <2>1
  <2>3. AcpiObjects[p].bbn >= 0
    BY <1>1, <1>2, <1>12, <2>2 DEF NoBridgeBehindABridge, p
  <2>4. p \in owners
    BY <1>3, <2>2, <2>3 DEF owners
  <2>5. m = p
    BY <1>2, <1>10, <2>1, <2>4
  <2> QED
    BY <1>1, <1>7, <1>9, <1>12, <2>2, <2>3, <2>5 DEF p
<1> QED
  BY <1>11, <1>12

\* What a lookup of a bridge answers, when every function was found.
LEMMA BridgeFound ==
  ASSUME CursorSound, DOMAIN Functions \subseteq Range(PciDeviceList), NEW l
  PROVE  IoGetPciSecondaryBusForBridge(l) = SecondaryOf(l)
<1> DEFINE hits == DevicesMatching({l})
<1>1. IoGetPciSecondaryBusForBridge(l) =
        IF hits # <<>> /\ Functions[hits[1]].bridge THEN Functions[hits[1]].secondary ELSE -1
  BY DEF IoGetPciSecondaryBusForBridge
<1>2. hits \in Seq({l} \cap DOMAIN Functions) /\ ({l} \cap Range(PciDeviceList) # {} => hits # <<>>)
  BY MatchingWithin
<1> HIDE DEF hits
<1>3. CASE l \in DOMAIN Functions
  <2>1. hits # <<>> /\ hits[1] = l
    BY <1>2, <1>3
  <2> QED
    BY <1>1, <1>3, <2>1 DEF SecondaryOf
<1>4. CASE l \notin DOMAIN Functions
  <2>1. hits = <<>>
    BY <1>2, <1>4
  <2> QED
    BY <1>1, <1>4, <2>1 DEF SecondaryOf
<1> QED
  BY <1>3, <1>4

\* The bus that a routing table describes is the one behind its object.
LEMMA PrtBusTrue ==
  ASSUME NoBridgeBehindABridge, AcpiObjects \in AcpiNamespaces, CursorSound,
         DOMAIN Functions \subseteq Range(PciDeviceList),
         NEW i \in DOMAIN AcpiObjects, AcpiObjects[i].prt # "none", ~WalkFails(i),
         NEW behind \in TrueBuses[AcpiObjects]
  PROVE  PrtBus(i) = behind[i]
<1> DEFINE o == AcpiObjects[i]
<1>1. BbnOwner(i) # 0
  BY DEF WalkFails
<1>2. \A k \in DOMAIN AcpiObjects :
        behind[k] = IF AcpiObjects[k].bbn >= 0 THEN AcpiObjects[k].bbn
                 ELSE IF AcpiObjects[k].parent = 0 THEN -1
                 ELSE SecondaryOf([bus |-> behind[AcpiObjects[k].parent], slot |-> AcpiObjects[k].adr])
  <2>1. BusesBehind(AcpiObjects, behind)
    BY DEF TrueBuses
  <2> QED
    BY <2>1 DEF BusesBehind
<1>3. CASE o.bbn >= 0 /\ BbnOwner(i) = i
  BY <1>2, <1>3 DEF PrtBus
<1>4. CASE /\ ~(o.bbn >= 0) /\ BbnOwner(i) = o.parent /\ o.parent # i
           /\ o.parent \in DOMAIN AcpiObjects /\ AcpiObjects[o.parent].bbn >= 0
  <2>1. PrtBus(i) = IoGetPciSecondaryBusForBridge([bus |-> AcpiObjects[o.parent].bbn, slot |-> o.adr])
    BY <1>4 DEF PrtBus
  <2>2. behind[o.parent] = AcpiObjects[o.parent].bbn
    BY <1>2, <1>4
  <2>3. o.parent # 0
    BY <1>1, <1>4
  <2>4. behind[i] = SecondaryOf([bus |-> behind[o.parent], slot |-> o.adr])
    BY <1>2, <1>4, <2>3
  <2> QED
    BY <2>1, <2>2, <2>4, BridgeFound
<1> QED
  BY <1>1, <1>3, <1>4, OwnerNear

LEMMA ParsePrtsStep ==
  ASSUME NoBridgeBehindABridge, EnumerationInv, AcpiInterfaceParsePrts
  PROVE  EnumerationInv'
<1> DEFINE Holders == {i \in WalkedObjects : AcpiObjects[i].prt # "none"}
           E == {PrtEntry(i, k) : i \in Holders, k \in Nat}
           tables == [i \in DOMAIN AcpiObjects |-> IF i \in WalkedObjects THEN PrtEntries(i) ELSE <<>>]
<1>1. /\ pciPhase = "late" /\ PrtList' = FlattenSeq(tables)
      /\ pciPhase' = IF WalkedObjects = DOMAIN AcpiObjects THEN "run" ELSE "failed"
      /\ UNCHANGED <<PciRootComplexList, PciExpressSupport, currentComplex, currentDeviceLocation,
                     PciDeviceList, PciBridgeList, parents, AcpiObjects>>
  BY DEF AcpiInterfaceParsePrts
<1>2. CursorSound /\ SearchSound /\ HierarchySound /\ AcpiObjects \in AcpiNamespaces
  BY DEF EnumerationInv, RoutesSound
<1>3. /\ Len(AcpiObjects) \in Nat /\ DOMAIN AcpiObjects = 1 .. Len(AcpiObjects)
      /\ \A i \in DOMAIN AcpiObjects :
           /\ Len(AcpiObjects[i].lines) \in Nat
           /\ DOMAIN AcpiObjects[i].lines = 1 .. Len(AcpiObjects[i].lines)
  <2>1. AcpiObjects \in Seq([parent : Nat, bbn : Int, adr : Int, lines : Seq(Nat),
                            prt : {"none", "fails", "returns"}])
    BY <1>2, PciAssumption
  <2>2. ASSUME NEW R, NEW s \in Seq(R)
        PROVE  Len(s) \in Nat /\ DOMAIN s = 1 .. Len(s) /\ \A k \in DOMAIN s : s[k] \in R
    OBVIOUS
  <2>3. ASSUME NEW i \in DOMAIN AcpiObjects PROVE AcpiObjects[i].lines \in Seq(Nat)
    <3>1. AcpiObjects[i] \in [parent : Nat, bbn : Int, adr : Int, lines : Seq(Nat),
                             prt : {"none", "fails", "returns"}]
      BY <2>1, <2>2
    <3> QED
      BY <3>1
  <2>4. Len(AcpiObjects) \in Nat /\ DOMAIN AcpiObjects = 1 .. Len(AcpiObjects)
    BY <2>1, <2>2
  <2> QED
    BY <2>2, <2>3, <2>4
<1>4. ASSUME NEW i \in WalkedObjects PROVE i \in DOMAIN AcpiObjects /\ ~WalkFails(i)
  <2>1. i \in DOMAIN AcpiObjects /\ i \in 1 .. i
    BY <1>3 DEF WalkedObjects
  <2> QED
    BY <2>1 DEF WalkedObjects
<1>5. ASSUME NEW i \in Holders, NEW behind \in TrueBuses[AcpiObjects] PROVE PrtBus(i) = behind[i]
  <2>1. DOMAIN Functions \subseteq Range(PciDeviceList)
    BY <1>1, <1>2 DEF SearchSound, Enumerated
  <2> QED
    BY <1>2, <1>4, <2>1, PrtBusTrue
<1>6. ASSUME NEW i \in WalkedObjects PROVE PrtEntries(i) \in Seq(E)
  <2>1. CASE AcpiObjects[i].prt = "none" \/ PrtBus(i) = -1
    BY <2>1 DEF PrtEntries
  <2>2. CASE AcpiObjects[i].prt # "none" /\ PrtBus(i) # -1
    <3> DEFINE n == Len(AcpiObjects[i].lines)
    <3>1. PrtEntries(i) = [k \in 1 .. n |-> PrtEntry(i, k)] /\ n \in Nat
      BY <1>3, <1>4, <2>2 DEF PrtEntries
    <3>2. i \in Holders
      BY <2>2
    <3> HIDE DEF Holders, n
    <3>3. \A k \in 1 .. n : PrtEntry(i, k) \in E
      BY <3>1, <3>2
    <3> HIDE DEF E
    <3> QED
      BY <3>1, <3>3
  <2> QED
    BY <2>1, <2>2
<1>7. \A e \in E : \A behind \in TrueBuses[AcpiObjects] : e.bus = behind[e.object]
  <2> SUFFICES ASSUME NEW e \in E, NEW behind \in TrueBuses[AcpiObjects] PROVE e.bus = behind[e.object]
    OBVIOUS
  <2>1. PICK i \in Holders, k \in Nat : e = PrtEntry(i, k)
    <3> HIDE DEF Holders
    <3> QED
      BY DEF E
  <2>2. e.bus = PrtBus(i) /\ e.object = i
    BY <2>1 DEF PrtEntry
  <2> QED
    BY <2>2, <1>5
<1> HIDE DEF E
<1>8. tables \in Seq(Seq(E)) /\ DOMAIN tables = DOMAIN AcpiObjects
  <2>1. tables \in [1 .. Len(AcpiObjects) -> Seq(E)]
    BY <1>3, <1>6
  <2> QED
    BY <2>1, <1>3
<1>9. \A i \in WalkedObjects : tables[i] = PrtEntries(i)
  BY <1>4
<1> HIDE DEF tables
<1>10. /\ PrtList' \in Seq(E)
       /\ \A i \in DOMAIN AcpiObjects : \A k \in DOMAIN tables[i] :
            \E x \in DOMAIN PrtList' : PrtList'[x] = tables[i][k]
  BY <1>1, <1>8, FlattenWithin
<1>11. ASSUME NEW behind \in TrueBuses[AcpiObjects], NEW e \in DOMAIN PrtList'
       PROVE  PrtList'[e].bus = behind[PrtList'[e].object]
  <2>1. PrtList'[e] \in E
    BY <1>10
  <2> QED
    BY <1>7, <2>1
<1>12. ASSUME NEW behind \in TrueBuses[AcpiObjects], pciPhase' = "run", NEW i \in DOMAIN AcpiObjects,
              AcpiObjects[i].prt # "none", behind[i] # -1, NEW k \in DOMAIN AcpiObjects[i].lines
       PROVE  \E e \in DOMAIN PrtList' :
                PrtList'[e] = [bus |-> behind[i], object |-> i, line |-> AcpiObjects[i].lines[k]]
  <2>1. i \in WalkedObjects /\ i \in Holders
    BY <1>1, <1>12
  <2>2. PrtBus(i) = behind[i]
    BY <1>5, <2>1
  <2>3. tables[i] = [x \in DOMAIN AcpiObjects[i].lines |-> PrtEntry(i, x)]
    BY <1>9, <1>12, <2>1, <2>2 DEF PrtEntries
  <2>4. k \in DOMAIN tables[i] /\ tables[i][k] = PrtEntry(i, k)
    BY <2>3
  <2>5. PICK e \in DOMAIN PrtList' : PrtList'[e] = PrtEntry(i, k)
    BY <1>10, <2>4
  <2> QED
    BY <2>2, <2>5 DEF PrtEntry
<1>13. RoutesSound'
  BY <1>1, <1>2, <1>11, <1>12 DEF RoutesSound, RoutesExact
<1>14. pciPhase' \in {"run", "failed"}
  BY <1>1
<1> QED
  BY <1>1, <1>2, <1>13, <1>14 DEF EnumerationInv, CursorSound, SearchSound, HierarchySound, Enumerated

\* ACPI fails before the walk.
LEMMA LateInitFailsStep ==
  ASSUME EnumerationInv, AcpiInterfaceLateInitFails
  PROVE  EnumerationInv'
BY DEF AcpiInterfaceLateInitFails, EnumerationInv, CursorSound, SearchSound, HierarchySound, RoutesSound,
       RoutesExact, acpi, Enumerated

LEMMA EnumerationNext ==
  ASSUME OneSegment, BridgesFirst, NoBridgeBehindABridge
  PROVE  EnumerationInv /\ [PciNext]_pciVars => EnumerationInv'
<1> SUFFICES ASSUME EnumerationInv, [PciNext]_pciVars PROVE EnumerationInv'
  OBVIOUS
<1>1. ASSUME NEW mcfg \in McfgTables, PciSystemInit(mcfg) PROVE EnumerationInv'
  BY <1>1, SystemInitStep
<1>2. ASSUME RetrieveNextDevice \/ NoMoreDevices \/ EstablishHierarchy \/ HierarchyDone \/ AcpiInterfaceParsePrts
             \/ AcpiInterfaceLateInitFails
      PROVE  EnumerationInv'
  BY <1>2, RetrieveStep, NoMoreStep, HierarchyStep, HierarchyDoneStep, ParsePrtsStep, LateInitFailsStep
<1>3. ASSUME UNCHANGED <<enumeration, acpi>> PROVE EnumerationInv'
  BY <1>3 DEF enumeration, EnumerationInv, CursorSound, SearchSound, HierarchySound, RoutesSound, RoutesExact, acpi
<1>4. ASSUME NEW t \in PciThreads, NEW reg \in 0 .. SpaceSize - 1, NEW v \in Values, PciWriteGeneric(t, reg, v)
      PROVE  EnumerationInv'
  BY <1>3, <1>4 DEF PciWriteGeneric
<1>5. ASSUME NEW t \in PciThreads, ReadInitial(t) \/ WriteAddress(t) \/ WriteDword(t) PROVE EnumerationInv'
  BY <1>3, <1>5 DEF ReadInitial, WriteAddress, WriteDword
<1>6. ASSUME UNCHANGED pciVars PROVE EnumerationInv'
  BY <1>3, <1>6 DEF pciVars
<1> QED
  BY <1>1, <1>2, <1>4, <1>5, <1>6 DEF PciNext

\* Where the machine is as the code expects (one root complex, bridges before
\* what is behind them, none with a routing table behind another) the enumeration does not panic and
\* finds every function once, with its bridge, and every routing entry names
\* the bus behind its bridge (PciSystemEstablishHierarchy, _AcpiInterfaceParsePrts).
THEOREM EnumerationSafe ==
  ASSUME OneSegment, BridgesFirst, NoBridgeBehindABridge
  PROVE  PciSystemPreinit /\ [][PciNext]_pciVars => [](pciPhase # "panic" /\ EnumerationExact /\ RoutesExact)
<1>1. EnumerationInv => pciPhase # "panic" /\ EnumerationExact /\ RoutesExact
  <2> SUFFICES ASSUME EnumerationInv PROVE pciPhase # "panic" /\ EnumerationExact /\ RoutesExact
    OBVIOUS
  <2>1. CursorSound /\ SearchSound /\ HierarchySound /\ RoutesSound
    BY DEF EnumerationInv
  <2>2. pciPhase # "panic"
    BY <2>1 DEF SearchSound, Enumerated
  <2>3. IsInjective(PciDeviceList)
    <3>1. ASSUME NEW i \in DOMAIN PciDeviceList, NEW j \in DOMAIN PciDeviceList, i < j
          PROVE  PciDeviceList[i] # PciDeviceList[j]
      <4>1. LocationNr(PciDeviceList[i]) < LocationNr(PciDeviceList[j])
        BY <2>1, <3>1 DEF CursorSound
      <4>2. LocationNr(PciDeviceList[i]) \in Nat
        BY <2>1, LocationsOf DEF CursorSound
      <4> QED
        BY <4>1, <4>2
    <3>2. DOMAIN PciDeviceList \subseteq Int
      BY <2>1 DEF CursorSound
    <3>3. \A i, j \in DOMAIN PciDeviceList : i # j => i < j \/ j < i
      BY <3>2
    <3> QED
      BY <3>1, <3>3 DEF IsInjective
  <2>4. pciPhase \in {"late", "run", "failed"} => ToSet(PciDeviceList) = DOMAIN Functions
    <3>1. Range(PciDeviceList) \subseteq DOMAIN Functions
      BY <2>1 DEF CursorSound, Range
    <3>2. ToSet(PciDeviceList) = Range(PciDeviceList)
      BY DEF ToSet, Range
    <3> QED
      BY <2>1, <3>1, <3>2 DEF SearchSound, Enumerated
  <2> QED
    BY <2>1, <2>2, <2>3, <2>4 DEF EnumerationExact, HierarchySound, RoutesSound, RoutesExact, acpi
<1> QED
  BY <1>1, EnumerationInitially, EnumerationNext, PTL

\* Both: the PCI buses as the system has them once it is up.
THEOREM PciSafe ==
  ASSUME OneAccess, OneSegment, BridgesFirst, NoBridgeBehindABridge
  PROVE  PciSystemPreinit /\ [][PciNext]_pciVars => []PciSound
<1>1. pciPhase # "panic" /\ EnumerationExact /\ RoutesExact /\ ConfigurationExact => PciSound
  BY DEF PciSound
<1> QED
  BY <1>1, EnumerationSafe, ConfigurationSafe, PTL
=============================================================================
