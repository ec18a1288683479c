------------------------------ MODULE Interrupts ------------------------------
(***************************************************************************)
(* From a device's interrupt to its handler: the vectors and handler lists *)
(* of iomu.c, the redirection tables of ioapic_system.c and ioapic.c, the  *)
(* dispatch of isr.c and the vectors of lapic_system.c.  A request stands  *)
(* for one device that registers once and whose service routine claims an  *)
(* interrupt exactly when that device has raised one.  Registrations are   *)
(* serialised by GlobalInterruptLock; a handler runs with interrupts off.  *)
(***************************************************************************)
EXTENDS Integers, Sequences, SequencesExt, FiniteSets, FiniteSetsExt

CONSTANTS
  IntRequests,      \* [dev, type, irq, irql, exclusive, slot, pin, bridges]
  VectorsPerIrql,   \* VECTORS_PER_IRQL
  IoApics,          \* sequence of [base, entries]: AcpiRetrieveNextIoApic
  AcpiOverrides,    \* sequence of [source, destination]
  AcpiPrt           \* sequence of [slot, pin, line]

\* A level has vectors, and a message of a device is that of one request.
ASSUME IntAssumption ==
  /\ VectorsPerIrql \in Nat \ {0}
  /\ \A r \in IntRequests : r.irql \in Nat
  /\ \A r, s \in IntRequests : r.type = "msi" /\ s.type = "msi" /\ r.dev = s.dev => r = s

VARIABLES
  InterruptBitmap,       \* the vectors that are taken
  RegisteredInterrupts,  \* vector -> sequence of the requests on its list
  isrRoutines,           \* the vectors with a routine
  redirection,           \* <<IO APIC, entry>> -> [vector, masked], where written
  msi,                   \* device -> vector, where programmed
  MaskInterrupts,
  overrides, prtEntries, \* the tables; a count beyond a table reads past it
  registering,           \* the registration that has GlobalInterruptLock
  registered,            \* [req, vector, shared]: those that were reported good
  raised,                \* the devices that want service
  intHalted              \* an assertion failed

tableVars == <<MaskInterrupts, overrides, prtEntries>>
vectorVars == <<InterruptBitmap, RegisteredInterrupts, isrRoutines>>
routeVars == <<redirection, msi>>
intVars == <<tableVars, vectorVars, routeVars, registering, registered, raised, intHalted>>

\* A register of a table is written, for the first time or again.
Written(table, at, value) ==
  [e \in DOMAIN table \union {at} |-> IF e = at THEN value ELSE table[e]]

NoRequest == [stage |-> "none"]
IRQL_TO_VECTOR(irql) == irql * VectorsPerIrql
VECTOR_TO_IRQL(vector) == vector \div VectorsPerIrql
IntVectors == UNION {IRQL_TO_VECTOR(r.irql) .. IRQL_TO_VECTOR(r.irql) + VectorsPerIrql - 1 :
                       r \in IntRequests}

\* No vector is taken and no routine installed.
IomuPreinitSystem ==
  /\ InterruptBitmap = {}
  /\ RegisteredInterrupts = [v \in IntVectors |-> <<>>]
  /\ isrRoutines = {}

\* _IoApicSystemRetrieveInterruptOverrides: the table of the MADT.
RetrieveInterruptOverrides == overrides = AcpiOverrides

\* _IoApicSystemInitEntry: every redirection entry is masked and unwritten.
IoApicSystemInitEntry == redirection = <<>>

\* IoApicSystemPreinit and IoApicSystemInit; the routing table comes late.
IoApicSystemInit ==
  /\ MaskInterrupts = TRUE
  /\ prtEntries = <<>>
  /\ RetrieveInterruptOverrides
  /\ IoApicSystemInitEntry

IntInit ==
  /\ IomuPreinitSystem
  /\ IoApicSystemInit
  /\ msi = <<>>
  /\ registering = NoRequest
  /\ registered = {}
  /\ raised = {}
  /\ intHalted = FALSE

(***************************************************************************)
(* Routing of a line.                                                      *)
(***************************************************************************)

\* _IoApicReturnInterruptOverrideForIrq: the last match wins.
InterruptOverrideForIrq(irq) ==
  LET hits == {i \in DOMAIN overrides : overrides[i].source = irq}
  IN  IF hits = {} THEN irq ELSE overrides[Max(hits)].destination

\* _IoApicSystemGetIoApicForIrq: the redirection entry of a line, or <<>>.
IoApicForIrq(irq) ==
  LET final == InterruptOverrideForIrq(irq)
      hits == {i \in DOMAIN IoApics :
                 final \in IoApics[i].base .. IoApics[i].base + IoApics[i].entries - 1}
  IN  IF hits = {} THEN <<>> ELSE <<Min(hits), final - IoApics[Min(hits)].base>>

\* The pin of a device, through the bridges below the root.
SwizzledPin(r) ==
  LET swizzle(acc, function) == (acc + function) % 4
  IN  IF Len(r.bridges) < 2 THEN r.pin ELSE FoldLeft(swizzle, r.pin, Front(r.bridges))

\* IoApicGetInterruptLineForPciDevice: the routing table, or the swizzled
\* pin.
InterruptLineForPciDevice(r) ==
  LET hits == {i \in DOMAIN prtEntries :
                 prtEntries[i].slot = r.slot /\ prtEntries[i].pin = r.pin}
  IN  IF hits # {} THEN prtEntries[Min(hits)].line ELSE 16 + SwizzledPin(r)

LineOf(r) == IF r.type = "pci" THEN InterruptLineForPciDevice(r) ELSE r.irq
OnIoApic(r) == r.type \in {"legacy", "pci"}

\* IoApicLateSystemInit: _IoApicSystemRetrievePrtEntries counts, allocates
\* and fills the routing table.  The count of entries is also stored as the
\* count of overrides: with fewer entries than overrides the last overrides
\* disappear, with more the search reads what follows the array in memory.
IoApicLateSystemInit ==
  /\ prtEntries = <<>> /\ AcpiPrt # <<>>
  /\ prtEntries' = AcpiPrt
  /\ \E past \in [1 .. Max({0, Len(AcpiPrt) - Len(AcpiOverrides)}) ->
                    {[source |-> LineOf(r), destination |-> 0] : r \in IntRequests}] :
       overrides' = SubSeq(AcpiOverrides, 1, Min({Len(AcpiPrt), Len(AcpiOverrides)})) \o past
  /\ UNCHANGED <<MaskInterrupts, vectorVars, routeVars, registering, registered, raised, intHalted>>

\* IoApicSystemEnableRegisteredInterrupts
IoApicSystemEnableRegisteredInterrupts ==
  /\ MaskInterrupts
  /\ MaskInterrupts' = FALSE
  /\ redirection' = [e \in DOMAIN redirection |-> [redirection[e] EXCEPT !.masked = FALSE]]
  /\ UNCHANGED <<overrides, prtEntries, vectorVars, msi, registering, registered, raised, intHalted>>

(***************************************************************************)
(* IomuRegisterInterrupt.                                                  *)
(***************************************************************************)

\* IoApicSystemGetVectorForIrq for a line that is configured.
Configured(r) == OnIoApic(r) /\ IoApicForIrq(LineOf(r)) \in DOMAIN redirection
VectorForIrq(r) == redirection[IoApicForIrq(LineOf(r))].vector

\* BitmapScanFromToAndFlip over the vectors of the level.
FreeVectors(irql) ==
  {v \in IntVectors : VECTOR_TO_IRQL(v) = irql} \ InterruptBitmap

\* The vector that the request gets; shared when there was none to take.
ChosenVector(r) ==
  IF Configured(r) THEN VectorForIrq(r)
  ELSE IF FreeVectors(r.irql) # {} THEN Min(FreeVectors(r.irql))
  ELSE IRQL_TO_VECTOR(r.irql)

TakesVector(r) == ~Configured(r) /\ FreeVectors(r.irql) # {}

(* Mutant: an exclusive request is not refused when it has to share. *)
RegisterRefused_Shares(r) ==
  \/ OnIoApic(r) /\ IoApicForIrq(LineOf(r)) = <<>>
  \/ Configured(r) /\ VECTOR_TO_IRQL(VectorForIrq(r)) # r.irql

\* The early failures: no such line, another priority, exclusive and taken.
RegisterRefused(r) ==
  \/ OnIoApic(r) /\ IoApicForIrq(LineOf(r)) = <<>>
  \/ Configured(r) /\ VECTOR_TO_IRQL(VectorForIrq(r)) # r.irql
  \/ ~TakesVector(r) /\ r.exclusive

Unregistered(r) ==
  /\ registering = NoRequest
  /\ \A g \in registered : g.req # r
  /\ \A v \in IntVectors : ~Contains(RegisteredInterrupts[v], r)

\* IsrInstallEx when the list is empty, and the new entry at its tail.  The
\* vector stays taken if the allocation of the entry fails.
IomuRegisterInterrupt(r, allocated) ==
  LET v == ChosenVector(r)
      empty == RegisteredInterrupts[v] = <<>>
      installed == ~(empty /\ v \in isrRoutines)
  IN  /\ ~intHalted /\ Unregistered(r) /\ ~RegisterRefused(r)
      /\ InterruptBitmap' = IF TakesVector(r) THEN InterruptBitmap \union {v} ELSE InterruptBitmap
      /\ isrRoutines' = IF empty THEN isrRoutines \union {v} ELSE isrRoutines
      /\ intHalted' = (~empty /\ r.exclusive)
      /\ IF installed /\ allocated
         THEN /\ RegisteredInterrupts' = [RegisteredInterrupts EXCEPT ![v] = Append(@, r)]
              /\ registering' = [stage |-> "program", req |-> r, vector |-> v,
                                 redirect |-> empty, shared |-> ~TakesVector(r) /\ ~Configured(r)]
         ELSE UNCHANGED <<RegisteredInterrupts, registering>>
      /\ UNCHANGED <<tableVars, routeVars, registered, raised>>

Registered(g) == registered' = registered \union {[req |-> g.req, vector |-> g.vector, shared |-> g.shared]}

\* _IomuProgramPciInterrupt: may fail, with the entry left on the list.
ProgramPciInterrupt(programmed) ==
  LET g == registering
  IN  /\ g.stage = "program" /\ g.req.type = "msi"
      /\ IF programmed
         THEN msi' = Written(msi, g.req.dev, g.vector) /\ Registered(g)
         ELSE UNCHANGED <<msi, registered>>
      /\ registering' = NoRequest
      /\ UNCHANGED <<tableVars, vectorVars, redirection, raised, intHalted>>

\* IoApicSystemSetInterrupt, only for the first entry of the list: the entry
\* is written masked, marked as written and unmasked once that is allowed.
IoApicSystemSetInterrupt ==
  LET g == registering
      e == IoApicForIrq(LineOf(g.req))
      done == g.redirect /\ e \notin DOMAIN redirection
  IN  /\ g.stage = "program" /\ OnIoApic(g.req)
      /\ redirection' = IF done THEN Written(redirection, e, [vector |-> g.vector, masked |-> MaskInterrupts])
                        ELSE redirection
      /\ IF done \/ ~g.redirect THEN Registered(g) ELSE UNCHANGED registered
      /\ registering' = NoRequest
      /\ UNCHANGED <<tableVars, vectorVars, msi, raised, intHalted>>

\* _LapicInstallInterruptRoutine and the inter-processor vectors: there is
\* nothing to program.
RegisterLapic ==
  LET g == registering
  IN  /\ g.stage = "program" /\ g.req.type = "lapic"
      /\ Registered(g)
      /\ registering' = NoRequest
      /\ UNCHANGED <<tableVars, vectorVars, routeVars, raised, intHalted>>

(***************************************************************************)
(* Delivery.                                                               *)
(***************************************************************************)

DeviceRaises(r) ==
  /\ ~intHalted /\ r \notin raised
  /\ \E g \in registered : g.req = r
  /\ raised' = raised \union {r}
  /\ UNCHANGED <<tableVars, vectorVars, routeVars, registering, registered, intHalted>>

\* The vector on which the controllers present the device's interrupt; a
\* local interrupt comes on the vector that registration returned.
PresentedVectors(r) ==
  IF r.type = "msi" THEN {msi[d] : d \in DOMAIN msi \intersect {r.dev}}
  ELSE IF OnIoApic(r)
  THEN {redirection[e].vector : e \in {f \in DOMAIN redirection \intersect {IoApicForIrq(LineOf(r))} :
                                         ~redirection[f].masked}}
  ELSE {g.vector : g \in {h \in registered : h.req = r}}

\* _IomuGenericInterrupt: the first entry that claims the interrupt.
ClaimedBy(v) == SelectInSeq(RegisteredInterrupts[v], LAMBDA r : r \in raised)

\* IsrInterruptHandler: the routine of the vector, the assertion that the
\* interrupt was handled, IomuAckInterrupt.
IsrInterruptHandler(v) ==
  LET i == IF v \in isrRoutines THEN ClaimedBy(v) ELSE 0
  IN  /\ ~intHalted
      /\ \E r \in raised : v \in PresentedVectors(r)
      /\ raised' = IF i = 0 THEN raised ELSE raised \ {RegisteredInterrupts[v][i]}
      /\ intHalted' = (i = 0)
      /\ UNCHANGED <<tableVars, vectorVars, routeVars, registering, registered>>

IntNext ==
  \/ IoApicLateSystemInit
  \/ IoApicSystemEnableRegisteredInterrupts
  \/ \E r \in IntRequests : \E allocated \in BOOLEAN : IomuRegisterInterrupt(r, allocated)
  \/ \E programmed \in BOOLEAN : ProgramPciInterrupt(programmed)
  \/ IoApicSystemSetInterrupt
  \/ RegisterLapic
  \/ \E r \in IntRequests : DeviceRaises(r)
  \/ \E v \in IntVectors : IsrInterruptHandler(v)

(***************************************************************************)
(* Properties.                                                             *)
(***************************************************************************)

\* A registration that was reported as successful is live: the vector has a
\* routine, the entry is on its list and, once interrupts are enabled, the
\* device's interrupt arrives on that vector.  Excluded are the requests
\* that share the first vector of their level because all are taken: their
\* redirection entry is never written (iomu.c, "can share interrupts").
RegistrationIsLive ==
  \A g \in registered :
    /\ g.vector \in isrRoutines /\ Contains(RegisteredInterrupts[g.vector], g.req)
    /\ ~MaskInterrupts /\ ~g.shared => PresentedVectors(g.req) = {g.vector}

\* No interrupt reaches a vector whose handlers do not know it and no
\* exclusive handler joins a list: the assertions of IsrInterruptHandler and
\* IomuRegisterInterrupt hold whatever fails and whoever shares a line.
InterruptAssertsHold == ~intHalted

\* The way from a device's interrupt to its handler.
InterruptsSound == RegistrationIsLive /\ InterruptAssertsHold
===============================================================================
