------------------------------- MODULE Startup -------------------------------
(***************************************************************************)
(* From one processor to all of them: the order of SystemInit (system.c),  *)
(* the processor list taken from ACPI (acpi_interface.c, smp.c), the low   *)
(* memory the others start in (ap_tramp.c), their own set-up (cpumu.c,     *)
(* lapic_system.c) and the count by which the boot processor knows that    *)
(* they have left that memory.  A stage of SystemInit that only sets up    *)
(* another component is a step that succeeds or ends the start; low memory *)
(* is a set of page numbers.                                               *)
(***************************************************************************)
EXTENDS Integers, Sequences, SequencesExt, FiniteSets

CONSTANTS
  MadtEntries,   \* the MADT: records [type, id, enabled]
  BspId,         \* the APIC identifier of the boot processor
  MachineCpus    \* the identifiers of the processors that react to a SIPI

VARIABLES
  stage,            \* the next stage of SystemInit; 0 when it has failed
  AcpiCpuList, AcpiIoApicList, AcpiIntOverrideList,
  CpuList,          \* the PCPU list, by APIC identifier
  NoOfCpus, NoOfActiveCpus,
  ApStartupEvent,
  lowMemory,        \* the pages of low memory that are mapped
  apConfig,         \* processors with an entry in ApConfig
  apState               \* what each processor does

startupVars == <<stage, AcpiCpuList, AcpiIoApicList, AcpiIntOverrideList, CpuList,
                 NoOfCpus, NoOfActiveCpus, ApStartupEvent, lowMemory, apConfig, apState>>

acpiLists == <<AcpiCpuList, AcpiIoApicList, AcpiIntOverrideList>>
counts == <<NoOfCpus, NoOfActiveCpus>>

\* SystemPreinit: empty lists, one processor that runs.
SystemPreinit ==
  /\ stage = 1
  /\ AcpiCpuList = <<>> /\ AcpiIoApicList = <<>> /\ AcpiIntOverrideList = <<>>
  /\ CpuList = <<>>
  /\ NoOfCpus = 0 /\ NoOfActiveCpus = 0
  /\ ApStartupEvent = FALSE
  /\ lowMemory = {} /\ apConfig = {}
  /\ apState = [c \in MachineCpus |-> IF c = BspId THEN "high" ELSE "off"]

(***************************************************************************)
(* The stages.  Those named here act on the state of this module, the      *)
(* others are the calls between them.                                      *)
(***************************************************************************)
Stages ==
  <<"GdtMuInit", "SerialCommunicationInitialize", "OsInfoInit", "InitIdtHandlers",
    "MmuInitSystem", "BootModulesInit", "IomuInitSystemDriver", "AcpiInterfaceInit",
    "LapicSystemInit", "SmpInit", "CpuMuAllocCpu", "CpuMuInitCpu", "CallOfStatus",
    "IomuInitSystem", "CoreInit", "SmpSetupLowerMemory",
    "ProcessSystemInitSystemProcess", "ThreadSystemInitIdleForCurrentCPU",
    "AcpiInterfaceLateInit", "SmpSignalAllAPs", "SmpWakeupAps",
    "IomuInitSystemAfterApWakeup", "SmpCleanupLowerMemory",
    "MmuDiscardIdentityMappings", "MmuInitThreadingSystem", "IomuLateInit",
    "NetworkStackInit">>

AtStage(name) == stage > 0 /\ stage <= Len(Stages) /\ Stages[stage] = name
Passed(name) == \E i \in DOMAIN Stages : Stages[i] = name /\ i < stage
Advance == stage' = stage + 1

\* A stage may fail; SystemInit returns and the system halts.  The call of
\* a variable as a function, behind CpuMuAllocAndInitCpu, is undefined: the
\* processor faults on the stack or comes back.
CanFail == {Stages[i] : i \in DOMAIN Stages}
             \ {"SmpSignalAllAPs", "SmpWakeupAps", "SmpCleanupLowerMemory",
                "MmuDiscardIdentityMappings"}
StageFails ==
  /\ \E name \in CanFail : AtStage(name)
  /\ stage' = 0
  /\ UNCHANGED <<acpiLists, CpuList, counts, ApStartupEvent, lowMemory, apConfig, apState>>

OwnStages == {"AcpiInterfaceInit", "SmpInit", "CpuMuInitCpu", "SmpSetupLowerMemory",
              "SmpSignalAllAPs", "SmpWakeupAps", "SmpCleanupLowerMemory"}
OtherStage ==
  /\ \E i \in DOMAIN Stages : AtStage(Stages[i]) /\ Stages[i] \notin OwnStages
  /\ Advance
  /\ UNCHANGED <<acpiLists, CpuList, counts, ApStartupEvent, lowMemory, apConfig, apState>>

(***************************************************************************)
(* The processors of the MADT.                                             *)
(***************************************************************************)

OfType(type) == SelectSeq(MadtEntries, LAMBDA e : e.type = type)
Ids(entries) == [i \in DOMAIN entries |-> entries[i].id]

EnabledLapics == Ids(SelectSeq(OfType("lapic"), LAMBDA e : e.enabled))

\* The MADT lists each processor of the machine once.  The boot processor may
\* have the identifier 0, which no other can have: its stack would be the page
\* of the code.
ASSUME StartupAssumption ==
  /\ BspId \in MachineCpus /\ MachineCpus \ {BspId} \subseteq Nat \ {0}
  /\ EnabledLapics \in Seq(MachineCpus)
  /\ IsInjective(EnabledLapics) /\ ToSet(EnabledLapics) = MachineCpus

\* _AcpiInterfaceParseMadt: enabled local APICs, I/O APICs and overrides,
\* each list in the order of the table.
AcpiInterfaceParseMadt ==
  /\ AtStage("AcpiInterfaceInit")
  /\ AcpiCpuList' = EnabledLapics
  /\ AcpiIoApicList' = Ids(OfType("ioapic"))
  /\ AcpiIntOverrideList' = Ids(OfType("override"))
  /\ Advance
  /\ UNCHANGED <<CpuList, counts, ApStartupEvent, lowMemory, apConfig, apState>>

\* AcpiRetrieveNextCpu, called until it has no more objects.
AcpiRetrieveNextCpu(i) == AcpiCpuList[i]

\* SmpInit counts the processors.
SmpInit ==
  /\ AtStage("SmpInit")
  /\ NoOfCpus' = Len(AcpiCpuList)
  /\ Advance
  /\ UNCHANGED <<acpiLists, CpuList, NoOfActiveCpus, ApStartupEvent, lowMemory,
                 apConfig, apState>>

\* LOW_MEMORY_CODE_START, and the page below the StackPhysicalAddress of a
\* processor.
CodePage == 2
StackPage(c) == 2 + c
StackPages(cpus) == {StackPage(c) : c \in cpus}

\* SmpSetupLowerMemory: an entry for each processor, and in low memory the
\* code and a stack for each but the boot processor (ApTrampSetupLowerMemory).
SmpSetupLowerMemory ==
  LET list == [i \in 1 .. Len(AcpiCpuList) |-> AcpiRetrieveNextCpu(i)]
      aps  == ToSet(list) \ {BspId}
  IN  /\ AtStage("SmpSetupLowerMemory")
      /\ CpuList' = list
      /\ apConfig' = aps
      /\ lowMemory' = {CodePage} \union StackPages(aps)
      /\ Advance
      /\ UNCHANGED <<acpiLists, counts, ApStartupEvent, apState>>

(***************************************************************************)
(* The wake-up.                                                            *)
(***************************************************************************)

(* Mutant: the boot processor is not counted, the last one is not awaited. *)
SmpNotifyCpuWakeup_Early ==
  /\ NoOfActiveCpus' = NoOfActiveCpus + 1
  /\ ApStartupEvent' = (ApStartupEvent \/ NoOfActiveCpus' = NoOfCpus - 1)

\* The processor that makes the count complete signals the event.
SmpNotifyCpuWakeup ==
  /\ NoOfActiveCpus' = NoOfActiveCpus + 1
  /\ ApStartupEvent' = (ApStartupEvent \/ NoOfActiveCpus' = NoOfCpus)

\* CpuMuInitCpu of the boot processor.
CpuMuInitBsp ==
  /\ AtStage("CpuMuInitCpu")
  /\ SmpNotifyCpuWakeup
  /\ apState' = [apState EXCEPT ![BspId] = "active"]
  /\ Advance
  /\ UNCHANGED <<acpiLists, CpuList, NoOfCpus, lowMemory, apConfig>>

\* _SmpSignalAllAPs: INIT and two SIPIs to all but self, if there is more
\* than one processor in the list.
SmpSignalAllAPs ==
  /\ AtStage("SmpSignalAllAPs")
  /\ apState' = [c \in MachineCpus |->
               IF c # BspId /\ NoOfCpus > 1 THEN "low" ELSE apState[c]]
  /\ stage' = IF NoOfCpus > 1 THEN stage + 1 ELSE stage + 2
  /\ UNCHANGED <<acpiLists, CpuList, counts, ApStartupEvent, lowMemory, apConfig>>

\* SmpWakeupAps: a synchronization event, the wait consumes it.
SmpWakeupAps ==
  /\ AtStage("SmpWakeupAps")
  /\ ApStartupEvent
  /\ ApStartupEvent' = FALSE
  /\ Advance
  /\ UNCHANGED <<acpiLists, CpuList, counts, lowMemory, apConfig, apState>>

\* ApTrampCleanupLowerMemory: the code and the stacks of the list.
SmpCleanupLowerMemory ==
  /\ AtStage("SmpCleanupLowerMemory")
  /\ lowMemory' = lowMemory \ ({CodePage} \union StackPages(ToSet(CpuList) \ {BspId}))
  /\ Advance
  /\ UNCHANGED <<acpiLists, CpuList, counts, ApStartupEvent, apConfig, apState>>

\* The trampoline ends in ApInitCpu, on the stack of the PCPU.
ApLeavesLowMemory(c) ==
  /\ apState[c] = "low"
  /\ apState' = [apState EXCEPT ![c] = "high"]
  /\ UNCHANGED <<stage, acpiLists, CpuList, counts, ApStartupEvent, lowMemory, apConfig>>

\* ApInitCpu: its part of CpuMuInitCpu up to the local APIC; a failure is
\* NOT_REACHED.
LapicSystemInitializeCpu(c) ==
  /\ apState[c] = "high" /\ c # BspId
  /\ apState' = [apState EXCEPT ![c] = "lapic"]
  /\ UNCHANGED <<stage, acpiLists, CpuList, counts, ApStartupEvent, lowMemory, apConfig>>

\* The main thread of the processor exists, the processor is counted.
CpuMuInitAp(c) ==
  /\ apState[c] = "lapic"
  /\ SmpNotifyCpuWakeup
  /\ apState' = [apState EXCEPT ![c] = "active"]
  /\ UNCHANGED <<stage, acpiLists, CpuList, NoOfCpus, lowMemory, apConfig>>

\* ThreadSystemInitIdleForCurrentCPU and ThreadExit of the main thread.
ApInitIdle(c) ==
  /\ apState[c] = "active" /\ c # BspId
  /\ apState' = [apState EXCEPT ![c] = "idle"]
  /\ UNCHANGED <<stage, acpiLists, CpuList, counts, ApStartupEvent, lowMemory, apConfig>>

ApStep(c) ==
  ApLeavesLowMemory(c) \/ LapicSystemInitializeCpu(c) \/ CpuMuInitAp(c) \/ ApInitIdle(c)

SystemInit ==
  \/ OtherStage \/ StageFails
  \/ AcpiInterfaceParseMadt \/ SmpInit \/ SmpSetupLowerMemory \/ CpuMuInitBsp
  \/ SmpSignalAllAPs \/ SmpWakeupAps \/ SmpCleanupLowerMemory

StartupNext == SystemInit \/ \E c \in MachineCpus : ApStep(c)

(***************************************************************************)
(* Properties.                                                             *)
(***************************************************************************)

\* While the processors start in an order nobody controls: one that is in
\* low memory finds the code and a stack of its own mapped; when SmpWakeupAps has
\* returned every processor of the list is active; and the event cannot
\* have been missed, so that the boot processor never waits for a processor
\* that has been counted.
StartupSound ==
  /\ \A c \in MachineCpus : apState[c] = "low" =>
       /\ {CodePage, StackPage(c)} \subseteq lowMemory
       /\ StackPage(c) # CodePage
  /\ Passed("SmpWakeupAps") =>
       \A i \in DOMAIN CpuList : apState[CpuList[i]] \in {"active", "idle"}
  /\ AtStage("SmpWakeupAps") /\ ~ApStartupEvent =>
       \E i \in DOMAIN CpuList : apState[CpuList[i]] \in {"low", "high", "lapic"}
=============================================================================
