------------------------------- MODULE MCPlatform -------------------------------
(* Processors and buses: inter-processor calls with three CPUs and two      *)
(* senders, and apart from them the start of the processors, interrupts,   *)
(* the PCI buses and the system time.  A behaviour is one of the parts.    *)
EXTENDS MCIpc, Startup, Interrupts, Pci, Time

VARIABLE part

\* Four processors in the MADT, one of them disabled.
Madt(t, i, e) == [type |-> t, id |-> i, enabled |-> e]
MadtTable ==
  <<Madt("lapic", 0, TRUE), Madt("ioapic", 9, TRUE), Madt("lapic", 1, TRUE),
    Madt("override", 0, TRUE), Madt("lapic", 4, FALSE), Madt("lapic", 2, TRUE)>>

\* A device of each kind, with priorities that run out of vectors.
Device(d, t, irq, irql, x, s, p, b) ==
  [dev |-> d, type |-> t, irq |-> irq, irql |-> irql, exclusive |-> x,
   slot |-> s, pin |-> p, bridges |-> b]
Devices ==
  {Device("rtc", "legacy", 0, 2, TRUE, 0, 0, <<>>),
   Device("kbd", "legacy", 1, 3, FALSE, 0, 0, <<>>),
   Device("disk", "pci", 0, 2, FALSE, 1, 1, <<>>),
   Device("net", "pci", 0, 2, FALSE, 2, 2, <<3, 0>>),
   Device("nic", "msi", 0, 3, FALSE, 0, 0, <<>>),
   Device("lapic", "lapic", 0, 3, TRUE, 0, 0, <<>>)}
TwoIoApics == <<[base |-> 0, entries |-> 3], [base |-> 16, entries |-> 4]>>
OneOverride == <<[source |-> 0, destination |-> 2]>>
OneRoute == <<[slot |-> 1, pin |-> 1, line |-> 17]>>

\* Three buses behind two bridges, with and without memory-mapped access.
At2(b, s) == [bus |-> b, slot |-> s]
Function(c, b, s) == [class |-> c, bridge |-> b, secondary |-> s]
Machine ==
  (At2(0, 0) :> Function("host", FALSE, 0)) @@ (At2(0, 1) :> Function("bridge", TRUE, 1)) @@
  (At2(0, 2) :> Function("disk", FALSE, 0)) @@ (At2(1, 0) :> Function("net", FALSE, 0)) @@
  (At2(1, 2) :> Function("bridge", TRUE, 2)) @@ (At2(2, 1) :> Function("net", FALSE, 0))
Mcfgs == {<<>>, <<[first |-> 0, last |-> 2]>>}

\* A host bridge, a bridge behind it, a device that is no bridge and others
\* without a table; then namespaces that end the walk: an object without a bus
\* number up to the root, a table that cannot be had, a missing address.
Object(p, b, a, t, l) == [parent |-> p, bbn |-> b, adr |-> a, prt |-> t, lines |-> l]
Host == Object(0, 0, 0, "returns", <<16, 17>>)
Namespaces ==
  {<<Host, Object(1, -1, 1, "returns", <<18>>), Object(1, -1, 2, "returns", <<19>>),
     Object(0, -1, -1, "none", <<>>), Object(2, -1, 0, "none", <<>>)>>,
   <<Object(0, -1, 0, "none", <<>>), Host, Object(1, -1, 1, "returns", <<18>>)>>,
   <<Host, Object(1, -1, 1, "fails", <<>>), Object(1, -1, 1, "returns", <<18>>)>>,
   <<Host, Object(1, -1, -1, "returns", <<18>>)>>}
ASSUME \A namespace \in AcpiNamespaces : Cardinality(TrueBuses[namespace]) = 1

MCInit ==
  /\ part \in {"ipc", "startup", "interrupts", "pci", "time"}
  /\ Init /\ (part # "ipc" => call = OthersAndSelf /\ cpu = [e \in Events |-> c1])
  /\ SystemPreinit /\ IntInit /\ PciSystemPreinit /\ TimeInit
  /\ (part # "pci" => AcpiObjects = CHOOSE namespace \in AcpiNamespaces : TRUE)
  /\ (part # "time" => MicrosecondsToIdle = Max(IdlePeriods))
MCNext ==
  /\ UNCHANGED part
  /\ \/ part = "ipc" /\ Next /\ UNCHANGED <<startupVars, intVars, pciVars, timeVars>>
     \/ part = "startup" /\ StartupNext /\ UNCHANGED <<vars, intVars, pciVars, timeVars>>
     \/ part = "interrupts" /\ IntNext /\ UNCHANGED <<vars, startupVars, pciVars, timeVars>>
     \/ part = "pci" /\ PciNext /\ UNCHANGED <<vars, startupVars, intVars, timeVars>>
     \/ part = "time" /\ TimeNext /\ UNCHANGED <<vars, startupVars, intVars, pciVars>>
MCSpec == MCInit /\ [][MCNext]_<<part, vars, startupVars, intVars, pciVars, timeVars>> /\ Fairness
=============================================================================
