--------------------------------- MODULE Pci ---------------------------------
(***************************************************************************)
(* The PCI buses: their enumeration through a memory window or the address *)
(* and data ports (pci.c, pcie.c), the tree of bridges, lookups and        *)
(* configuration accesses of every width (pci_system.c, io_devices.c), and *)
(* the interrupt routing that ACPI attaches to buses (acpi_interface.c).   *)
(* A function is at [bus, slot], where the slot stands for device and      *)
(* function number; its configuration space is a sequence of bytes.  A     *)
(* root complex starts at bus 0, as on every machine with one segment: for *)
(* another start the code maps a window that is too short for its own      *)
(* addresses.                                                              *)
(***************************************************************************)
EXTENDS Integers, Sequences, SequencesExt, FiniteSets, FiniteSetsExt

CONSTANTS
  Functions,      \* location -> [class, bridge, secondary]; secondary bus of a bridge
  NoOfBuses, NoOfSlots,
  McfgTables,     \* the tables to boot with: sequences of [first, last] buses, first 0
  AcpiNamespaces, \* the devices of ACPI in the order of a walk: sequences of
                  \* [parent, bbn, adr, prt, lines], -1 where a _BBN or _ADR is
                  \* missing and 0 for the root, prt what the _PRT method does
  SpaceSize,      \* bytes of configuration space that are looked at
  PciBytes,       \* values of a byte
  PciThreads

ASSUME PciAssumption ==
  /\ NoOfBuses \in Nat \ {0} /\ NoOfSlots \in Nat \ {0}
  /\ DOMAIN Functions \subseteq [bus : 0 .. NoOfBuses - 1, slot : 0 .. NoOfSlots - 1]
  /\ \A f \in DOMAIN Functions : Functions[f].bridge \in BOOLEAN /\ Functions[f].secondary \in Nat
  /\ \A mcfg \in McfgTables : mcfg \in Seq([first : {0}, last : Nat])
  /\ \A namespace \in AcpiNamespaces :
       /\ namespace \in Seq([parent : Nat, bbn : Int, adr : Int, lines : Seq(Nat),
                          prt : {"none", "fails", "returns"}])
       /\ \A i \in DOMAIN namespace : namespace[i].parent < i
  /\ SpaceSize \in Nat /\ SpaceSize % 4 = 0

VARIABLES
  pciPhase,            \* "init", "retrieve", "hierarchy", "late", "run", "failed", "panic"
  PciRootComplexList, PciExpressSupport,
  currentComplex, currentDeviceLocation,   \* the static cursor of the search
  PciDeviceList, PciBridgeList, parents,
  AcpiObjects, PrtList,
  space,               \* the configuration space of the function at Target
  expected,            \* what it should be, a ghost
  configAddress,       \* the address port: the double word it selects
  access               \* per thread: the generic access under way

enumeration == <<pciPhase, PciRootComplexList, PciExpressSupport, currentComplex,
                 currentDeviceLocation, PciDeviceList, PciBridgeList, parents>>
acpi == <<AcpiObjects, PrtList>>
configuration == <<space, expected, configAddress, access>>
pciVars == <<enumeration, acpi, configuration>>

NoAccess == [pc |-> "idle", reg |-> 0, width |-> 0, value |-> <<>>, initial |-> <<>>]

PciSystemPreinit ==
  /\ pciPhase = "init"
  /\ PciRootComplexList = <<>> /\ PciExpressSupport = FALSE
  /\ currentComplex = 0 /\ currentDeviceLocation = 0
  /\ PciDeviceList = <<>> /\ PciBridgeList = <<>> /\ parents = <<>>
  /\ AcpiObjects \in AcpiNamespaces /\ PrtList = <<>>
  /\ space = [b \in 0 .. SpaceSize - 1 |-> 0] /\ expected = space
  /\ configAddress = 0
  /\ access = [t \in PciThreads |-> NoAccess]

\* Locations in the order of the search.
LocationNr(l) == l.bus * NoOfSlots + l.slot
At(nr) == [bus |-> nr \div NoOfSlots, slot |-> nr % NoOfSlots]
PresentFrom(nr, end) == {n \in nr .. end - 1 : At(n) \in DOMAIN Functions}

\* PciSystemInit: the root complexes of the MCFG; without one, ports.
PciSystemInit(mcfg) ==
  /\ pciPhase = "init"
  /\ PciRootComplexList' = mcfg
  /\ PciExpressSupport' = (mcfg # <<>>)
  /\ pciPhase' = "retrieve"
  /\ currentComplex' = 1
  /\ currentDeviceLocation' = IF mcfg = <<>> THEN 0 ELSE mcfg[1].first * NoOfSlots
  /\ UNCHANGED <<PciDeviceList, PciBridgeList, parents, acpi, configuration>>

\* Where the search of the current complex, or of the ports, ends.
EndOfSearch ==
  (IF PciExpressSupport THEN PciRootComplexList[currentComplex].last + 1 ELSE NoOfBuses)
    * NoOfSlots

(* Mutant: the last bus of a root complex is left out. *)
SearchRange_OneBusShort(nr) == PresentFrom(nr, EndOfSearch - NoOfSlots)

SearchRange(nr) == PresentFrom(nr, EndOfSearch)

\* PciExpressRetrieveNextDevice and PciRetrieveNextDevice: the next function
\* that answers, and the cursor behind it.
RetrieveNextDevice ==
  LET found == SearchRange(currentDeviceLocation) IN
  /\ pciPhase = "retrieve" /\ found # {}
  /\ PciDeviceList' = Append(PciDeviceList, At(Min(found)))
  /\ currentDeviceLocation' = Min(found) + 1
  /\ UNCHANGED <<pciPhase, PciRootComplexList, PciExpressSupport, currentComplex,
                 PciBridgeList, parents, acpi, configuration>>

\* STATUS_DEVICE_NO_MORE_DEVICES: on to the next root complex, or done.
NoMoreDevices ==
  /\ pciPhase = "retrieve" /\ SearchRange(currentDeviceLocation) = {}
  /\ IF PciExpressSupport /\ currentComplex < Len(PciRootComplexList)
     THEN /\ currentComplex' = currentComplex + 1
          /\ currentDeviceLocation' = PciRootComplexList[currentComplex + 1].first * NoOfSlots
          /\ UNCHANGED pciPhase
     ELSE pciPhase' = "hierarchy" /\ UNCHANGED <<currentComplex, currentDeviceLocation>>
  /\ UNCHANGED <<PciRootComplexList, PciExpressSupport, PciDeviceList, PciBridgeList,
                 parents, acpi, configuration>>

\* _PciSystemRetrieveParentForDevice: the first bridge to the bus.
ParentOf(bridges, bus) ==
  LET i == SelectInSeq(bridges, LAMBDA b : Functions[b].secondary = bus)
  IN  IF i = 0 THEN [bus |-> -1, slot |-> -1] ELSE bridges[i]

\* PciSystemEstablishHierarchy: one device of the list; a bus other than 0
\* without a bridge so far is NOT_REACHED.
EstablishHierarchy ==
  LET i == Len(parents) + 1
      d == PciDeviceList[i]
      bridges == IF Functions[d].bridge THEN Append(PciBridgeList, d) ELSE PciBridgeList
  IN  /\ pciPhase = "hierarchy" /\ i <= Len(PciDeviceList)
      /\ PciBridgeList' = bridges
      /\ parents' = Append(parents, IF d.bus = 0 THEN d ELSE ParentOf(bridges, d.bus))
      /\ pciPhase' = IF d.bus # 0 /\ ParentOf(bridges, d.bus).bus = -1 THEN "panic" ELSE pciPhase
      /\ UNCHANGED <<PciRootComplexList, PciExpressSupport, currentComplex,
                     currentDeviceLocation, PciDeviceList, acpi, configuration>>

HierarchyDone ==
  /\ pciPhase = "hierarchy" /\ Len(parents) = Len(PciDeviceList)
  /\ pciPhase' = "late"
  /\ UNCHANGED <<PciRootComplexList, PciExpressSupport, currentComplex,
                 currentDeviceLocation, PciDeviceList, PciBridgeList, parents, acpi,
                 configuration>>

(***************************************************************************)
(* Lookups.                                                                *)
(***************************************************************************)

\* PciSystemFindDevicesMatchingSpecification and ...Location with a test for
\* the fields that are matched, called once to count and once to fill.
DevicesMatching(functions) ==
  LET matching[n \in 0 .. Len(PciDeviceList)] ==
        IF n = 0 THEN <<>>
        ELSE IF PciDeviceList[n] \in functions THEN Append(matching[n - 1], PciDeviceList[n])
        ELSE matching[n - 1]
  IN  matching[Len(PciDeviceList)]
IoGetPciDevicesMatchingSpecification(class) ==
  DevicesMatching({f \in DOMAIN Functions : Functions[f].class = class})
IoGetPciDevicesMatchingLocation(bus) == DevicesMatching({f \in DOMAIN Functions : f.bus = bus})

\* IoGetPciSecondaryBusForBridge: -1 if there is no such bridge.
IoGetPciSecondaryBusForBridge(l) ==
  LET hits == DevicesMatching({l})
  IN  IF hits # <<>> /\ Functions[hits[1]].bridge THEN Functions[hits[1]].secondary ELSE -1

(***************************************************************************)
(* The routing tables of ACPI.                                             *)
(***************************************************************************)

\* _AcpiRetrieveBusAndSegmentNumber: the object itself or the nearest
\* ancestor with a _BBN; 0 if there is none.  A parent comes before its
\* children, so that the nearest ancestor is the last.
Ancestors(i) ==
  {j \in DOMAIN AcpiObjects : \A S \in SUBSET DOMAIN AcpiObjects :
     i \in S /\ (\A k \in S : AcpiObjects[k].parent \in S \union {0}) => j \in S}
BbnOwner(i) ==
  LET owners == {j \in Ancestors(i) : AcpiObjects[j].bbn >= 0}
  IN  IF owners = {} THEN 0 ELSE Max(owners)

\* _AcpiInterfaceDeviceWalkCallback: an object without a _PRT is skipped; one
\* whose bus number, routing table or address cannot be had ends the walk.
WalkFails(i) ==
  LET o == AcpiObjects[i] IN
  o.prt # "none" /\ (BbnOwner(i) = 0 \/ o.prt = "fails" \/ (BbnOwner(i) # i /\ o.adr = -1))

\* The bus whose slots the table of an object describes; -1 if it is below an
\* owner of a _BBN and not a bridge there, which skips the object.
PrtBus(i) ==
  LET owner == BbnOwner(i) IN
  IF owner = i THEN AcpiObjects[i].bbn
  ELSE IoGetPciSecondaryBusForBridge([bus |-> AcpiObjects[owner].bbn, slot |-> AcpiObjects[i].adr])

PrtEntry(i, k) == [bus |-> PrtBus(i), object |-> i, line |-> AcpiObjects[i].lines[k]]
PrtEntries(i) ==
  IF AcpiObjects[i].prt = "none" \/ PrtBus(i) = -1 THEN <<>>
  ELSE [k \in DOMAIN AcpiObjects[i].lines |-> PrtEntry(i, k)]

\* The objects before the first that ends the walk.
WalkedObjects == {i \in DOMAIN AcpiObjects : \A j \in 1 .. i : ~WalkFails(j)}

\* _AcpiInterfaceParsePrts in AcpiInterfaceLateInit, which fails if the walk
\* does, with the entries so far in the list.
AcpiInterfaceParsePrts ==
  /\ pciPhase = "late"
  /\ PrtList' = FlattenSeq([i \in DOMAIN AcpiObjects |->
                             IF i \in WalkedObjects THEN PrtEntries(i) ELSE <<>>])
  /\ pciPhase' = IF WalkedObjects = DOMAIN AcpiObjects THEN "run" ELSE "failed"
  /\ UNCHANGED <<PciRootComplexList, PciExpressSupport, currentComplex,
                 currentDeviceLocation, PciDeviceList, PciBridgeList, parents, AcpiObjects,
                 configuration>>

\* What comes before: ACPICA cannot be started, or \_PIC fails.
AcpiInterfaceLateInitFails ==
  /\ pciPhase = "late" /\ pciPhase' = "failed"
  /\ UNCHANGED <<PciRootComplexList, PciExpressSupport, currentComplex,
                 currentDeviceLocation, PciDeviceList, PciBridgeList, parents, acpi,
                 configuration>>

(***************************************************************************)
(* Configuration accesses of one function.                                 *)
(***************************************************************************)

AlignAddressLower(reg) == (reg \div 4) * 4
DwordAt(reg) == [i \in 1 .. 4 |-> space[reg + i - 1]]
Stored(s, reg, bytes) ==
  [b \in DOMAIN s |-> IF b \in reg .. reg + Len(bytes) - 1 THEN bytes[b - reg + 1] ELSE s[b]]

\* The first half of PciSystemWriteConfigurationSpaceGeneric: a narrow write
\* reads the double word around it, through the ports in two steps.
PciWriteGeneric(t, reg, value) ==
  LET width == Len(value) IN
  /\ pciPhase = "run" /\ access[t].pc = "idle"
  /\ reg % width = 0 /\ AlignAddressLower(reg) + (IF width = 8 THEN 8 ELSE 4) <= SpaceSize
  /\ configAddress' = IF width < 4 /\ ~PciExpressSupport THEN AlignAddressLower(reg) ELSE configAddress
  /\ access' = [access EXCEPT ![t] =
       [pc |-> IF width < 4 THEN "read" ELSE "address", reg |-> reg, width |-> width,
        value |-> value, initial |-> <<>>]]
  /\ UNCHANGED <<enumeration, acpi, space, expected>>

SelectedBy(t) == IF PciExpressSupport THEN AlignAddressLower(access[t].reg) ELSE configAddress

\* The double word comes from the data port or from memory.
ReadInitial(t) ==
  /\ access[t].pc = "read"
  /\ access' = [access EXCEPT ![t].pc = "address", ![t].initial = DwordAt(SelectedBy(t))]
  /\ UNCHANGED <<enumeration, acpi, space, expected, configAddress>>

WriteAddress(t) ==
  /\ access[t].pc = "address"
  /\ access' = [access EXCEPT ![t].pc = "write"]
  /\ configAddress' = IF PciExpressSupport THEN configAddress ELSE AlignAddressLower(access[t].reg)
  /\ UNCHANGED <<enumeration, acpi, space, expected>>

\* valueToWrite: the new bytes over the old double word.
ValueToWrite(a) ==
  LET off == a.reg - AlignAddressLower(a.reg) IN
  IF a.width >= 4 THEN SubSeq(a.value, 1, 4)
  ELSE [i \in 1 .. 4 |->
          IF i > off /\ i <= off + a.width THEN a.value[i - off] ELSE a.initial[i]]

\* The double word is written; of eight bytes the upper half follows.
WriteDword(t) ==
  LET a == access[t] IN
  /\ a.pc = "write"
  /\ space' = Stored(space, SelectedBy(t), ValueToWrite(a))
  /\ IF a.width = 8
     THEN /\ access' = [access EXCEPT ![t] =
               [a EXCEPT !.pc = "address", !.reg = @ + 4, !.width = 4,
                         !.value = SubSeq(@, 5, 8)]]
          /\ expected' = Stored(expected, a.reg, SubSeq(a.value, 1, 4))
     ELSE /\ access' = [access EXCEPT ![t] = NoAccess]
          /\ expected' = Stored(expected, a.reg, a.value)
  /\ UNCHANGED <<enumeration, acpi, configAddress>>

\* PciSystemReadConfigurationSpaceGeneric: shifted down and cut to the width;
\* eight bytes are two double words.
PciReadGeneric(reg, width) ==
  LET d == DwordAt(AlignAddressLower(reg))
      off == reg - AlignAddressLower(reg)
  IN  IF width = 8 THEN d \o DwordAt(reg + 4) ELSE SubSeq(d, off + 1, off + width)

Values == (UNION {[1 .. w -> PciBytes] : w \in {1, 2}})
            \union {[i \in 1 .. w |-> b] : w \in {4, 8}, b \in PciBytes}

PciNext ==
  \/ \E mcfg \in McfgTables : PciSystemInit(mcfg)
  \/ RetrieveNextDevice \/ NoMoreDevices \/ EstablishHierarchy \/ HierarchyDone
  \/ AcpiInterfaceParsePrts \/ AcpiInterfaceLateInitFails
  \/ \E t \in PciThreads :
       \/ \E reg \in 0 .. SpaceSize - 1, v \in Values : PciWriteGeneric(t, reg, v)
       \/ ReadInitial(t) \/ WriteAddress(t) \/ WriteDword(t)

(***************************************************************************)
(* Properties.                                                             *)
(***************************************************************************)

\* Once enumeration is over every function within the buses of the machine
\* is in the list once, and its bridge is its parent.
EnumerationExact ==
  pciPhase \in {"late", "run", "failed"} =>
    /\ IsInjective(PciDeviceList)
    /\ ToSet(PciDeviceList) = DOMAIN Functions
    /\ \A i \in DOMAIN parents :
         PciDeviceList[i].bus # 0 => Functions[parents[i]].secondary = PciDeviceList[i].bus

\* The buses behind the objects of a namespace, as the machine has them: its
\* _BBN, or what is behind the bridge at its address on the bus of its parent.
SecondaryOf(l) ==
  IF l \in DOMAIN Functions /\ Functions[l].bridge THEN Functions[l].secondary ELSE -1
BusesBehind(namespace, behind) ==
  \A i \in DOMAIN namespace :
    LET o == namespace[i] IN
    behind[i] = IF o.bbn >= 0 THEN o.bbn
                ELSE IF o.parent = 0 THEN -1
                ELSE SecondaryOf([bus |-> behind[o.parent], slot |-> o.adr])
BusNumbers(namespace) ==
  {-1} \union {namespace[i].bbn : i \in DOMAIN namespace} \union {SecondaryOf(l) : l \in DOMAIN Functions}
TrueBuses ==
  [namespace \in AcpiNamespaces |->
     {behind \in [DOMAIN namespace -> BusNumbers(namespace)] : BusesBehind(namespace, behind)}]

\* A routing entry names the bus that is behind its object; and when the
\* system has come up, no entry of an object that has a bus is missing.
RoutesExact ==
  \A behind \in TrueBuses[AcpiObjects] :
    /\ \A e \in DOMAIN PrtList : PrtList[e].bus = behind[PrtList[e].object]
    /\ pciPhase = "run" =>
         \A i \in DOMAIN AcpiObjects :
           LET o == AcpiObjects[i] IN
           o.prt # "none" /\ behind[i] # -1 =>
             \A k \in DOMAIN o.lines : \E e \in DOMAIN PrtList :
               PrtList[e] = [bus |-> behind[i], object |-> i, line |-> o.lines[k]]

\* A configuration write of any width changes its own bytes and no others,
\* and a read of any width returns exactly the bytes it names, as long as
\* one thread at a time uses the ports.
ConfigurationExact ==
  /\ space = expected
  /\ \A w \in {1, 2, 4, 8}, r \in 0 .. SpaceSize - 1 :
       r % w = 0 /\ r + w <= SpaceSize =>
         PciReadGeneric(r, w) = [i \in 1 .. w |-> space[r + i - 1]]

\* The bring-up of the PCI buses.
PciSound == pciPhase # "panic" /\ EnumerationExact /\ RoutesExact /\ ConfigurationExact
=============================================================================
