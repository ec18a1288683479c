---------------------------- MODULE DeviceStacks ----------------------------
(***************************************************************************)
(* Drivers, devices and volumes as iomu.c and io_devices.c keep them, the  *)
(* entry functions of the storage drivers that build the device stacks at  *)
(* start-up, and I/O request packets on their way down a stack, one stack  *)
(* location per device.  Start-up is sequential: an entry function is one  *)
(* step.  What a request does to its data is in Storage and Fat32.         *)
(***************************************************************************)
EXTENDS Integers, Sequences, SequencesExt, FiniteSets, FiniteSetsExt, TLC

CONSTANTS
  DriverTables,     \* DRIVER_NAMES: sequences of driver names; one is chosen
  Hardware,         \* sequences of the positions AtaDriverEntry tries:
                    \* [present, readable, parts]; one is chosen
  LastLetter        \* 'Z': volumes that have a letter

\* The table is an array of names.
ASSUME IoAssumption == DriverTables \subseteq Seq(STRING)

VARIABLES
  driverNames,      \* the table of this build
  channels,         \* the hardware of this machine
  loaded,           \* drivers of the table that were tried
  objects,          \* [devices, lists, drivers, vpbs, next]: see Nothing
  SystemDrive,      \* 0, or the letter of the system partition
  irps,             \* the packets in flight, each made while serving the one before
  ioAssert          \* an assertion failed

ioVars == <<driverNames, channels, loaded, objects, SystemDrive, irps, ioAssert>>

\* devices: id -> [type, driver, attached, stack, vpb, on];  lists: driver ->
\* DeviceList, for driver objects that are allocated;  drivers: DriverList;
\* vpbs: VpbList, the letter of an entry being its position.
Nothing == [devices |-> <<>>, lists |-> <<>>, drivers |-> <<>>, vpbs |-> <<>>, next |-> 1]

IoInit ==
  /\ driverNames \in DriverTables /\ channels \in Hardware
  /\ loaded = 0 /\ objects = Nothing /\ SystemDrive = 0
  /\ irps = <<>> /\ ioAssert = FALSE

(***************************************************************************)
(* Objects.  An operation takes the objects and returns them changed.      *)
(***************************************************************************)

\* _IomuGetNextVolumeLetter: letters are given in the order of VpbList.
NextVolumeLetter(o) == Len(o.vpbs) + 1

IomuNewVpbCreated(o, vpb) == [o EXCEPT !.vpbs = Append(@, vpb)]

\* _IoAllocateVpb.
AllocateVpb(o, volume) ==
  [IomuNewVpbCreated(o, [volume |-> volume, fs |-> 0, swap |-> FALSE])
     EXCEPT !.devices[volume].vpb = NextVolumeLetter(o)]

\* IoCreateDevice: on is the channel or partition the driver puts in the
\* extension.
IoCreateDevice(o, driver, type, on) ==
  LET d == [type |-> type, driver |-> driver, attached |-> 0, stack |-> 1, vpb |-> 0, on |-> on]
      made == [o EXCEPT !.devices = @ @@ (o.next :> d),
                        !.lists[driver] = Append(@, o.next),
                        !.next = @ + 1]
  IN  IF type = "volume" THEN AllocateVpb(made, o.next) ELSE made

IoDeleteDevice(o, id) ==
  [o EXCEPT !.devices = [d \in DOMAIN @ \ {id} |-> @[d]],
            !.lists[o.devices[id].driver] = SelectSeq(@, LAMBDA d : d # id)]

(* Mutant: a device is as deep as the one it is attached to. *)
IoAttachDevice_SameSize(o, source, target) ==
  [o EXCEPT !.devices[source].attached = target,
            !.devices[source].stack = o.devices[target].stack]

IoAttachDevice(o, source, target) ==
  [o EXCEPT !.devices[source].attached = target,
            !.devices[source].stack = o.devices[target].stack + 1]

\* IomuGetDevicesByType, in the order of the lists.
IomuGetDevicesByType(o, type) ==
  LET all == FlattenSeq([i \in DOMAIN o.drivers |-> o.lists[o.drivers[i]]])
  IN  SelectSeq(all, LAMBDA d : o.devices[d].type = type)

(***************************************************************************)
(* The entry functions: [o, ok] from the objects.                          *)
(***************************************************************************)

\* AtaDriverEntry: a device for every position, deleted again if nothing
\* answers there.  Without a controller there is nothing to try.
AtaDriverEntry(o) ==
  LET try(s, i) ==
        LET made == IoCreateDevice(s.o, "ata", "controller", <<i>>)
        IN  IF channels[i].present THEN [o |-> made, ok |-> TRUE, found |-> TRUE]
            ELSE [s EXCEPT !.o = IoDeleteDevice(made, s.o.next), !.ok = s.found]
      end == FoldLeft(try, [o |-> o, ok |-> TRUE, found |-> FALSE], [i \in DOMAIN channels |-> i])
  IN  [o |-> end.o, ok |-> end.ok]

\* _DiskRead of the boot records, on a controller.
DiskReads(on) == channels[on[1]].readable

\* _DiskInitialize, after the controller has told its length.
DiskInitialize(s, controller) ==
  LET on == s.o.devices[controller].on
      made == IoAttachDevice(IoCreateDevice(s.o, "disk", "disk", on), s.o.next, controller)
  IN  IF DiskReads(on) THEN [o |-> made, ok |-> TRUE, found |-> TRUE]
      ELSE [s EXCEPT !.o = IoDeleteDevice(made, s.o.next), !.ok = s.found]
DiskDriverEntry(o) ==
  LET end == FoldLeft(DiskInitialize, [o |-> o, ok |-> TRUE, found |-> FALSE],
                      IomuGetDevicesByType(o, "controller"))
  IN  [o |-> end.o, ok |-> end.ok]

\* DiskDispatchDeviceControl: the layout, if it fits.
DiskLayoutInfo(o, disk, size) ==
  LET needed == 1 + Len(channels[o.devices[disk].on[1]].parts)
  IN  [status |-> IF size < needed THEN "BUFFER_TOO_SMALL" ELSE "SUCCESS", information |-> needed]

\* _VolInitialize.
VolInitialize(o, disk, j) ==
  IoAttachDevice(IoCreateDevice(o, "vol", "volume", <<o.devices[disk].on[1], j>>), o.next, disk)

\* VolDriverEntry: the size of the layout is kept from one disk to the next
\* and asked for again if it is too small.
VolDriverEntry(o) ==
  LET volumes(s, disk) ==
        LET first == DiskLayoutInfo(o, disk, s.size)
            last  == IF first.status = "SUCCESS" THEN first
                     ELSE DiskLayoutInfo(o, disk, first.information)
            parts == channels[o.devices[disk].on[1]].parts
        IN  [o |-> FoldLeft(LAMBDA a, j : VolInitialize(a, disk, j), s.o, [j \in DOMAIN parts |-> j]),
             size |-> last.information, ok |-> s.ok /\ last.status = "SUCCESS"]
      end == FoldLeft(volumes, [o |-> o, size |-> 0, ok |-> TRUE], IomuGetDevicesByType(o, "disk"))
  IN  [o |-> end.o, ok |-> end.ok]

\* VolDispatchDeviceControl: the type of the partition.
PartitionInfo(o, volume) ==
  LET on == o.devices[volume].on IN channels[on[1]].parts[on[2]]

\* A file system and its volume find each other.
Mount(o, fs, volume, swap) ==
  LET a == IoAttachDevice(o, fs, volume)
      v == o.devices[volume].vpb
  IN  [a EXCEPT !.vpbs[v].fs = fs, !.vpbs[v].swap = swap, !.devices[fs].vpb = v]

\* FatDriverEntry: the device of a volume that could not be initialised is
\* deleted when the next one is looked at, the status is that of the last.
FatDriverEntry(o) ==
  LET volume(s, v) ==
        LET clean == IF s.left = 0 THEN s.o ELSE IoDeleteDevice(s.o, s.left)
            fs    == clean.next
            made  == IoCreateDevice(clean, "fat", "filesystem", clean.devices[v].on)
            part  == PartitionInfo(o, v)
        IN  IF part.type # "fat" THEN [o |-> clean, left |-> 0, ok |-> TRUE]
            ELSE IF part.valid THEN [o |-> Mount(made, fs, v, FALSE), left |-> 0, ok |-> TRUE]
            ELSE [o |-> made, left |-> fs, ok |-> FALSE]
      end == FoldLeft(volume, [o |-> o, left |-> 0, ok |-> TRUE], IomuGetDevicesByType(o, "volume"))
  IN  [o |-> end.o, ok |-> end.ok]

\* SwapFsDriverEntry.
SwapFsDriverEntry(o) ==
  [o |-> FoldLeft(LAMBDA a, v :
                    IF PartitionInfo(o, v).type # "swap" THEN a
                    ELSE Mount(IoCreateDevice(a, "swapfs", "filesystem", a.devices[v].on), a.next, v, TRUE),
                  o, IomuGetDevicesByType(o, "volume")),
   ok |-> TRUE]

\* SystemDriverEntry.
SystemDriverEntry(o) == [o |-> IoCreateDevice(o, "system", "system", <<>>), ok |-> TRUE]

DriverEntry(name, o) ==
  CASE name = "system" -> SystemDriverEntry(o)
    [] name = "ata"    -> AtaDriverEntry(o)
    [] name = "disk"   -> DiskDriverEntry(o)
    [] name = "vol"    -> VolDriverEntry(o)
    [] name = "fat"    -> FatDriverEntry(o)
    [] name = "swapfs" -> SwapFsDriverEntry(o)

IomuDriverInstalled(o, name) == [o EXCEPT !.drivers = Append(@, name)]

\* IoCreateDriver: a driver whose entry fails is freed, with nothing done to
\* the devices it has made.
IoCreateDriver(name) ==
  LET r == DriverEntry(name, [objects EXCEPT !.lists = @ @@ (name :> <<>>)])
  IN  objects' = IF r.ok THEN IomuDriverInstalled(r.o, name)
                 ELSE [r.o EXCEPT !.lists = [n \in DOMAIN @ \ {name} |-> @[n]]]

\* IomuInitSystemDriver, then _IomuInitDrivers.
Table == <<"system">> \o driverNames
IomuInitDrivers ==
  /\ loaded < Len(Table)
  /\ loaded' = loaded + 1
  /\ IoCreateDriver(Table[loaded + 1])
  /\ ioAssert' = (Len(objects'.vpbs) > LastLetter)
  /\ UNCHANGED <<driverNames, channels, SystemDrive, irps>>

\* _IomuIsSystemPartitionOnDrive: the volume is mounted and has the file.
HasSystemFile(v) ==
  /\ objects.vpbs[v].fs # 0
  /\ PartitionInfo(objects, objects.vpbs[v].volume).system

\* _IomuDetermineSystemPartition: the first such volume.
SystemPartition == LET found == {v \in DOMAIN objects.vpbs : HasSystemFile(v)}
                   IN  IF found = {} THEN 0 ELSE Min(found)
IomuLateInit ==
  /\ loaded = Len(Table) /\ SystemDrive = 0 /\ SystemPartition # 0
  /\ SystemDrive' = SystemPartition
  /\ UNCHANGED <<driverNames, channels, loaded, objects, irps, ioAssert>>

(***************************************************************************)
(* Packets.                                                                *)
(***************************************************************************)

\* IoAllocateIrp for a device; at is the device that has it, 0 at first;
\* returned is set once its dispatch function has returned, or has not been
\* called.
IoAllocateIrp(id, major) ==
  LET n == objects.devices[id].stack
  IN  [target |-> id, major |-> major, size |-> n, CurrentStackLocation |-> n, at |-> 0,
       completed |-> FALSE, returned |-> FALSE]

Ready == loaded = Len(Table) /\ ~ioAssert
Top == irps[Len(irps)]
InFlight == Ready /\ irps # <<>>

\* A request for a device, in its top location.
MakeRequest(id, major) ==
  /\ Ready /\ irps = <<>>
  /\ irps' = <<IoAllocateIrp(id, major)>>
  /\ UNCHANGED <<driverNames, channels, loaded, objects, SystemDrive, ioAssert>>

\* IomuSearchForVpb by letter, and the test that a file system is mounted.
SearchForVpb(letter) == IF letter \in DOMAIN objects.vpbs THEN {objects.vpbs[letter]} ELSE {}
Mounted(letter) == {vpb \in SearchForVpb(letter) : vpb.fs # 0}

IoCreateFile(letter) == \E vpb \in Mounted(letter) : MakeRequest(vpb.fs, "create")
IoReadMounted(letter) == \E vpb \in Mounted(letter) : MakeRequest(vpb.fs, "read")
IoQueryInformationFile(letter) == \E vpb \in Mounted(letter) : MakeRequest(vpb.fs, "query")
IoReadDeviceEx(id) == objects.devices[id].type \in {"volume", "disk", "controller"} /\ MakeRequest(id, "read")
IoBuildDeviceIoControlRequest(id) ==
  objects.devices[id].type \in {"volume", "disk", "controller"} /\ MakeRequest(id, "control")

\* What the entry functions put in the table of each driver.
DispatchFunctions ==
  [system |-> {}, ata |-> {"read", "control"}, disk |-> {"read", "control"}, vol |-> {"read", "control"},
   fat |-> {"create", "read", "query"}, swapfs |-> {"create", "read"}]

\* IoCallDriver: the assertion that a location is left, the test of the
\* alignment, which is the same below the target, the assertion that there is
\* a driver, and its dispatch function, if it has one.
IoCallDriver(id) ==
  LET driver == objects.devices[id].driver IN
  \E unaligned \in {FALSE, Top.at = 0 /\ Top.major = "read"} :
    /\ ioAssert' = (Top.CurrentStackLocation = 0 \/ (~unaligned /\ driver \notin DOMAIN objects.lists))
    /\ irps' = [irps EXCEPT ![Len(irps)].CurrentStackLocation = @ - 1, ![Len(irps)].at = id,
                            ![Len(irps)].returned = unaligned \/ Top.major \notin DispatchFunctions[driver]]
    /\ UNCHANGED <<driverNames, channels, loaded, objects, SystemDrive>>

\* IoCompleteIrp and its assertion, and the return of the dispatch functions.
IoCompleteIrp ==
  /\ ioAssert' = Top.completed
  /\ irps' = [irps EXCEPT ![Len(irps)].completed = TRUE, ![Len(irps)].returned = TRUE]
  /\ UNCHANGED <<driverNames, channels, loaded, objects, SystemDrive>>

SendIrp == InFlight /\ Top.at = 0 /\ IoCallDriver(Top.target)

\* IoCopyCurrentStackLocationToNext: there must be a next one to copy to.
CopyCurrentStackLocationToNext == Top.CurrentStackLocation > 0

\* A dispatch function of a device of one of these types runs.
Dispatched(types) ==
  InFlight /\ Top.at # 0 /\ ~Top.returned /\ objects.devices[Top.at].type \in types

\* VolDispatchReadWrite and DiskDispatchReadWrite pass a packet on.
PassDown ==
  /\ Dispatched({"volume", "disk"}) /\ Top.major = "read"
  /\ IF CopyCurrentStackLocationToNext THEN IoCallDriver(objects.devices[Top.at].attached)
     ELSE ioAssert' = TRUE /\ UNCHANGED <<driverNames, channels, loaded, objects, SystemDrive, irps>>

\* AtaDispatchReadWrite completes a packet, and VolDispatchReadWrite one that
\* is beyond the end of the volume; so does VolDispatchDeviceControl.
Complete ==
  /\ \/ Dispatched({"controller", "volume"}) /\ Top.major = "read"
     \/ Dispatched({"volume"}) /\ Top.major = "control"
  /\ IoCompleteIrp

\* AtaDispatchDeviceControl and DiskDispatchDeviceControl return without
\* completing it.
ReturnUncompleted ==
  /\ Dispatched({"controller", "disk"}) /\ Top.major = "control"
  /\ irps' = [irps EXCEPT ![Len(irps)].returned = TRUE]
  /\ UNCHANGED <<driverNames, channels, loaded, objects, SystemDrive, ioAssert>>

\* A file system reads its volume with a packet of its own, any number of
\* times, and completes.  _SwapFsCreate and a query read nothing.
FileSystemReads ==
  /\ Dispatched({"filesystem"})
  /\ Top.major = "read" \/ (Top.major = "create" /\ objects.devices[Top.at].driver = "fat")
  /\ irps' = Append(irps, IoAllocateIrp(objects.devices[Top.at].attached, "read"))
  /\ UNCHANGED <<driverNames, channels, loaded, objects, SystemDrive, ioAssert>>
FileSystemCompletes == Dispatched({"filesystem"}) /\ IoCompleteIrp

\* IoFreeIrp, once the call has returned, whether the packet is completed or
\* not.
IoFreeIrp ==
  /\ InFlight /\ Top.returned
  /\ irps' = Front(irps)
  /\ UNCHANGED <<driverNames, channels, loaded, objects, SystemDrive, ioAssert>>

IoNext ==
  \/ IomuInitDrivers \/ IomuLateInit
  \/ \E v \in 1 .. LastLetter : IoCreateFile(v) \/ IoReadMounted(v) \/ IoQueryInformationFile(v)
  \/ \E id \in DOMAIN objects.devices : IoReadDeviceEx(id) \/ IoBuildDeviceIoControlRequest(id)
  \/ SendIrp \/ PassDown \/ Complete \/ ReturnUncompleted \/ FileSystemReads \/ FileSystemCompletes \/ IoFreeIrp

(***************************************************************************)
(* Properties.                                                             *)
(***************************************************************************)

\* What the disks hold is what the system has: a volume for each partition of
\* each disk that could be read, in order, lettered in that order.
VolumesExact ==
  LET disks == SelectSeq([i \in DOMAIN channels |-> i],
                         LAMBDA i : channels[i].present /\ channels[i].readable)
      parts == FlattenSeq([k \in DOMAIN disks |->
                             [j \in DOMAIN channels[disks[k]].parts |-> <<disks[k], j>>]])
  IN  [v \in DOMAIN objects.vpbs |-> objects.devices[objects.vpbs[v].volume].on] = parts

\* A device that a list or a volume leads to is allocated, its driver is
\* installed, and its stack size is the number of devices from it down: one
\* exactly if it is not attached.
Depth == [system |-> 1, controller |-> 1, disk |-> 2, volume |-> 3, filesystem |-> 4]
DevicesSound ==
  \A id \in DOMAIN objects.devices :
    LET d == objects.devices[id] IN
    /\ id # 0 /\ d.driver \in Range(objects.drivers) \cap DOMAIN objects.lists
    /\ id \in Range(objects.lists[d.driver])
    /\ (d.attached = 0) <=> (d.stack = 1)
    /\ d.attached # 0 => /\ d.attached \in DOMAIN objects.devices
                         /\ d.stack = objects.devices[d.attached].stack + 1
    /\ d.type \in DOMAIN Depth /\ d.stack = Depth[d.type]

\* Exactly the partitions with a file system are mounted.
MountsExact ==
  \A v \in DOMAIN objects.vpbs :
    LET p == PartitionInfo(objects, objects.vpbs[v].volume)
        fs == objects.vpbs[v].fs
    IN  /\ fs = 0 \/ fs \in DOMAIN objects.devices
        /\ (fs # 0) <=> \/ p.type = "fat" /\ p.valid
                        \/ p.type = "swap" /\ "swapfs" \in Range(driverNames)
        /\ fs # 0 => objects.devices[fs].attached = objects.vpbs[v].volume

\* A packet has a location left for every device below it, and none when the
\* lowest one completes it; one that is completed is passed on no more.
PacketsFit ==
  \A i \in DOMAIN irps :
    /\ irps[i].at # 0 => irps[i].CurrentStackLocation = objects.devices[irps[i].at].stack - 1
    /\ irps[i].completed => irps[i].returned

\* The device stacks after start-up, and packets on them.
DeviceStacksSound ==
  /\ ~ioAssert
  /\ loaded = Len(Table) => VolumesExact /\ DevicesSound /\ MountsExact /\ PacketsFit
=============================================================================
