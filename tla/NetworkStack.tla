---------------------------- MODULE NetworkStack ----------------------------
(***************************************************************************)
(* The network cards as the port driver configures them at start-up, each  *)
(* in several stages that may fail, and the table of devices the network   *)
(* stack keeps (NetworkStack): filled once, then listed, searched and used *)
(* to switch cards by several threads while links go up and down.  Frames  *)
(* are in Network.  Configuration is sequential: a card is one step.       *)
(***************************************************************************)
EXTENDS Integers, Sequences, SequencesExt, FiniteSets

CONSTANTS
  Slots,            \* the cards on the bus, in the order they are found
  FailAt,           \* functions from Slots to the stage that fails; one is chosen
  Stackers,         \* threads that call the stack
  MaxSwitches       \* bound on changes of a status or a link

VARIABLES
  failAt,           \* the cards of this machine
  port,             \* slot -> [holds, status, regs, LinkUp], for slots tried
  portDriver,       \* "none", "installed" or "freed"
  freedTwice,       \* memory that was freed when it was free
  NetworkDeviceList, NumberOfDevices, NetworkingEnabled,
  lister,           \* a call of NetGetNetworkDevices per thread
  switches          \* changes so far

stackVars == <<failAt, port, portDriver, freedTwice, NetworkDeviceList, NumberOfDevices,
               NetworkingEnabled, lister, switches>>

NoCall == [pc |-> "idle", at |-> 1, out |-> <<>>, window |-> <<>>]

\* NetworkStackPreinit
StackInit ==
  /\ failAt \in FailAt
  /\ port = <<>> /\ portDriver = "none" /\ freedTwice = {}
  /\ NetworkDeviceList = <<>> /\ NumberOfDevices = 0 /\ NetworkingEnabled = TRUE
  /\ lister = [t \in Stackers |-> NoCall] /\ switches = 0

(***************************************************************************)
(* Configuring a card.                                                     *)
(***************************************************************************)

\* What _NetworkPortConfigureDevice acquires, stage by stage: the device
\* object, the miniport, the two sets of buffers, the registers, the thread.
\* A stage that fails gives back what it had acquired itself.
MiniportBuffers(way) == {<<way, "array">>, <<way, "buffers">>, <<way, "ring">>}
Own(what) == {<<"own", w>> : w \in what}
Stages == << Own({"device"}), Own({"miniport", "extension"}), MiniportBuffers("rx"),
             MiniportBuffers("tx"), Own({"registers"}), Own({"thread"}) >>
Configured == Len(Stages) + 1

\* A card fails at one of the stages, or at none.
ASSUME StackAssumption ==
  /\ Slots \in Seq(Range(Slots))
  /\ FailAt \subseteq [DOMAIN Slots -> 1 .. Configured]

Acquired(f) == UNION {Stages[i] : i \in 1 .. f - 1}

\* EthInitializeDevice maps the registers and enables both directions.
EthStarted(holds) ==
  [holds |-> holds, status |-> [rx |-> TRUE, tx |-> TRUE], regs |-> [rx |-> TRUE, tx |-> TRUE],
   LinkUp |-> TRUE]

\* NetworkPortDeviceUninit: it knows of the miniport and of the arrays once
\* NetworkPortDeviceInit, the last stage, has begun.
DeviceUninitFrees(f) ==
  IF f = Len(Stages) THEN Own({"miniport", "extension"}) \union {<<"rx", "array">>, <<"tx", "array">>}
  ELSE {}

\* What the error path frees by itself.
ErrorPathFrees(f) ==
  Acquired(f) \intersect (Own({"device", "miniport", "extension"}) \union
                          {<<way, what>> : way \in {"rx", "tx"}, what \in {"array", "buffers"}})

Frees(f) == IF f = Configured THEN {} ELSE DeviceUninitFrees(f) \union ErrorPathFrees(f)

NetworkPortConfigureDevice(s, f) ==
  /\ port' = Append(port, EthStarted(Acquired(f) \ Frees(f)))
  /\ freedTwice' = freedTwice \union
       (IF f = Configured THEN {} ELSE DeviceUninitFrees(f) \intersect ErrorPathFrees(f))

Works(s) == failAt[s] = Configured

\* NetworkPortRegisterMiniportDriver, card by card; with less than two that
\* work the driver is freed.
RegisterNextCard ==
  LET s == Len(port) + 1 IN
  /\ portDriver = "none" /\ s <= Len(Slots)
  /\ NetworkPortConfigureDevice(s, failAt[s])
  /\ UNCHANGED <<failAt, portDriver, NetworkDeviceList, NumberOfDevices, NetworkingEnabled, lister, switches>>
RegisterEnds ==
  /\ portDriver = "none" /\ Len(port) = Len(Slots)
  /\ portDriver' = IF Cardinality({s \in DOMAIN port : Works(s)}) > 1 THEN "installed" ELSE "freed"
  /\ UNCHANGED <<failAt, port, freedTwice, NetworkDeviceList, NumberOfDevices, NetworkingEnabled, lister, switches>>

(***************************************************************************)
(* The table of devices.                                                   *)
(***************************************************************************)

\* EthChangeDeviceStatus, and _NetDispatchChangeDeviceStatus, which keeps the
\* new status: a direction whose status changes has its register written,
\* both with the new status of receiving.
SwitchedCard(p, status) ==
  [p EXCEPT !.status = status,
            !.regs = [rx |-> IF status.rx # p.status.rx THEN status.rx ELSE p.regs.rx,
                      tx |-> IF status.tx # p.status.tx THEN status.rx ELSE p.regs.tx]]

\* The members of a finite set of numbers in order.
InOrder(S) == [i \in 1 .. Cardinality(S) |-> CHOOSE s \in S : Cardinality({r \in S : r <= s}) = i]

\* IoGetDevicesByType: the devices of a driver that is installed.
WorkingCards == {s \in DOMAIN Slots : Works(s)}
NetworkDevices == IF portDriver = "installed" THEN InOrder(WorkingCards) ELSE <<>>

\* NetOpGetPhysicalAddress: the address the card has in its EEPROM.
NetOpGetPhysicalAddress(s) == Slots[s]

\* NetworkDevicePreinit and NetworkDeviceInitialize: the address and the
\* status are asked of the device; the link is not.
NetworkDevice(s, id) ==
  [DeviceId |-> id, PhysicalDevice |-> s, PhysicalAddress |-> NetOpGetPhysicalAddress(s),
   DeviceStatus |-> port[s].status, LinkStatus |-> FALSE]

\* NetworkStackSetState for all the devices.
NetworkStackSetState(enable, devices) ==
  /\ NetworkingEnabled' = enable
  /\ port' = IF enable = NetworkingEnabled THEN port
             ELSE [s \in DOMAIN port |->
                     IF Contains(devices, s) THEN SwitchedCard(port[s], [rx |-> enable, tx |-> enable])
                     ELSE port[s]]

Booted == NumberOfDevices > 0

(* Mutant: one identifier for all devices. *)
NextDeviceId_Same(i) == 0

\* _NetworkStackGetNextDeviceId, for the device at position i.
NextDeviceId(i) == i - 1

\* NetworkStackInit(FALSE), as SystemInit calls it.
NetworkStackInit ==
  /\ portDriver # "none" /\ ~Booted
  /\ NetworkDeviceList' = [i \in DOMAIN NetworkDevices |-> NetworkDevice(NetworkDevices[i], NextDeviceId(i))]
  /\ NumberOfDevices' = Len(NetworkDevices)
  /\ NetworkStackSetState(FALSE, NetworkDevices)
  /\ UNCHANGED <<failAt, portDriver, freedTwice, lister, switches>>

\* What a listing under way may report, as devices change.
Widened(window, p) ==
  [s \in DOMAIN window |-> [status |-> window[s].status \union {p[s].status},
                            link   |-> window[s].link \union {p[s].LinkUp}]]
Change(p) ==
  /\ Booted /\ switches < MaxSwitches
  /\ port' = p /\ switches' = switches + 1
  /\ lister' = [t \in Stackers |-> [lister[t] EXCEPT !.window = Widened(@, p)]]
  /\ UNCHANGED <<failAt, portDriver, freedTwice, NetworkDeviceList, NumberOfDevices, NetworkingEnabled>>

\* NetOpGetDeviceById: the first with the identifier.
NetOpGetDeviceById(id) ==
  LET i == SelectInSeq(NetworkDeviceList, LAMBDA d : d.DeviceId = id)
  IN  IF i = 0 THEN {} ELSE {NetworkDeviceList[i]}

NetOpSetDeviceStatus(s, status) == [port EXCEPT ![s] = SwitchedCard(@, status)]

NetChangeDeviceStatus(id, status) ==
  \E d \in NetOpGetDeviceById(id) :
    Change(NetOpSetDeviceStatus(d.PhysicalDevice, status))

\* NetworkPortNotifyLinkStatusChange, from the interrupt handler of a card.
NetworkPortNotifyLinkStatusChange(s) ==
  /\ s \in DOMAIN port /\ Works(s)
  /\ Change([port EXCEPT ![s].LinkUp = ~@])

\* NetGetNetworkDevices: the number of devices if the buffer is too small;
\* otherwise, under the shared DeviceLock, each device in turn is asked for
\* its status and its link, which are put in the table, and the entry of the
\* table is copied.  Several threads may hold the lock.
NetGetNetworkDevices(t, room) ==
  /\ Booted /\ lister[t].pc = "idle"
  /\ room >= NumberOfDevices
  /\ lister' = [lister EXCEPT ![t] =
       [pc |-> "status", at |-> 1, out |-> <<>>,
        window |-> Widened([s \in DOMAIN port |-> [status |-> {}, link |-> {}]], port)]]
  /\ UNCHANGED <<failAt, port, portDriver, freedTwice, NetworkDeviceList, NumberOfDevices,
                 NetworkingEnabled, switches>>

ListerAt(t, pc) == lister[t].pc = pc /\ lister[t].at <= Len(NetworkDeviceList)
otherThanListing == <<failAt, port, portDriver, freedTwice, NumberOfDevices, NetworkingEnabled, switches>>

NetOpGetDeviceStatus(t) ==
  LET i == lister[t].at IN
  /\ ListerAt(t, "status")
  /\ NetworkDeviceList' =
       [NetworkDeviceList EXCEPT ![i].DeviceStatus = port[NetworkDeviceList[i].PhysicalDevice].status]
  /\ lister' = [lister EXCEPT ![t].pc = "link"]
  /\ UNCHANGED otherThanListing

NetOpGetLinkStatus(t) ==
  LET i == lister[t].at IN
  /\ ListerAt(t, "link")
  /\ NetworkDeviceList' =
       [NetworkDeviceList EXCEPT ![i].LinkStatus = port[NetworkDeviceList[i].PhysicalDevice].LinkUp]
  /\ lister' = [lister EXCEPT ![t].pc = "copy"]
  /\ UNCHANGED otherThanListing

CopyDeviceInfo(t) ==
  LET i == lister[t].at IN
  /\ ListerAt(t, "copy")
  /\ lister' = [lister EXCEPT ![t].pc = "status", ![t].at = i + 1,
                              ![t].out = Append(@, NetworkDeviceList[i])]
  /\ UNCHANGED <<otherThanListing, NetworkDeviceList>>

ListingEnds(t) ==
  /\ lister[t].pc = "status" /\ lister[t].at > Len(NetworkDeviceList)
  /\ lister' = [lister EXCEPT ![t] = NoCall]
  /\ UNCHANGED <<otherThanListing, NetworkDeviceList>>

StackNext ==
  \/ RegisterNextCard \/ RegisterEnds \/ NetworkStackInit
  \/ \E id \in 0 .. Len(Slots), rx, tx \in BOOLEAN : NetChangeDeviceStatus(id, [rx |-> rx, tx |-> tx])
  \/ \E s \in DOMAIN Slots : NetworkPortNotifyLinkStatusChange(s)
  \/ \E t \in Stackers :
       \/ \E room \in 0 .. Len(Slots) : NetGetNetworkDevices(t, room)
       \/ NetOpGetDeviceStatus(t) \/ NetOpGetLinkStatus(t) \/ CopyDeviceInfo(t) \/ ListingEnds(t)

(***************************************************************************)
(* Properties.                                                             *)
(***************************************************************************)

\* Nothing is freed twice, a card that works has all it acquired, and one
\* that does not has lost at most its descriptor rings.
ConfigurationSound ==
  /\ freedTwice = {}
  /\ \A s \in DOMAIN port :
       IF Works(s) THEN port[s].holds = Acquired(Configured)
       ELSE port[s].holds \subseteq {<<way, "ring">> : way \in {"rx", "tx"}}

\* The table has every card that works once, in order, found by its own
\* identifier.
TableExact ==
  Booted =>
    /\ [i \in DOMAIN NetworkDeviceList |-> NetworkDeviceList[i].PhysicalDevice] = NetworkDevices
    /\ Len(NetworkDeviceList) = NumberOfDevices
    /\ \A i \in DOMAIN NetworkDeviceList :
         NetOpGetDeviceById(NetworkDeviceList[i].DeviceId) = {NetworkDeviceList[i]}

\* Whatever other threads list or switch meanwhile, what a listing reports of
\* a card is a status and a link state the card has had since it began.
ListingsCurrent ==
  \A t \in Stackers : \A i \in DOMAIN lister[t].out :
    LET d == lister[t].out[i]
        w == lister[t].window[d.PhysicalDevice]
    IN  d.DeviceStatus \in w.status /\ d.LinkStatus \in w.link

\* A card receives exactly when its status says so.
ReceiverFollowsStatus == \A s \in DOMAIN port : port[s].regs.rx = port[s].status.rx

\* The cards, the table and what is told of them agree.
NetworkStackSound == ConfigurationSound /\ TableExact /\ ListingsCurrent /\ ReceiverFollowsStatus

\* The same of sending is false of this code: from both off, a change to
\* sending only leaves the card's transmitter off.
TransmitterFollowsStatus == \A s \in DOMAIN port : port[s].regs.tx = port[s].status.tx
=============================================================================
