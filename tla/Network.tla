------------------------------- MODULE Network -------------------------------
(***************************************************************************)
(* The network card driver (Eth_82574L), the port driver that owns the     *)
(* frame lists and the transmit thread (NetworkPort), and the calls of     *)
(* the network stack on one device that has been configured (NetworkStack  *)
(* has how).  A frame is a number.                                         *)
(* Lists are changed under FramesLock, so each such section is one step;   *)
(* the events are signalled after the lock is released, in a step of their *)
(* own.  Interrupts are delayed by the card (IDE, the delay timers): a     *)
(* cause stays pending while other steps are taken.                        *)
(***************************************************************************)
EXTENDS Integers, Sequences, SequencesExt, FiniteSets

CONSTANTS
  NetThreads,          \* threads that send and receive
  TxDescriptors, RxDescriptors,
  MaxSent, MaxArrived, MaxStatusChanges  \* bounds

\* A ring keeps one descriptor apart, to tell full from empty.
ASSUME NetworkAssumption ==
  /\ TxDescriptors \in Nat /\ TxDescriptors >= 2
  /\ RxDescriptors \in Nat /\ RxDescriptors >= 2

VARIABLES
  stackUp,             \* the network stack has been initialised
  hw,                  \* [link, rx, tx]: the link and the enable bits of the card
  status,              \* [link, rx, tx]: LinkUp and DeviceStatus of the miniport
  changes,             \* how often the states above were changed
  rxRing, rxHead, rxTail, rxCurrent, rxList, rxEvent,
  txRing, txHead, txTail, txCurrent, txList, txEvent,
  txAvailable,         \* DescriptorsAvailable
  txLock,              \* TxInterruptLock is held by the transmit thread
  cause,               \* the interrupt causes pending in the card
  netIsr, transmitter, caller,
  accepted, wire,      \* frames taken for sending, frames that left
  arrived, delivered,  \* frames the card stored, frames handed to a caller
  netHalted            \* an assertion failed

rxVars == <<rxRing, rxHead, rxTail, rxCurrent, rxList, rxEvent, arrived, delivered>>
txVars == <<txRing, txHead, txTail, txCurrent, txList, txEvent, txAvailable, txLock,
            accepted, wire>>
statusVars == <<hw, status, changes>>
netVars == <<stackUp, statusVars, rxVars, txVars, cause, netIsr, transmitter,
             caller, netHalted>>

IsrIdle == [pc |-> "idle", cause |-> {}, wasEmpty |-> FALSE]
NextTx(i) == (i + 1) % TxDescriptors
NextRx(i) == (i + 1) % RxDescriptors

\* The card owns all receive descriptors but one.
EthRxInit ==
  /\ rxRing = [i \in 0 .. RxDescriptors - 1 |-> 0]
  /\ rxHead = 0 /\ rxTail = RxDescriptors - 1 /\ rxCurrent = 0

\* Every transmit descriptor is done.
EthTxInit ==
  /\ txRing = [i \in 0 .. TxDescriptors - 1 |-> [frame |-> 0, done |-> TRUE]]
  /\ txHead = 0 /\ txTail = 0 /\ txCurrent = 0 /\ txLock = FALSE

EthInterruptInit == cause = {} /\ netIsr = IsrIdle

EthInitializeDevice ==
  /\ EthRxInit /\ EthTxInit /\ EthInterruptInit
  /\ hw = [link |-> TRUE, rx |-> TRUE, tx |-> TRUE] /\ status = hw

\* Empty lists; the transmit thread waits.
NetworkPortDeviceInitRx == rxList = <<>> /\ rxEvent = FALSE
NetworkPortDeviceInitTx ==
  /\ txList = <<>> /\ txEvent = FALSE /\ txAvailable = TRUE
  /\ transmitter = [pc |-> "wait_frame", frame |-> 0]
NetworkPortDeviceInit == NetworkPortDeviceInitRx /\ NetworkPortDeviceInitTx

NetInit ==
  /\ stackUp = FALSE
  /\ EthInitializeDevice
  /\ NetworkPortDeviceInit
  /\ changes = 0
  /\ caller = [t \in NetThreads |-> "idle"]
  /\ accepted = <<>> /\ wire = <<>> /\ arrived = <<>> /\ delivered = <<>>
  /\ netHalted = FALSE

Up == ~netHalted

\* EthChangeDeviceStatus: a direction whose status changes has its enable
\* bit written, both with the new status of receiving.
EthChangeDeviceStatus(rx, tx) ==
  /\ hw' = [hw EXCEPT !.rx = IF rx # status.rx THEN rx ELSE @, !.tx = IF tx # status.tx THEN rx ELSE @]
  /\ status' = [status EXCEPT !.rx = rx, !.tx = tx]

\* NetworkStackInit(FALSE) turns the device off; calls come after it.
StackTurnsOff ==
  /\ Up /\ ~stackUp
  /\ stackUp' = TRUE
  /\ EthChangeDeviceStatus(FALSE, FALSE)
  /\ UNCHANGED <<changes, rxVars, txVars, cause, netIsr, transmitter, caller, netHalted>>

(***************************************************************************)
(* The card.                                                               *)
(***************************************************************************)

\* External: a frame arrives, into the next descriptor the card owns.
CardReceives ==
  /\ Up /\ hw.link /\ hw.rx /\ rxHead # rxTail /\ Len(arrived) < MaxArrived
  /\ rxRing' = [rxRing EXCEPT ![rxHead] = Len(arrived) + 1]
  /\ arrived' = Append(arrived, Len(arrived) + 1)
  /\ rxHead' = NextRx(rxHead)
  /\ cause' = cause \union {"rx"}
  /\ UNCHANGED <<stackUp, statusVars, rxTail, rxCurrent, rxList, rxEvent, delivered,
                 txVars, netIsr, transmitter, caller, netHalted>>

\* External: a frame leaves; its descriptor is written back.
CardTransmits ==
  /\ Up /\ hw.link /\ hw.tx /\ txHead # txTail
  /\ wire' = Append(wire, txRing[txHead].frame)
  /\ txRing' = [txRing EXCEPT ![txHead].done = TRUE]
  /\ txHead' = NextTx(txHead)
  /\ cause' = cause \union {"tx"}
  /\ UNCHANGED <<stackUp, statusVars, rxVars, txTail, txCurrent, txList, txEvent,
                 txAvailable, txLock, accepted, netIsr, transmitter, caller, netHalted>>

\* External: the cable.
LinkChanges ==
  /\ Up /\ changes < MaxStatusChanges
  /\ hw' = [hw EXCEPT !.link = ~@] /\ changes' = changes + 1
  /\ cause' = cause \union {"link"}
  /\ UNCHANGED <<stackUp, status, rxVars, txVars, netIsr, transmitter, caller, netHalted>>

(***************************************************************************)
(* EthHandleInterrupt: reading the causes clears them.                     *)
(***************************************************************************)

EthHandleInterrupt ==
  /\ Up /\ netIsr.pc = "idle" /\ cause # {}
  /\ netIsr' = [pc |-> IF "rx" \in cause THEN "rx" ELSE "tx", cause |-> cause, wasEmpty |-> FALSE]
  /\ cause' = {}
  /\ UNCHANGED <<stackUp, statusVars, rxVars, txVars, transmitter, caller, netHalted>>

(* Mutant: the list is tested after the frame was inserted. *)
NetworkPortNotifyReceiveBuffer_LateTest ==
  /\ Up /\ netIsr.pc = "rx"
  /\ IF rxRing[rxCurrent] # 0
     THEN /\ rxList' = Append(rxList, rxRing[rxCurrent])
          /\ netIsr' = [netIsr EXCEPT !.pc = "rx_signal", !.wasEmpty = FALSE]
     ELSE /\ netIsr' = [netIsr EXCEPT !.pc = "tx"]
          /\ UNCHANGED rxList
  /\ UNCHANGED <<stackUp, statusVars, rxRing, rxHead, rxTail, rxCurrent, rxEvent,
                 arrived, delivered, txVars, cause, transmitter, caller, netHalted>>

\* EthReceiveFrame and NetworkPortNotifyReceiveBuffer, once per frame: the
\* frame is queued, ...
NetworkPortNotifyReceiveBuffer ==
  /\ Up /\ netIsr.pc = "rx"
  /\ IF rxRing[rxCurrent] # 0
     THEN /\ rxList' = Append(rxList, rxRing[rxCurrent])
          /\ netIsr' = [netIsr EXCEPT !.pc = "rx_signal", !.wasEmpty = (rxList = <<>>)]
     ELSE /\ netIsr' = [netIsr EXCEPT !.pc = "tx"]
          /\ UNCHANGED rxList
  /\ UNCHANGED <<stackUp, statusVars, rxRing, rxHead, rxTail, rxCurrent, rxEvent,
                 arrived, delivered, txVars, cause, transmitter, caller, netHalted>>

\* ... the receivers are told if the list was empty and the descriptor goes
\* back to the card.
EthReceiveFrame ==
  /\ Up /\ netIsr.pc = "rx_signal"
  /\ rxEvent' = (rxEvent \/ netIsr.wasEmpty)
  /\ rxRing' = [rxRing EXCEPT ![rxCurrent] = 0]
  /\ rxTail' = rxCurrent
  /\ rxCurrent' = NextRx(rxCurrent)
  /\ netIsr' = [netIsr EXCEPT !.pc = "rx"]
  /\ UNCHANGED <<stackUp, statusVars, rxHead, rxList, arrived, delivered, txVars,
                 cause, transmitter, caller, netHalted>>

\* NetworkPortNotifyTxDescriptorAvailable under TxInterruptLock, then
\* NetworkPortNotifyLinkStatusChange.
NetworkPortNotifyTxDescriptorAvailable ==
  /\ Up /\ netIsr.pc = "tx"
  /\ "tx" \in netIsr.cause => ~txLock
  /\ txAvailable' = (txAvailable \/ "tx" \in netIsr.cause)
  /\ status' = IF "link" \in netIsr.cause THEN [status EXCEPT !.link = hw.link] ELSE status
  /\ netIsr' = IsrIdle
  /\ UNCHANGED <<stackUp, hw, changes, rxVars, txRing, txHead, txTail, txCurrent,
                 txList, txEvent, txLock, accepted, wire, cause, transmitter, caller, netHalted>>

(***************************************************************************)
(* NetPortTransmitFunction, EthSendFrame and                               *)
(* _EthSignalTxQueueFullIfNecessary.                                       *)
(***************************************************************************)

Transmitter(pc) == Up /\ transmitter.pc = pc
TransmitterTo(pc) == transmitter' = [transmitter EXCEPT !.pc = pc]
otherThanTx == <<stackUp, statusVars, rxVars, cause, netIsr, caller>>

\* The head of the list is taken; on an empty list the event is cleared
\* under the same lock.
TransmitTakesFrame ==
  /\ Transmitter("wait_frame") /\ txEvent
  /\ IF txList = <<>>
     THEN /\ txEvent' = FALSE
          /\ UNCHANGED <<txList, transmitter>>
     ELSE /\ txList' = Tail(txList)
          /\ transmitter' = [pc |-> "wait_descriptor", frame |-> Head(txList)]
          /\ UNCHANGED txEvent
  /\ UNCHANGED <<otherThanTx, txRing, txHead, txTail, txCurrent, txAvailable, txLock,
                 accepted, wire, netHalted>>

\* The frame is copied into the buffer of the current descriptor, which must
\* be done, and the descriptor is filled in.
EthSendFrame ==
  /\ Transmitter("wait_descriptor") /\ txAvailable
  /\ netHalted' = ~txRing[txCurrent].done
  /\ txRing' = [txRing EXCEPT ![txCurrent] = [frame |-> transmitter.frame, done |-> FALSE]]
  /\ txCurrent' = NextTx(txCurrent)
  /\ TransmitterTo("check")
  /\ UNCHANGED <<otherThanTx, txHead, txTail, txList, txEvent, txAvailable, txLock,
                 accepted, wire>>

\* The first look at the card's head, without the lock.
EthSignalTxQueueFullIfNecessary ==
  /\ Transmitter("check")
  /\ TransmitterTo(IF NextTx(txCurrent) = txHead THEN "lock" ELSE "tail")
  /\ UNCHANGED <<otherThanTx, txVars, netHalted>>

\* The second look, with the lock; then the notice and the release.
EthTxQueueFullLocked ==
  /\ Transmitter("lock")
  /\ txLock' = TRUE
  /\ TransmitterTo(IF NextTx(txCurrent) = txHead THEN "full" ELSE "unlock")
  /\ UNCHANGED <<otherThanTx, txRing, txHead, txTail, txCurrent, txList, txEvent, txAvailable,
                 accepted, wire, netHalted>>

NetworkPortNotifyTxQueueFull ==
  /\ Transmitter("full") \/ Transmitter("unlock")
  /\ txAvailable' = (txAvailable /\ transmitter.pc # "full")
  /\ txLock' = FALSE
  /\ TransmitterTo("tail")
  /\ UNCHANGED <<otherThanTx, txRing, txHead, txTail, txCurrent, txList, txEvent,
                 accepted, wire, netHalted>>

\* The card is told last.
EthSetTxTail ==
  /\ Transmitter("tail")
  /\ txTail' = txCurrent
  /\ transmitter' = [pc |-> "wait_frame", frame |-> 0]
  /\ UNCHANGED <<otherThanTx, txRing, txHead, txCurrent, txList, txEvent, txAvailable, txLock,
                 accepted, wire, netHalted>>

(***************************************************************************)
(* The calls on the device.                                                *)
(***************************************************************************)

CallerAt(t, pc) == Up /\ stackUp /\ caller[t] = pc
CallerTo(t, pc) == caller' = [caller EXCEPT ![t] = pc]
otherThanCalls == <<stackUp, cause, netIsr, transmitter, netHalted>>

(* Mutant: the frame is queued in front of the others. *)
NetDispatchSendFrame_AtHead(t) ==
  /\ CallerAt(t, "idle") /\ status.link /\ status.tx /\ Len(accepted) < MaxSent
  /\ accepted' = Append(accepted, Len(accepted) + 1)
  /\ txList' = <<Len(accepted) + 1>> \o txList
  /\ CallerTo(t, IF txList = <<>> THEN "signal" ELSE "idle")
  /\ UNCHANGED <<otherThanCalls, statusVars, rxVars, txRing, txHead, txTail, txCurrent,
                 txEvent, txAvailable, txLock, wire>>

\* NetSendFrame, _NetDispatchSendFrame: the frame is queued, ...
NetDispatchSendFrame(t) ==
  /\ CallerAt(t, "idle") /\ status.link /\ status.tx /\ Len(accepted) < MaxSent
  /\ accepted' = Append(accepted, Len(accepted) + 1)
  /\ txList' = Append(txList, Len(accepted) + 1)
  /\ CallerTo(t, IF txList = <<>> THEN "signal" ELSE "idle")
  /\ UNCHANGED <<otherThanCalls, statusVars, rxVars, txRing, txHead, txTail, txCurrent,
                 txEvent, txAvailable, txLock, wire>>

\* ... and the transmit thread is told if the list was empty.
SendSignals(t) ==
  /\ CallerAt(t, "signal")
  /\ txEvent' = TRUE
  /\ CallerTo(t, "idle")
  /\ UNCHANGED <<otherThanCalls, statusVars, rxVars, txRing, txHead, txTail, txCurrent,
                 txList, txAvailable, txLock, accepted, wire>>

\* NetReceiveFrame, _NetDispatchReceiveFrame: the look at the list.  A frame
\* that is larger than the caller's buffer stays in the list.
NetDispatchReceiveFrame(t, fits) ==
  /\ CallerAt(t, "idle") \/ CallerAt(t, "receive")
  /\ IF rxList = <<>>
     THEN /\ rxEvent' = FALSE
          /\ CallerTo(t, "empty")
          /\ UNCHANGED <<rxList, delivered>>
     ELSE /\ CallerTo(t, "idle")
          /\ IF fits THEN rxList' = Tail(rxList) /\ delivered' = Append(delivered, Head(rxList))
                     ELSE UNCHANGED <<rxList, delivered>>
          /\ UNCHANGED rxEvent
  /\ UNCHANGED <<otherThanCalls, statusVars, rxRing, rxHead, rxTail, rxCurrent, arrived, txVars>>

\* Without a link, or disabled, the call fails; otherwise it waits.
ReceiveFinds(t) ==
  /\ CallerAt(t, "empty")
  /\ CallerTo(t, IF status.link /\ status.rx THEN "wait" ELSE "idle")
  /\ UNCHANGED <<otherThanCalls, statusVars, rxVars, txVars>>

ReceiveWakes(t) ==
  /\ CallerAt(t, "wait") /\ rxEvent
  /\ CallerTo(t, "receive")
  /\ UNCHANGED <<otherThanCalls, statusVars, rxVars, txVars>>

\* _NetDispatchChangeDeviceStatus
NetDispatchChangeDeviceStatus(t, rx, tx) ==
  /\ CallerAt(t, "idle") /\ changes < MaxStatusChanges
  /\ <<rx, tx>> # <<status.rx, status.tx>>
  /\ EthChangeDeviceStatus(rx, tx)
  /\ changes' = changes + 1
  /\ UNCHANGED <<otherThanCalls, rxVars, txVars, caller>>

\* The interrupt handler, the transmit thread, and the calls of the stack.
EthInterrupt ==
  \/ EthHandleInterrupt \/ NetworkPortNotifyReceiveBuffer \/ EthReceiveFrame
  \/ NetworkPortNotifyTxDescriptorAvailable
NetPortTransmitFunction ==
  \/ TransmitTakesFrame \/ EthSendFrame \/ EthSignalTxQueueFullIfNecessary
  \/ EthTxQueueFullLocked \/ NetworkPortNotifyTxQueueFull \/ EthSetTxTail
NetSendFrame(t) == NetDispatchSendFrame(t) \/ SendSignals(t)
NetReceiveFrame(t) ==
  \/ \E fits \in BOOLEAN : NetDispatchReceiveFrame(t, fits)
  \/ ReceiveFinds(t) \/ ReceiveWakes(t)
NetPortDeviceControl(t) ==
  \/ NetSendFrame(t) \/ NetReceiveFrame(t)
  \/ \E rx, tx \in BOOLEAN : NetDispatchChangeDeviceStatus(t, rx, tx)

NetNext ==
  \/ StackTurnsOff
  \/ CardReceives \/ CardTransmits \/ LinkChanges
  \/ EthInterrupt \/ NetPortTransmitFunction
  \/ \E t \in NetThreads : NetPortDeviceControl(t)

(***************************************************************************)
(* Properties.                                                             *)
(***************************************************************************)

\* Frames leave in the order in which they were accepted and arrive with
\* their callers in the order in which the card stored them, none twice,
\* none skipped and none overwritten in its buffer, whatever is enabled,
\* disabled or full in between.
FramesInOrder == IsPrefix(wire, accepted) /\ IsPrefix(delivered, arrived)

\* No frame waits unseen: while a list holds frames its event is signalled
\* or whoever found the list empty is about to signal it.
FramesAnnounced ==
  /\ txList # <<>> => \/ txEvent \/ transmitter.pc # "wait_frame"
                      \/ \E t \in NetThreads : caller[t] = "signal"
  /\ rxList # <<>> => rxEvent \/ (netIsr.pc = "rx_signal" /\ netIsr.wasEmpty)

\* The notice that descriptors are available is never lost: while it is
\* clear the card has a frame to send, or the interrupt is on its way.
DescriptorNoticePending ==
  txAvailable \/ txHead # txTail \/ transmitter.pc \in {"lock", "full", "unlock", "tail"}
              \/ "tx" \in cause \/ "tx" \in netIsr.cause

\* Neither side of the lists or of the ring sleeps on work that is there.
NoticesPending == FramesAnnounced /\ DescriptorNoticePending

\* The assertion of EthSendFrame: the descriptor to be used is done.
TransmitDescriptorDone == ~netHalted
===============================================================================
