------------------------------ MODULE MCDrivers ------------------------------
(* The executive event and, apart from it, the drivers and the file system: *)
(* a behaviour is one of the seven parts.                                  *)
EXTENDS ExEvent, Keyboard, Network, DeviceStacks, NetworkStack, Storage, Fat32

VARIABLE part

\* Letters, modifiers, editing keys, and a code without a key.
Code(e, k) == [ext |-> e, key |-> k]
Codes ==
  {Code(FALSE, "a"), Code(FALSE, "shift"), Code(FALSE, "caps"), Code(FALSE, "3"),
   Code(FALSE, "backspace"), Code(TRUE, "left"), Code(TRUE, "right"),
   Code(FALSE, "return"), Code(FALSE, "unknown")}

\* Machines with two disks, with one that cannot be read, and with none.  A
\* partition with a broken file system is never the last of its machine.
Part(type, valid, system) == [type |-> type, valid |-> valid, system |-> system]
Disk(parts) == [present |-> TRUE, readable |-> TRUE, parts |-> parts]
Absent == [present |-> FALSE, readable |-> FALSE, parts |-> <<>>]
Broken == Part("fat", FALSE, FALSE)
Machines ==
  {<<Disk(<<Part("other", TRUE, FALSE), Part("fat", TRUE, FALSE)>>), Absent,
     Disk(<<Part("swap", TRUE, FALSE), Broken, Part("fat", TRUE, TRUE), Part("fat", TRUE, TRUE)>>), Absent>>,
   <<Absent, [Disk(<<>>) EXCEPT !.readable = FALSE], Disk(<<Broken, Part("swap", TRUE, FALSE)>>), Absent>>,
   <<Absent, Absent>>}
Tables == {<<"ata", "disk", "vol", "fat">>, <<"ata", "disk", "vol", "fat", "swapfs">>}
OneMachine == CHOOSE h \in Machines : Len(h) = 2

\* Three cards, of which two, one or none work and the others fail in any
\* stage before the last.
Cards == <<"mac1", "mac2", "mac3">>
NoneWorks == <<1, 1, 1>>
Failures == {<<1, 7, 7>>, <<7, 4, 7>>, <<7, 7, 5>>, <<2, 7, 1>>, <<7, 3, 1>>, NoneWorks}

\* A primary partition and two logical ones in a chain of extended records.
Record(k, f, s) == [kind |-> k, first |-> f, size |-> s]
NoPartition == Record("empty", 0, 0)
Boot ==
  (0 :> <<Record("part", 1, 4), Record("extended", 5, 7), NoPartition, NoPartition>>) @@
  (5 :> <<Record("part", 1, 2), Record("extended", 3, 4)>>) @@
  (8 :> <<Record("part", 1, 2), NoPartition>>)

\* A buffer of two adjacent pages and one apart.
Frames == ("t1" :> <<1, 2, 5>>) @@ ("t2" :> <<6, 4, 3>>)

\* Requests to the swap file system, to volumes and to the disk: within one
\* page, over several, across a DMA boundary, beyond the end, unaligned.
Ask(d, w, a, o, l, p) ==
  [dev |-> d, swapFs |-> FALSE, write |-> w, async |-> a, offset |-> o, length |-> l, at |-> p]
Swap(w, o, l, p) == [Ask(1, w, FALSE, o, l, p) EXCEPT !.swapFs = TRUE]
Asks ==
  {Swap(TRUE, 4, 4, 0), Swap(FALSE, 0, 4, 2), Swap(TRUE, 0, 2, 0), Swap(FALSE, 2, 4, 0), Swap(TRUE, 2, 4, 0),
   Ask(2, TRUE, TRUE, 0, 4, 1), Ask(2, FALSE, TRUE, 1, 2, 0), Ask(2, FALSE, TRUE, 2, 4, 0),
   Ask(3, FALSE, TRUE, 2, 2, 4), Ask(3, TRUE, TRUE, 0, 2, 3),
   Ask(0, FALSE, TRUE, 0, 10, 0), Ask(0, FALSE, TRUE, 2, 6, 1), Ask(0, FALSE, TRUE, 4, 8, 1),
   Ask(0, FALSE, TRUE, 20, 6, 0), Ask(0, FALSE, TRUE, 22, 2, 1)}

\* A volume with a file of two clusters, a directory whose entries fill two,
\* deleted entries, long names, and free clusters at the end, the first of
\* which was a directory once.
Item(k, n, c) == [kind |-> k, name |-> n, cluster |-> c]
Gone == Item("deleted", "x", 0)
Fat == (2 :> EOC) @@ (3 :> 5) @@ (4 :> 6) @@ (5 :> EOC) @@ (6 :> EOC) @@ [c \in 7 .. 8 |-> 0]
Dirs ==
  (2 :> <<Item("file", "f", 4), Gone, Item("dir", "d", 3), EndEntry>>) @@
  (3 :> <<DotEntry(3), DotDotEntry(2), Item("long", "l", 0), Gone>>) @@
  (5 :> <<Gone, Gone, EndEntry, EndEntry>>) @@
  (7 :> <<DotEntry(7), DotDotEntry(2), Item("file", "f", 4), EndEntry>>) @@
  (8 :> [i \in 1 .. 4 |-> EndEntry])
FsInfo == [nxtFree |-> 7, freeCount |-> 2]

AnyThread == Permutations(FatThreads)

MCInit ==
  /\ part \in {"event", "keyboard", "network", "stacks", "cards", "disk", "files"}
  /\ ExEventInit /\ (part # "event" => EventType = "Notification" /\ ~Signaled)
  /\ KeyboardInitialize /\ NetInit /\ StInit /\ FatInit
  /\ StackInit /\ (part # "cards" => failAt = NoneWorks)
  /\ IoInit /\ (part # "stacks" => channels = OneMachine /\ Len(driverNames) = 4)
MCNext ==
  /\ UNCHANGED part
  /\ \/ part = "event" /\ ExEventNext
        /\ UNCHANGED <<keyboardVars, netVars, ioVars, stackVars, stVars, fatVars>>
     \/ part = "keyboard" /\ KeyboardNext
        /\ UNCHANGED <<exEventVars, netVars, ioVars, stackVars, stVars, fatVars>>
     \/ part = "network" /\ NetNext
        /\ UNCHANGED <<exEventVars, keyboardVars, ioVars, stackVars, stVars, fatVars>>
     \/ part = "stacks" /\ IoNext
        /\ UNCHANGED <<exEventVars, keyboardVars, netVars, stackVars, stVars, fatVars>>
     \/ part = "cards" /\ StackNext
        /\ UNCHANGED <<exEventVars, keyboardVars, netVars, ioVars, stVars, fatVars>>
     \/ part = "disk" /\ StNext
        /\ UNCHANGED <<exEventVars, keyboardVars, netVars, ioVars, stackVars, fatVars>>
     \/ part = "files" /\ FatNext
        /\ UNCHANGED <<exEventVars, keyboardVars, netVars, ioVars, stackVars, stVars>>
MCSpec == MCInit /\ [][MCNext]_<<part, exEventVars, keyboardVars, netVars, ioVars, stackVars, stVars, fatVars>>
=============================================================================
