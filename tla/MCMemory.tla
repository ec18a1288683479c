------------------------------ MODULE MCMemory ------------------------------
(* Physical frames, address spaces, page tables and the heap: a behaviour  *)
(* is one of the four parts.  Memory maps have up to three regions, pages  *)
(* of two bytes, and 1 MB is frame 2.                                      *)
EXTENDS Pmm, VirtualMemory, Heap, Paging

VARIABLE part

Entry(b, l, t) == [BaseAddress |-> b, Length |-> l, Type |-> t, Valid |-> TRUE]
Ignored(b, l) == [BaseAddress |-> b, Length |-> l, Type |-> "UsableRAM", Valid |-> FALSE]

\* Low memory, then usable memory, a hole, reserved and usable memory in
\* several orders; an entry to ignore; a last region that is not whole pages.
FirstMap == <<Entry(0, 4, "UsableRAM"), Entry(4, 6, "UsableRAM"), Entry(12, 4, "UsableRAM")>>
AlignedMaps ==
  { FirstMap,
    <<Entry(4, 4, "UsableRAM"), Entry(8, 2, "Reserved"), Entry(10, 6, "UsableRAM")>>,
    <<Entry(4, 8, "UsableRAM"), Ignored(12, 4)>>,
    <<Entry(12, 3, "UsableRAM"), Entry(4, 4, "UsableRAM"), Entry(8, 4, "Reserved")>> }

HeapRequests == {[size |-> 1, alignment |-> 1], [size |-> 2, alignment |-> 4]}

\* The kernel's sections share pages, as its linker options have it; those
\* of a user program do not.  One image says that it has more than it has.
Image(alignment, subsystem, headers, sections, size) ==
  [mz |-> TRUE, pe |-> TRUE, machine |-> "amd64", subsystem |-> subsystem,
   relocations |-> FALSE, headers |-> headers, size |-> size,
   fileAlignment |-> alignment, imageAlignment |-> alignment, sections |-> sections]
Section(base, size, rights) == [base |-> base, size |-> size, rights |-> rights]

Hal9000Image == Image(2, "native", 2,
  <<Section(2, 6, {"x"}), Section(8, 2, {}), Section(10, 4, {"w"})>>, 14)
UserProgram == Image(4, "console", 4, <<Section(4, 8, {"x"}), Section(12, 4, {"w"})>>, 16)
Programs == {UserProgram, [UserProgram EXCEPT !.sections[2].size = 8]}

TableWidths == <<4, 16>>

\* Little memory, the last frame too; and a hole where the tables should be.
Firmware == {1 .. 19 \union {25}, 1 .. 25 \ {10}}
\* The threads of the address space are alike; there is no liveness here.
Symmetry == Permutations(VmThreads)

Buffers == {[page |-> 2, offset |-> 1, size |-> 6]}

MCInit ==
  /\ part \in {"frames", "spaces", "heap", "tables"}
  /\ Init /\ (part # "frames" => MemoryMap = FirstMap)
  /\ VmInit /\ HeapInit /\ PgInit /\ (part # "tables" => freeRam = 1 .. 25 \ {10})
MCNext ==
  /\ UNCHANGED part
  /\ \/ part = "frames" /\ Next /\ UNCHANGED <<vmVars, heapVars, pgVars>>
     \/ part = "spaces" /\ VmNext /\ UNCHANGED <<vars, heapVars, pgVars>>
     \/ part = "heap" /\ HeapNext /\ UNCHANGED <<vars, vmVars, pgVars>>
     \/ part = "tables" /\ PgNext /\ UNCHANGED <<vars, vmVars, heapVars>>
MCSpec == MCInit /\ [][MCNext]_<<part, vars, vmVars, heapVars, pgVars>>
=============================================================================
