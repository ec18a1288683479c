-------------------------------- MODULE Fat32 --------------------------------
(***************************************************************************)
(* The FAT32 driver (fat32.c, fat_operations.c, fat_utils.c) over a volume *)
(* and the file calls of io_files.c.  A sector's content is its number, so *)
(* a read yields the sectors it took.  A path is a sequence of names of at *)
(* most 8 characters, dot included; dates, sizes and attributes other than *)
(* directory are left out.  Creating a file is six transfers, between      *)
(* which other threads search, read, list and create: the driver has no    *)
(* lock.  A search, a read or a listing is one step.                       *)
(***************************************************************************)
EXTENDS Integers, Sequences, SequencesExt, FiniteSets, FiniteSetsExt, TLC

CONSTANTS
  FatThreads, FatNames,
  Clusters,            \* CountOfClusters: the clusters are 2 .. Clusters + 1
  SectorsPerCluster, FirstDataSector,
  EntriesPerCluster,   \* EntriesPerSector * SectorsPerCluster
  VolumeFat,           \* cluster -> next one, EOC or 0, as the volume is found
  VolumeDirs,          \* cluster -> its entries: of directories, and what is
                       \* left in free clusters
  VolumeFsInfo,        \* [nxtFree, freeCount]
  FatOffsets, FatLengths,  \* bounds: what is read, in sectors
  MaxPosition,         \* bound: the position up to which reads are made
  MaxCreated           \* bound: directory entries created

VARIABLES
  fat, dirs, fsInfo,
  fileObject,          \* per thread: its open file, or NoFile
  creating,            \* per thread: the create in progress
  created,             \* [path, dir]: the creates that were reported good
  readExact,           \* the last read or listing gave what the file has
  overlapped,          \* two threads have been creating at once
  fatHalted            \* an assertion failed

fatVars == <<fat, dirs, fsInfo, fileObject, creating, created, readExact, overlapped, fatHalted>>

EOC == 1000000
RootCluster == 2
AllClusters == 2 .. Clusters + 1
NoFile == [open |-> FALSE]
NotCreating == [pc |-> "idle"]
EndEntry == [kind |-> "end", name |-> "none", cluster |-> 0]
DotEntry(c) == [kind |-> "dir", name |-> ".", cluster |-> c]
DotDotEntry(c) == [kind |-> "dir", name |-> "..", cluster |-> IF c = RootCluster THEN 0 ELSE c]

\* FatInitVolume on a volume it accepts.
FatInit ==
  /\ fat = VolumeFat
  /\ dirs = VolumeDirs
  /\ fsInfo = VolumeFsInfo
  /\ fileObject = [t \in FatThreads |-> NoFile]
  /\ creating = [t \in FatThreads |-> NotCreating]
  /\ created = {}
  /\ readExact = TRUE
  /\ overlapped = FALSE
  /\ fatHalted = FALSE

(***************************************************************************)
(* Clusters, sectors and chains.                                           *)
(***************************************************************************)

FirstSectorOfCluster(c) == (c - 2) * SectorsPerCluster + FirstDataSector
ClusterOfSector(s) == (s - FirstDataSector) \div SectorsPerCluster + 2

\* NextSectorInClusterChain: 0 at the end of the chain, or for a free cluster.
NextSectorInClusterChain(s) ==
  LET next == fat[ClusterOfSector(s)]
  IN  IF next \in {0, EOC} THEN 0 ELSE FirstSectorOfCluster(next)

\* The clusters of the chain that starts in c.
Chain(c) ==
  LET step[n \in 0 .. Clusters] ==
        IF n = 0 THEN <<c>>
        ELSE LET prefix == step[n - 1]
                 next == fat[Last(prefix)]
             IN  IF next \in {0, EOC} THEN prefix ELSE Append(prefix, next)
  IN  step[Clusters]

Run(s, n) == [i \in 1 .. n |-> s + i - 1]
FileSectors(c) == FlattenSeq([i \in DOMAIN Chain(c) |->
                                Run(FirstSectorOfCluster(Chain(c)[i]), SectorsPerCluster)])

(***************************************************************************)
(* Directories.                                                            *)
(***************************************************************************)

\* The entries that the loop over one cluster looks at: it stops at the end
\* mark, which it does not look for in the first entry.
ScannedEntries(c) ==
  LET ends == {i \in 2 .. EntriesPerCluster : dirs[c][i].kind = "end"}
  IN  IF ends = {} THEN dirs[c] ELSE SubSeq(dirs[c], 1, Min(ends) - 1)

\* The whole walk.  Past the last entry of a cluster the loop tests the byte
\* after its buffer, the heap's tail mark, and takes the next cluster.
WalkedEntries(c) ==
  LET chain == Chain(c)
      stops == {i \in DOMAIN chain : Len(ScannedEntries(chain[i])) < EntriesPerCluster}
      walked == IF stops = {} THEN chain ELSE SubSeq(chain, 1, Min(stops))
  IN  FlattenSeq([i \in DOMAIN walked |-> ScannedEntries(walked[i])])

Named(e) == e.kind \in {"file", "dir"}

\* FatSearchDirectoryEntry: the first entry of that name, if its type fits.
FatSearchDirectoryEntry(c, name, kind) ==
  LET entries == WalkedEntries(c)
      i == SelectInSeq(entries, LAMBDA e : Named(e) /\ e.name = name)
  IN  IF i = 0 THEN [status |-> "not_found", cluster |-> 0]
      ELSE IF entries[i].kind # kind THEN [status |-> "type_invalid", cluster |-> 0]
      ELSE IF entries[i].cluster \notin AllClusters THEN [status |-> "invalid", cluster |-> 0]
      ELSE [status |-> "ok", cluster |-> entries[i].cluster]

\* FatSearch: component by component from the root.
FatSearch(path, kind) ==
  LET step(result, i) ==
        IF result.status # "ok" THEN result
        ELSE FatSearchDirectoryEntry(result.cluster, path[i],
                                     IF i = Len(path) THEN kind ELSE "dir")
  IN  IF path = <<>> /\ kind # "dir" THEN [status |-> "type_invalid", cluster |-> 0]
      ELSE FoldLeft(step, [status |-> "ok", cluster |-> RootCluster],
                    [i \in DOMAIN path |-> i])

(***************************************************************************)
(* FatReadFile: what is read from the file at base, and whether the        *)
(* assertion on the sector that was reached fails.                         *)
(***************************************************************************)

\* The sector the first loop reaches: 0 is the end of the chain.
ReachedSector(base, offset) ==
  LET chain == Chain(base)
      skip == offset \div SectorsPerCluster
  IN  IF skip < Len(chain) THEN FirstSectorOfCluster(chain[skip + 1]) + (offset % SectorsPerCluster)
      ELSE 0

\* One transfer per cluster, each of as many sectors as a cluster has.
ReadSectors(base, offset, count) ==
  LET transfer[n \in 0 .. count] ==
        IF n = 0 THEN [sector |-> ReachedSector(base, offset), data |-> <<>>]
        ELSE LET prev == transfer[n - 1]
                 size == Min({SectorsPerCluster, count - Len(prev.data)})
             IN  IF size = 0 \/ prev.sector = 0 THEN prev
                 ELSE [sector |-> NextSectorInClusterChain(prev.sector),
                       data |-> prev.data \o Run(prev.sector, size)]
  IN  transfer[count].data

\* The same from the file's sectors.
FileRange(base, offset, count) ==
  LET sectors == FileSectors(base)
  IN  SubSeq(sectors, offset + 1, Min({Len(sectors), offset + count}))

(***************************************************************************)
(* File calls.                                                             *)
(***************************************************************************)

FatPaths == UNION {[1 .. n -> FatNames] : n \in 0 .. 2}
Idle(t) == ~fatHalted /\ creating[t].pc = "idle"

\* IoCreateFile without Create, _FatDispatchCreate
IoOpenFile(t, path, kind) ==
  /\ Idle(t) /\ fileObject[t] = NoFile
  /\ FatSearch(path, kind).status = "ok"
  /\ fileObject' = [fileObject EXCEPT ![t] =
       [open |-> TRUE, cluster |-> FatSearch(path, kind).cluster, kind |-> kind, position |-> 0]]
  /\ UNCHANGED <<fat, dirs, fsInfo, creating, created, readExact, overlapped, fatHalted>>

\* IoCloseFile, _FatDispatchClose
IoCloseFile(t) ==
  /\ Idle(t) /\ fileObject[t].open
  /\ fileObject' = [fileObject EXCEPT ![t] = NoFile]
  /\ UNCHANGED <<fat, dirs, fsInfo, creating, created, readExact, overlapped, fatHalted>>

\* IoReadFile and _FatDispatchRead: with no offset given from the position,
\* which advances by what was read either way.
IoReadFile(t, given, offset, count) ==
  LET file == fileObject[t]
      from == IF given THEN offset ELSE file.position
      data == ReadSectors(file.cluster, from, count)
      reached == ReachedSector(file.cluster, from)
      atEnd == from \div SectorsPerCluster = Len(Chain(file.cluster))
  IN  /\ Idle(t) /\ file.open /\ file.position <= MaxPosition
      /\ (~given => offset = 0)
      /\ fatHalted' = (reached = 0 /\ atEnd)
      /\ IF reached = 0
         THEN UNCHANGED <<readExact, fileObject>>
         ELSE /\ readExact' = (data = FileRange(file.cluster, from, count))
              /\ fileObject' = [fileObject EXCEPT ![t].position = @ + Len(data)]
      /\ UNCHANGED <<fat, dirs, fsInfo, creating, created, overlapped>>

\* IoQueryDirectoryFile, FatQueryDirectory: every named entry of the walk;
\* the directory has the named entries of all its clusters.
AllEntries(c) == FlattenSeq([i \in DOMAIN Chain(c) |-> dirs[Chain(c)[i]]])
IoQueryDirectoryFile(t) ==
  LET c == fileObject[t].cluster
  IN  /\ Idle(t) /\ fileObject[t].open /\ fileObject[t].kind = "dir"
      /\ readExact' = (SelectSeq(WalkedEntries(c), Named) = SelectSeq(AllEntries(c), Named))
      /\ UNCHANGED <<fat, dirs, fsInfo, fileObject, creating, created, overlapped, fatHalted>>

(***************************************************************************)
(* FatCreateDirectoryEntry.                                                *)
(***************************************************************************)

\* Steps 1 to 4: the parent, which is never the root itself, the check that
\* the name is new, and a free entry in the parent's last cluster as it is read.
FreeEntries(c) ==
  {i \in 1 .. EntriesPerCluster : dirs[c][i].kind \in {"end", "deleted"}}
Creators == {t \in FatThreads : creating[t].pc # "idle"}
FatCreateDirectoryEntry(t, path, kind) ==
  LET parent == FatSearch(Front(path), "dir")
      last == Last(Chain(parent.cluster))
  IN  /\ Idle(t) /\ fileObject[t] = NoFile
      /\ Len(path) > 1 /\ Cardinality(created) + Cardinality(Creators) < MaxCreated
      /\ parent.status = "ok"
      /\ FatSearch(path, "file").status \notin {"ok", "type_invalid"}
      /\ FreeEntries(last) # {}
      /\ creating' = [creating EXCEPT ![t] =
           [pc |-> "space", path |-> path, kind |-> kind, parent |-> parent.cluster,
            last |-> last, slot |-> Min(FreeEntries(last)), entries |-> dirs[last]]]
      /\ overlapped' = (overlapped \/ Creators # {})
      /\ UNCHANGED <<fat, dirs, fsInfo, fileObject, created, readExact, fatHalted>>

Step(t, pc, next) ==
  /\ ~fatHalted /\ creating[t].pc = pc
  /\ creating' = [creating EXCEPT ![t].pc = next]

\* Step 7: the cluster comes from FSInfo, unless it says that none is free.
ReadFsInfo(t) ==
  /\ ~fatHalted /\ creating[t].pc = "space"
  /\ creating' = [creating EXCEPT ![t] =
       IF fsInfo.freeCount = 0 THEN NotCreating
       ELSE ("pc" :> "fsinfo") @@ ("cluster" :> fsInfo.nxtFree) @@ ("freeCount" :> fsInfo.freeCount) @@ @]
  /\ UNCHANGED <<fat, dirs, fsInfo, fileObject, created, readExact, overlapped, fatHalted>>

(* Mutant: FSInfo is written back without the step to the next cluster. *)
WriteFsInfo_SameCluster(t) ==
  /\ Step(t, "fsinfo", "entry")
  /\ fsInfo' = [nxtFree |-> creating[t].cluster, freeCount |-> creating[t].freeCount - 1]
  /\ UNCHANGED <<fat, dirs, fileObject, created, readExact, overlapped, fatHalted>>

\* Step 9: the next free cluster is taken to be the one that follows.
WriteFsInfo(t) ==
  /\ Step(t, "fsinfo", "entry")
  /\ fsInfo' = [nxtFree |-> creating[t].cluster + 1, freeCount |-> creating[t].freeCount - 1]
  /\ UNCHANGED <<fat, dirs, fileObject, created, readExact, overlapped, fatHalted>>

\* The cluster of the parent, as it was read, with the new entry.
WriteParentEntry(t) ==
  LET c == creating[t]
      new == [kind |-> c.kind, name |-> Last(c.path), cluster |-> c.cluster]
  IN  /\ Step(t, "entry", "data")
      /\ dirs' = [dirs EXCEPT ![c.last] = [c.entries EXCEPT ![c.slot] = new]]
      /\ UNCHANGED <<fat, fsInfo, fileObject, created, readExact, overlapped, fatHalted>>

\* The new cluster is zeroed; a directory gets its two first entries.  A
\* cluster that does not exist fails the call here.
WriteDataCluster(t) ==
  LET c == creating[t]
      empty == [i \in 1 .. EntriesPerCluster |-> EndEntry]
      content == IF c.kind = "dir"
                 THEN [empty EXCEPT ![1] = DotEntry(c.cluster), ![2] = DotDotEntry(c.parent)]
                 ELSE empty
  IN  /\ c.pc = "data"
      /\ IF c.cluster \in AllClusters
         THEN Step(t, "data", "fat") /\ dirs' = (c.cluster :> content) @@ dirs
         ELSE creating' = [creating EXCEPT ![t] = NotCreating] /\ UNCHANGED dirs
      /\ UNCHANGED <<fat, fsInfo, fileObject, created, readExact, overlapped, fatHalted>>

\* The FAT entry of the new cluster ends its chain.
WriteFat(t) ==
  LET c == creating[t]
  IN  /\ Step(t, "fat", "open")
      /\ fat' = [fat EXCEPT ![c.cluster] = EOC]
      /\ created' = created \union {[path |-> c.path, kind |-> c.kind]}
      /\ UNCHANGED <<dirs, fsInfo, fileObject, readExact, overlapped, fatHalted>>

\* What a file object refers to once the path is found.
Opened(found, kind) ==
  IF found.status = "ok"
  THEN [open |-> TRUE, cluster |-> found.cluster, kind |-> kind, position |-> 0]
  ELSE NoFile

\* The search after a creation opens the new entry.
OpenCreated(t) ==
  LET c == creating[t]
  IN  /\ ~fatHalted /\ c.pc = "open"
      /\ fileObject' = [fileObject EXCEPT ![t] = Opened(FatSearch(c.path, c.kind), c.kind)]
      /\ creating' = [creating EXCEPT ![t] = NotCreating]
      /\ UNCHANGED <<fat, dirs, fsInfo, created, readExact, overlapped, fatHalted>>

\* _FatDispatchCreate, with the flag Create and without.
FatDispatchCreate(t) ==
  \/ \E path \in FatPaths, kind \in {"file", "dir"} :
       IoOpenFile(t, path, kind) \/ FatCreateDirectoryEntry(t, path, kind)
  \/ ReadFsInfo(t) \/ WriteFsInfo(t) \/ WriteParentEntry(t) \/ WriteDataCluster(t)
  \/ WriteFat(t) \/ OpenCreated(t)

FatDispatchClose(t) == IoCloseFile(t)

FatDispatchRead(t) ==
  \E given \in BOOLEAN, offset \in FatOffsets, count \in FatLengths :
    IoReadFile(t, given, offset, count)

FatDispatchDirectoryControl(t) == IoQueryDirectoryFile(t)

FatNext ==
  \E t \in FatThreads :
    \/ FatDispatchCreate(t) \/ FatDispatchClose(t)
    \/ FatDispatchRead(t) \/ FatDispatchDirectoryControl(t)

(***************************************************************************)
(* Properties.                                                             *)
(***************************************************************************)

\* FatReadFile returns the sectors of the file's chain at the offset asked
\* for, as many as the file has there, and FatQueryDirectory every entry of
\* the directory.
ReadReturnsFile == readExact

\* The entries of files and directories, not those that link back nor those
\* left in clusters that no chain has.
OwningEntries ==
  {o \in UNION {{<<c, i>> : i \in DOMAIN dirs[c]} : c \in {d \in DOMAIN dirs : fat[d] # 0}} :
     LET e == dirs[o[1]][o[2]]
     IN  Named(e) /\ e.name \notin {".", ".."} /\ e.cluster \in AllClusters}
OwnedBy(o) == ToSet(Chain(dirs[o[1]][o[2]].cluster))

\* No cluster belongs to two files: what FatCreateDirectoryEntry allocates
\* is not part of another chain, whatever was created before it.
ClustersNotShared ==
  \A o \in OwningEntries :
    /\ RootCluster \notin OwnedBy(o)
    /\ \A p \in OwningEntries \ {o} : OwnedBy(o) \intersect OwnedBy(p) = {}

\* A file or directory whose creation was reported is found by its path,
\* with its type, whatever was created around it and also when its parent's
\* entries go over a cluster.
CreatedIsFound == \A c \in created : FatSearch(c.path, c.kind).status = "ok"

\* What FatCreateDirectoryEntry leaves on the volume.
VolumeSound == ClustersNotShared /\ CreatedIsFound

\* What FatReadFile returns and what FatCreateDirectoryEntry leaves behind, while
\* other threads open, read, list and close between its transfers: reads give
\* the file, and as long as one thread creates at a time, creations are found
\* and take no cluster of another entry.
FileSystemSound == ReadReturnsFile /\ (overlapped \/ VolumeSound)
===============================================================================
