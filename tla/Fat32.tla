------------------------------- MODULE Fat32 --------------------------------
(***************************************************************************)
(* The file system of src/fat32.rs on top of the disk driver: mounting,    *)
(* the search of a file in the root directory, read and write.  The lock   *)
(* VIRTIO_BLK is held during a call, so the disk is its only counterpart.  *)
(* Lengths count blocks of 512 bytes (lba_size), of which a sector has     *)
(* BytesPerSector.                                                         *)
(***************************************************************************)
EXTENDS VirtioBlk, Sequences, SequencesExt

CONSTANTS
  BaseLba,        \* where the partition starts
  BytesPerSector, SectorsPerCluster, ReservedSectors, FatSectors, NumberOfFats,
  Fat,            \* the file allocation table: a cluster to its entry
  Directory,      \* the entries of the first cluster of the root directory
  Calls,          \* the calls clients make: [write, file, offset, length]
  MaxCalls,       \* bound on the number of calls
  BounceAt        \* where allocate_pages puts the bounce buffer of read

ASSUME Fat32Assumption ==
  /\ {BytesPerSector, SectorsPerCluster} \subseteq Nat \ {0}
  /\ {BaseLba, ReservedSectors, FatSectors, NumberOfFats, MaxCalls, BounceAt} \subseteq Nat
  /\ None \notin Calls

VARIABLES
  mount,     \* how far init_fat32 has come
  pages,     \* what it holds from allocate_pages
  op,        \* the variables of read and write, while one of them runs
  call,      \* the call that runs, or None
  answer,    \* what the last call returned
  calls      \* how many were made (bound)

vars == <<blkVars, mount, pages, op, call, answer, calls>>

BytesPerCluster == SectorsPerCluster * BytesPerSector
NoOp == [pc |-> "idle"]

cluster_to_sector(cluster) ==
  ReservedSectors + NumberOfFats * FatSectors + (cluster - 2) * SectorsPerCluster

\* Stands for 0x0FFFFFF8: an entry below it names the next cluster.
EndOfChain == 2^27

get_next_cluster_adjacent(cluster) ==
  IF cluster \in DOMAIN Fat /\ Fat[cluster] \in 2 .. EndOfChain - 1 THEN cluster + 1 ELSE None

get_next_cluster(cluster) ==
  IF cluster \in DOMAIN Fat /\ Fat[cluster] \in 2 .. EndOfChain - 1 THEN Fat[cluster] ELSE None

\* search_file: up to the end mark, the first entry of a file that is not deleted
\* and has the name, as it is or in lower case.
search_file(name) ==
  LET end == {k \in DOMAIN Directory : Directory[k].kind = "end"}
      found == {k \in DOMAIN Directory :
                  /\ Directory[k].kind = "file" /\ name \in Directory[k].names
                  /\ \A e \in end : k < e}
  IN  IF found = {} THEN None
      ELSE Directory[CHOOSE k \in found : \A j \in found : k <= j]

-----------------------------------------------------------------------------
(* init_fat32 and Fat32::new: the partition table, the parameters, the file     *)
(* allocation table and the root directory (cluster 2) are read one by one.     *)

fsVars == <<mount, pages, op, call, answer, calls>>

Block(sector) == BaseLba + sector * BytesPerSector

MountRead ==
  /\ mount \in {"mbr", "bpb", "fat", "root"} /\ op = NoOp
  /\ operation_sync([write |-> FALSE, buffer |-> BounceAt,
       block |-> CASE mount = "mbr" -> 0
                   [] mount = "bpb" -> BaseLba
                   [] mount = "fat" -> Block(ReservedSectors)
                   [] mount = "root" -> Block(cluster_to_sector(2)),
       length |-> CASE mount = "fat" -> FatSectors * BytesPerSector
                    [] mount = "root" -> BytesPerCluster
                    [] OTHER -> 1])
  /\ pages' = pages \cup ({mount} \cap {"fat", "root"})
  /\ op' = [pc |-> "mount"]
  /\ UNCHANGED <<mount, call, answer, calls>>

After == [mbr |-> "bpb", bpb |-> "fat", fat |-> "root", root |-> "done"]

\* A failure frees what was allocated and the caller panics; so does a bad
\* signature in one of the first two blocks.
MountReturn ==
  /\ op.pc = "mount" /\ caller.pc = "idle"
  /\ \/ result = "Ok" /\ mount' = After[mount] /\ UNCHANGED pages
     \/ /\ result = "Err" \/ mount \in {"mbr", "bpb"}
        /\ mount' = "failed"
        /\ pages' = {}
  /\ op' = NoOp
  /\ UNCHANGED <<blkVars, call, answer, calls>>

-----------------------------------------------------------------------------
(* read and write *)

Start(c) ==
  /\ mount = "done" /\ call = None /\ calls < MaxCalls
  /\ call' = c
  /\ op' = [pc |-> "begin"]
  /\ calls' = calls + 1
  /\ UNCHANGED <<blkVars, mount, pages, answer>>

Finish(a) ==
  /\ answer' = a
  /\ call' = None
  /\ op' = NoOp

Err == <<"Err", 0>>

\* A pass of the outer loop begins at the cluster reached so far.
Outer(o, cluster) ==
  [o EXCEPT !.pc = "count", !.cluster = cluster, !.first = cluster, !.backup = o.data_offset,
            !.sectors = 0, !.bytes = 0, !.sector_offset = 0]

\* The range is cut at the end of the file.
Begin ==
  LET file == search_file(call.file)
      over == call.offset + call.length > file.size
      skip == call.offset \div BytesPerCluster
  IN  /\ op.pc = "begin"
      /\ IF over /\ call.offset >= file.size
         THEN Finish(<<"Ok", 0>>)
         ELSE /\ op' = [pc |-> "skip", skip |-> skip, cluster |-> file.cluster,
                        first |-> file.cluster, pointer |-> 0, sectors |-> 0, bytes |-> 0,
                        sector_offset |-> 0, backup |-> 0,
                        data_offset |-> call.offset - skip * BytesPerCluster,
                        length |-> IF over THEN file.size - call.offset ELSE call.length]
              /\ UNCHANGED <<call, answer>>
      /\ UNCHANGED <<blkVars, mount, pages, calls>>

\* The loop over clusters_to_skip.
Skip ==
  /\ op.pc = "skip"
  /\ IF op.skip = 0
     THEN op' = Outer(op, op.cluster) /\ UNCHANGED <<call, answer>>
     ELSE IF get_next_cluster(op.cluster) = None THEN Finish(Err)
     ELSE /\ op' = [op EXCEPT !.skip = @ - 1, !.cluster = get_next_cluster(@)]
          /\ UNCHANGED <<call, answer>>
  /\ UNCHANGED <<blkVars, mount, pages, calls>>

TooShort_orEqual(length) == call.write /\ length <= BytesPerSector

\* A write stops when less than a sector is left.
TooShort(length) == call.write /\ length < BytesPerSector

\* A pass of the inner loop: whole clusters are counted as long as they follow
\* each other, the rest is counted in sectors.  (length is the whole length of
\* the call, also when earlier transfers have moved a part of it.)
Count ==
  LET skipped == IF op.data_offset > BytesPerSector THEN op.data_offset \div BytesPerSector ELSE 0
      offset == op.data_offset - skipped * BytesPerSector
      o == IF skipped = 0 THEN op
           ELSE [op EXCEPT !.sector_offset = skipped, !.data_offset = offset, !.backup = offset]
      left == op.length - op.bytes + offset
      next == get_next_cluster(op.cluster)
      whole == [o EXCEPT !.sectors = @ + SectorsPerCluster, !.bytes = @ + BytesPerCluster - offset]
  IN  /\ op.pc = "count"
      /\ IF \/ TooShort(op.length - op.bytes)
            \/ left > BytesPerCluster /\ next = None
         THEN Finish(Err)
         ELSE /\ op' = IF left <= BytesPerCluster
                       THEN [o EXCEPT !.pc = "transfer", !.bytes = op.length,
                               !.sectors = @ + 1 + (IF left = 0 THEN 0 ELSE left - 1) \div BytesPerSector]
                       ELSE IF next # op.cluster + 1
                       THEN [whole EXCEPT !.pc = "transfer"]
                       ELSE [whole EXCEPT !.data_offset = 0, !.cluster = next]
              /\ UNCHANGED <<call, answer>>
      /\ UNCHANGED <<blkVars, mount, pages, calls>>

\* read_sectors or write_sectors.  A read that starts inside a sector goes
\* through a buffer of its own, for which there may be no memory; such a write
\* is refused.
Transfer ==
  LET offset == op.backup
      sector == cluster_to_sector(op.first) + op.sector_offset
  IN  /\ op.pc = "transfer"
      /\ \/ /\ offset # 0
            /\ Finish(Err)
            /\ UNCHANGED <<blkVars, pages>>
         \/ /\ offset = 0 \/ ~call.write
            /\ operation_sync([write |-> call.write, block |-> Block(sector),
                               length |-> op.sectors * BytesPerSector,
                               buffer |-> IF offset = 0 THEN op.pointer ELSE BounceAt])
            /\ pages' = IF offset = 0 THEN pages ELSE pages \cup {"bounce"}
            /\ op' = [op EXCEPT !.pc = "io", !.data_offset = offset]
            /\ UNCHANGED <<call, answer>>
      /\ UNCHANGED <<mount, calls>>

FreeBounce_onSuccess == pages' = IF result = "Ok" THEN pages \ {"bounce"} ELSE pages

\* free_pages of the bounce buffer, if there is one.
FreeBounce == pages' = pages \ {"bounce"}

\* The transfer has ended: its buffer is copied and freed, and the call returns
\* or goes on with the next cluster.
Complete ==
  LET copied == result = "Ok" /\ op.data_offset # 0
      pointer == op.pointer + op.bytes
      next == get_next_cluster(op.cluster)
  IN  /\ op.pc = "io" /\ caller.pc = "idle"
      /\ memory' = [a \in Cells |-> IF copied /\ a < op.bytes
                                    THEN memory[BounceAt + op.data_offset + a] ELSE memory[a]]
      /\ FreeBounce
      /\ IF result = "Err" \/ (pointer # op.length /\ next = None) THEN Finish(Err)
         ELSE IF pointer = op.length THEN Finish(<<"Ok", pointer>>)
         ELSE /\ op' = Outer([op EXCEPT !.data_offset = 0, !.pointer = pointer], next)
              /\ UNCHANGED <<call, answer>>
      /\ UNCHANGED <<driverVars, status, device, disk, mount, calls>>

-----------------------------------------------------------------------------
Init ==
  /\ BlkInit
  /\ disk = [b \in Blocks |-> <<"disk", b>>] /\ memory = [a \in Cells |-> <<"memory", a>>]
  /\ mount = "mbr" /\ pages = {} /\ op = NoOp
  /\ call = None /\ answer = Err /\ calls = 0

Step == MountRead \/ MountReturn \/ Begin \/ Skip \/ Count \/ Transfer \/ Complete

Next ==
  \/ Step
  \/ \E c \in Calls : Start(c)
  \/ (Driver \/ Device) /\ UNCHANGED fsVars

\* The processor goes on with a call and the disk with a request; nobody has to
\* make a call.
Fairness ==
  /\ WF_vars(Step)
  /\ WF_vars(Driver /\ UNCHANGED fsVars)
  /\ WF_vars(Device /\ UNCHANGED fsVars)

Spec == Init /\ [][Next]_vars /\ Fairness

-----------------------------------------------------------------------------
(* The files, as the directory and the table describe them *)

Names == {c.file : c \in Calls}

\* The live entry of a name: no file has two of them.
Entry(f) ==
  LET end == CHOOSE k \in DOMAIN Directory : Directory[k].kind = "end"
  IN  CHOOSE e \in Range(SubSeq(Directory, 1, end)) : e.kind = "file" /\ f \in e.names

FileSize == [f \in Names |-> Entry(f).size]

\* The blocks of file f in order, up to the end of its last sector.
FileBlocks ==
  [f \in Names |->
     LET chain[k \in Nat] == IF k = 0 THEN Entry(f).cluster ELSE Fat[chain[k - 1]]
         end == ((FileSize[f] + BytesPerSector - 1) \div BytesPerSector) * BytesPerSector
     IN  [k \in 0 .. end - 1 |->
            Block(cluster_to_sector(chain[k \div BytesPerCluster])) + (k % BytesPerCluster)]]

\* The file system implements a plain store of files: a call moves the blocks of
\* its file that it names and no others, also when the disk fails half-way.  This
\* holds for calls within clusters that follow each other, and for reads of whole
\* clusters; TransfersOwnBlocks is about the others.
Store == INSTANCE FileStore WITH
  Size <- FileSize,
  Sector <- BytesPerSector,
  contents <- [f \in Names |-> [k \in 0 .. FileSize[f] - 1 |-> disk[FileBlocks[f][k]]]],
  rest <- [b \in Blocks \ UNION {Range(FileBlocks[f]) : f \in Names} |-> disk[b]],
  buffer <- [a \in 0 .. BounceAt - 1 |-> memory[a]]

ImplementsFileStore == Store!Spec

\* A transfer under way moves the blocks of the file from the place the call has
\* reached on: clusters that do not follow each other on the disk ("クラスタが連続
\* していない") are transferred one by one.
TransfersOwnBlocks ==
  op.pc = "io" /\ request # None =>
    \A k \in 0 .. request.length - 1 :
      LET place == call.offset + op.pointer - op.data_offset + k
      IN  place \in DOMAIN FileBlocks[call.file] =>
            request.block + k = FileBlocks[call.file][place]

\* A write of whole sectors is refused only where the code cannot tell one whole
\* sector from a part of one: when it starts at the second sector of a cluster.
RefusedAtSecondSector ==
  [][ /\ call # None /\ call.write /\ call' = None
      /\ op.pc # "io" /\ answer' = Err
      /\ call.offset % BytesPerSector = 0
      /\ Store!Moved(call) % BytesPerSector = 0
      => call.offset % BytesPerCluster = BytesPerSector ]_vars

\* Every page taken on the way is given back: between calls only the table and
\* the directory are held, and after a mount that failed nothing.
PagesReturned ==
  op = NoOp => pages = CASE mount = "done" -> {"fat", "root"}
                         [] mount = "root" -> {"fat"}
                         [] OTHER -> {}

\* A call, and a read of the mounting, ends if the disk answers, unless the
\* driver has panicked: operation_sync spins without a limit.
CallsReturn == op # NoOp ~> op = NoOp \/ caller.pc = "panic"
=============================================================================
