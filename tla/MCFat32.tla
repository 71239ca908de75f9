------------------------------ MODULE MCFat32 -------------------------------
(* Sectors of two blocks and clusters of four sectors.  DISK0 has the        *)
(* clusters 3, 4 and 6, of which the last is not next to the others and not  *)
(* full; DISK1 has cluster 5; DISK2 has 7, 9 and 8.  The directory also      *)
(* holds entries that must not be found.                                     *)
EXTENDS Fat32

MCFat ==
  [c \in 0 .. 9 |-> CASE c = 3 -> 4 [] c = 4 -> 6 [] c = 7 -> 9 [] c = 9 -> 8 [] OTHER -> EndOfChain]

File(kind, names, cluster, size) ==
  [kind |-> kind, names |-> names, cluster |-> cluster, size |-> size]

MCDirectory ==
  << File("longname", {"DISK0"}, 0, 0),
     File("directory", {"DISK0", "disk0"}, 7, 0),
     File("deleted", {"DISK1", "disk1"}, 7, 8),
     File("file", {"DISK0", "disk0"}, 3, 21),
     File("file", {"DISK1", "disk1"}, 5, 8),
     File("file", {"DISK2", "disk2"}, 7, 24),
     File("end", {}, 0, 0),
     File("file", {"DISK2"}, 5, 8) >>

MCBlocks == 0 .. 68
MCBounceAt == 20
MCCells == 0 .. 40
MCValues == {<<"disk", b>> : b \in MCBlocks} \cup {<<"memory", a>> : a \in MCCells}

Request(write, file, offset, length) ==
  [write |-> write, file |-> file, offset |-> offset, length |-> length]

\* Calls that stay within clusters of DISK0 which follow each other.
WithinExtent(write, offsets, lengths) ==
  {c \in {Request(write, "DISK0", o, n) : o \in offsets, n \in lengths} :
     \E e \in {0 .. 15, 16 .. 23} : c.offset \in e /\ c.offset + c.length - 1 \in e}

\* Reads of any range, writes of whole sectors, and a read of whole clusters
\* that all lie apart.
MCCalls ==
  WithinExtent(FALSE, 0 .. 22, {1, 2, 3, 5, 8, 9, 15})
    \cup WithinExtent(TRUE, 0 .. 22, {2, 4, 10})
    \cup {Request(FALSE, "disk1", 0, 8), Request(TRUE, "disk1", 4, 4),
          Request(FALSE, "DISK2", 0, 16)}

\* Writes of whole sectors, whatever the clusters are.
MCAnyWrites == {Request(TRUE, "DISK0", o, n) : o \in {0, 4, 8, 12}, n \in {4, 8, 10}}

MCBlkRequests ==
  [write : BOOLEAN, block : MCBlocks, length : 0 .. 64, buffer : MCCells]
=============================================================================
