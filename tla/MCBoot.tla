------------------------------- MODULE MCBoot -------------------------------
(* Machines like QEMU's virt with three CPUs, and variations of their trees. *)
EXTENDS Boot

Str(name, s, len) == [name |-> name, len |-> len, cells |-> <<>>, strs |-> s]
Num(name, cells) == [name |-> name, len |-> 4 * Len(cells), cells |-> cells, strs |-> {}]
Deleted == [name |-> "NOP", len |-> 5, cells |-> <<>>, strs |-> {}]
Node(id, name, len, props, kids) ==
  [id |-> id, name |-> name, len |-> len, props |-> props, kids |-> kids]

CellProps(a, s) == <<Num("#address-cells", <<a>>), Num("#size-cells", <<s>>)>>
Memory == Node(1, "memory", 16, <<Num("reg", <<0, 4096, 0, 512>>)>>, <<>>)
Cpu(id, affinity, kids) == Node(id, "cpu", 6, <<Num("reg", <<affinity>>)>>, kids)
Cache(id) == Node(id, "l2-cache", 9, <<Str("compatible", {"cache"}, 6)>>, <<>>)
Pl011With(id, status, base, interrupts) ==
  Node(id, "pl011", 14,
    <<Str("compatible", {"arm,pl011", "arm,primecell"}, 24), Str("status", {status}, Len(status) + 1),
      Num("reg", <<0, base, 0, 4>>), Num("interrupts", interrupts)>>, <<>>)
Pl011(id, status, base) == Pl011With(id, status, base, <<0, 1, 4>>)
Rtc == Node(30, "pl031", 14, <<Deleted, Str("compatible", {"arm,pl031"}, 10)>>, <<>>)
GicWith(cells, length) ==
  Node(20, "intc", 13, cells \o
    <<Str("compatible", {"arm,gic-v3"}, 11), Num("reg", <<0, 128, 0, 64, 0, 160, 0, length>>)>>,
    <<Node(21, "its", 12, <<Num("reg", <<0, 144, 0, 128>>)>>, <<>>)>>)
Gic(length) == GicWith(CellProps(2, 2), length)
Timer ==
  Node(22, "timer", 6, <<Deleted, Str("compatible", {"arm,armv8-timer"}, 16),
    Num("interrupts", <<1, 13, 4, 1, 14, 4, 1, 11, 4, 1, 10, 4>>)>>, <<>>)
Virtio(id, status, base) ==
  Node(id, "virtio_mmio", 20, <<Num("reg", <<0, base, 0, 1>>),
    Str("compatible", {"virtio,mmio"}, 12), Str("status", {status}, 9)>>, <<>>)

\* The serial ports: one, a disabled one before it, something in between, none.
Serials ==
  { <<Pl011(31, "okay", 9000)>>,
    <<Pl011(31, "disabled", 9000), Pl011(32, "okay", 9004)>>,
    <<Pl011(31, "disabled", 9000), Rtc, Pl011(32, "okay", 9004)>>,
    <<Pl011(31, "disabled", 9000)>> }
\* The CPUs: side by side, below a map, with a cache in between, with a subnode.
CpuLists ==
  { <<Cpu(11, 0, <<>>), Cpu(12, 1, <<>>), Cpu(13, 256, <<>>)>>,
    <<Node(14, "cpu-map", 8, <<>>, <<Node(15, "core0", 6, <<>>, <<>>)>>),
      Cpu(11, 0, <<>>), Cpu(12, 1, <<>>), Cpu(13, 256, <<>>)>>,
    <<Cpu(11, 0, <<>>), Cpu(12, 1, <<>>), Cache(16), Cpu(13, 256, <<>>)>>,
    <<Cpu(11, 0, <<>>), Cpu(12, 1, <<Cache(16)>>), Cpu(13, 256, <<>>)>> }
Disks(status) ==
  <<Virtio(40, status, 10000), Virtio(41, "okay", 10001), Virtio(42, "okay", 10002)>>
Tree(serials, cpus, others) ==
  Node(0, "", 1, CellProps(2, 2) \o <<Str("compatible", {"linux,dummy-virt"}, 17)>>,
    <<Node(10, "cpus", 5, CellProps(1, 0), cpus)>> \o serials \o others)

\* Complete machines, and some that lack a part: redistributors, disk, timer, GIC
\* or memory.
Complete ==
  {Tree(s, c, <<Gic(384)>> \o Disks(k) \o <<Timer, Memory>>) :
     s \in Serials, c \in CpuLists, k \in {"okay", "disabled"}}
Incomplete ==
  {Tree(<<Pl011(31, "okay", 9000)>>, <<Cpu(11, 0, <<>>), Cpu(12, 1, <<>>)>>, others) :
     others \in { <<Memory, Gic(256), Timer>> \o Disks("okay"),
                  <<Memory, Gic(384), Timer, Virtio(41, "okay", 10001)>>,
                  <<Memory, Gic(384)>> \o Disks("okay"), <<Memory, Timer>>, <<Gic(384), Timer>> }}
\* A serial port whose interrupt is edge triggered, which main does not use.
EdgeSerial ==
  Tree(<<Pl011With(31, "okay", 9000, <<0, 1, 1>>)>>, <<Cpu(11, 0, <<>>), Cpu(12, 1, <<>>)>>,
       <<Memory, Gic(384), Timer>> \o Disks("okay"))
\* Nodes that set other cells for their subnodes than their parent does for them, a
\* used serial port, a disabled one before it and the GIC; and a bus that states
\* no cells, so that 2 and 1 apply below it.
OtherCells(n) == [n EXCEPT !.props = CellProps(1, 1) \o @]
Bus ==
  Node(33, "bus", 4, <<>>,
    <<Node(31, "pl011", 14, <<Str("compatible", {"arm,pl011"}, 10),
        Num("reg", <<0, 9000, 4, 0, 9008, 4>>), Num("interrupts", <<0, 1, 4>>)>>, <<>>)>>)
CellTrees ==
  {Tree(serials, <<Cpu(11, 0, <<>>), Cpu(12, 1, <<>>)>>, <<Memory, intc, Timer>> \o Disks("okay")) :
     serials \in { <<OtherCells(Pl011(31, "okay", 9000))>>, <<Bus>>,
                  <<OtherCells(Pl011(31, "disabled", 9000)), Pl011(32, "okay", 9004)>> },
     intc \in {Gic(384), GicWith(CellProps(1, 1), 384)}}
MCTrees == Complete \cup Incomplete \cup {EdgeSerial} \cup CellTrees
MCIntIds == {11, 25, 27, 33, 34, 65}
MCAff3 == [c \in 0 .. 2 |-> 0]
MCAffLow == [c \in 0 .. 2 |-> IF c = 2 THEN 256 ELSE c]
MCFrameOrder == <<2, 0, 1>>
=============================================================================
