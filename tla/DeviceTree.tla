----------------------------- MODULE DeviceTree -----------------------------
(***************************************************************************)
(* The flattened device tree and the parser of src/dtb.rs.  A blob dt is   *)
(* the sequence of the 32 bit words of its structure block, pointers count *)
(* bytes from its start.  A word has a token (DATA if it is none of the    *)
(* format's), a number and, at the start of a string or of a list of       *)
(* strings, the strings.                                                   *)
(***************************************************************************)
EXTENDS Integers, Sequences, SequencesExt

CONSTANT WordBase   \* stands for 2^32, what a cell is worth to the next one

ASSUME DeviceTreeAssumption == WordBase \in Nat \ {0}

FDT_TOKEN_BYTE == 4
DEFAULT_CELLS == [address |-> 2, size |-> 1]

-----------------------------------------------------------------------------
(* The format: a tree is a node with properties and subnodes; a property that *)
(* the firmware has deleted is overwritten with NOPs.                         *)

Word(tok, num, strs) == [tok |-> tok, num |-> num, strs |-> strs]
Token(tok) == Word(tok, 0, {})
WordsOf(bytes) == (bytes + FDT_TOKEN_BYTE - 1) \div FDT_TOKEN_BYTE

FlatProperty(p) ==
  IF p.name = "NOP" THEN [k \in 1 .. 3 + WordsOf(p.len) |-> Token("NOP")]
  ELSE <<Token("PROP"), Word("DATA", p.len, {}), Word("DATA", 0, {p.name})>>
       \o [k \in 1 .. WordsOf(p.len) |->
             Word("DATA", IF k \in DOMAIN p.cells THEN p.cells[k] ELSE 0, p.strs)]

\* The words of a name carry the identity of the node.
RECURSIVE FlatNode(_)
FlatNode(n) ==
  <<Token("BEGIN_NODE")>>
  \o [k \in 1 .. WordsOf(n.len) |-> Word("DATA", n.id, {n.name})]
  \o FlattenSeq([k \in DOMAIN n.props |-> FlatProperty(n.props[k])])
  \o FlattenSeq([k \in DOMAIN n.kids |-> FlatNode(n.kids[k])])
  \o <<Token("END_NODE")>>

Flat(tree) == FlatNode(tree) \o <<Token("END")>>

-----------------------------------------------------------------------------
(* Reading words *)

\* read_node refuses addresses behind the structure block.
Behind == Token("ERR")
read_node(dt, p) ==
  IF p < FDT_TOKEN_BYTE * Len(dt) THEN dt[p \div FDT_TOKEN_BYTE + 1] ELSE Behind

RECURSIVE skip_nop(_, _)
skip_nop(dt, p) ==
  IF read_node(dt, p).tok = "NOP" THEN skip_nop(dt, p + FDT_TOKEN_BYTE) ELSE p

skip_padding(p) == ((p - 1) \div FDT_TOKEN_BYTE) * FDT_TOKEN_BYTE + FDT_TOKEN_BYTE

\* Where a loop over the contents of a node finds its next token.
NextToken(dt, p) == skip_nop(dt, skip_padding(p))

\* The parts of the property whose token is at p.
PropLen(dt, p) == read_node(dt, p + FDT_TOKEN_BYTE).num
PropName(dt, p) == read_node(dt, p + 2 * FDT_TOKEN_BYTE).strs
PropValue(p) == p + 3 * FDT_TOKEN_BYTE
PropEnd(dt, p) == PropValue(p) + PropLen(dt, p)

compare_name_segment(dt, p, name) == name \in PropName(dt, p)

check_address_and_size_cells(dt, p, cells) ==
  LET n == read_node(dt, PropValue(p)).num
  IN  IF compare_name_segment(dt, p, "#address-cells") THEN [cells EXCEPT !.address = n]
      ELSE IF compare_name_segment(dt, p, "#size-cells") THEN [cells EXCEPT !.size = n]
      ELSE cells

\* A node name is compared up to its '@'; whatever the result is, the pointer
\* ends up behind the name and its padding.
compare_string(dt, p, name) == name \in read_node(dt, p).strs
RECURSIVE AfterString(_, _)
AfterString(dt, p) ==
  IF read_node(dt, p).tok = "DATA" THEN AfterString(dt, p + FDT_TOKEN_BYTE) ELSE p

is_device_compatible(dt, value, compatible) == compatible \in read_node(dt, value).strs

-----------------------------------------------------------------------------
(* Searching.  A key is what is looked for: a name or a compatible string. *)

NoNode == [address |-> 0, cells |-> DEFAULT_CELLS]
DtbNode(address, cells) == [address |-> address, cells |-> cells]
Answer(res, p, node) == [res |-> res, pointer |-> p, node |-> node]
Failed == Answer("Err", 0, NoNode)

RECURSIVE skip_to_next_node(_, _)
skip_to_next_node_noLen(dt, p) ==
  LET q == NextToken(dt, p)
      tok == read_node(dt, q).tok
  IN  CASE tok = "END_NODE" -> q + FDT_TOKEN_BYTE
        [] tok = "PROP" -> skip_to_next_node(dt, PropValue(q))
        [] OTHER -> -1

\* Behind the end of the node whose contents start at p, or -1.  A subnode is
\* entered without a look at its name, which is no token.
skip_to_next_node(dt, p) ==
  LET q == NextToken(dt, p)
      tok == read_node(dt, q).tok
      inner == skip_to_next_node(dt, q + FDT_TOKEN_BYTE)
  IN  CASE tok = "BEGIN_NODE" -> IF inner = -1 THEN -1 ELSE skip_to_next_node(dt, inner)
        [] tok = "END_NODE" -> q + FDT_TOKEN_BYTE
        [] tok = "PROP" -> skip_to_next_node(dt, PropEnd(dt, q))
        [] OTHER -> -1

RECURSIVE SearchIn(_, _, _, _, _)
RECURSIVE SearchAt(_, _, _, _)
\* The node whose token is at p, then what is in it.
SearchAt(dt, key, p, cells) ==
  LET q == skip_nop(dt, p)
      name == q + FDT_TOKEN_BYTE
      contents == AfterString(dt, name)
  IN  IF read_node(dt, q).tok # "BEGIN_NODE" THEN Failed
      ELSE IF key.by = "name" /\ compare_string(dt, name, key.is)
      THEN Answer("Some", contents, DtbNode(contents, cells))
      ELSE SearchIn(dt, key, contents, contents, cells)

\* The contents from p on of the node that starts at home.
SearchIn(dt, key, home, p, cells) ==
  LET q == NextToken(dt, p)
      tok == read_node(dt, q).tok
      inner == SearchAt(dt, key, q, cells)
      seen == check_address_and_size_cells(dt, q, cells)
  IN  CASE tok = "BEGIN_NODE" ->
             IF inner.res = "None" THEN SearchIn(dt, key, home, inner.pointer, cells) ELSE inner
        [] tok = "END_NODE" -> Answer("None", q + FDT_TOKEN_BYTE, NoNode)
        [] tok = "PROP" ->
             IF /\ key.by = "compatible"
                /\ compare_name_segment(dt, q, "compatible")
                /\ is_device_compatible(dt, PropValue(q), key.is)
             THEN Answer("Some", q, DtbNode(home, seen))
             ELSE SearchIn(dt, key, home, PropEnd(dt, q), seen)
        [] OTHER -> Failed

RECURSIVE SearchFrom(_, _, _, _)
\* The loop of both public searches: a node without a match is followed by a
\* step over one more word.
SearchFrom(dt, key, p, cells) ==
  LET r == SearchAt(dt, key, p, cells)
  IN  IF read_node(dt, p) = Behind THEN NoNode
      ELSE CASE r.res = "Some" -> r.node
             [] r.res = "None" -> SearchFrom(dt, key, r.pointer + FDT_TOKEN_BYTE, cells)
             [] OTHER -> NoNode

\* The first match, or the one that follows current.
Search(dt, key, current) ==
  LET next == skip_to_next_node(dt, current.address)
  IN  IF current = NoNode THEN SearchFrom(dt, key, 0, DEFAULT_CELLS)
      ELSE IF next = -1 THEN NoNode
      ELSE SearchFrom(dt, key, next, current.cells)

search_node(dt, name, current) == Search(dt, [by |-> "name", is |-> name], current)
search_node_by_compatible(dt, compatible, current) ==
  Search(dt, [by |-> "compatible", is |-> compatible], current)

-----------------------------------------------------------------------------
(* Properties of a node *)

NoProperty == [address |-> 0, cells |-> DEFAULT_CELLS, len |-> 0]

RECURSIVE PropertyFrom(_, _, _, _)
PropertyFrom(dt, p, cells, name) ==
  LET q == NextToken(dt, p)
      seen == check_address_and_size_cells(dt, q, cells)
  IN  IF read_node(dt, q).tok # "PROP" THEN NoProperty
      ELSE IF compare_name_segment(dt, q, name)
      THEN [address |-> PropValue(q), cells |-> seen, len |-> PropLen(dt, q)]
      ELSE PropertyFrom(dt, PropEnd(dt, q), seen, name)

get_property(dt, node, name) == PropertyFrom(dt, node.address, node.cells, name)

is_node_operational(dt, node) ==
  LET status == get_property(dt, node, "status")
  IN  status = NoProperty \/ "okay" \in read_node(dt, status.address).strs

RECURSIVE Cells(_, _, _)
Cells_littleEndian(dt, p, n) ==
  IF n = 0 THEN 0
  ELSE read_node(dt, p).num + Cells(dt, p + FDT_TOKEN_BYTE, n - 1) * WordBase

\* The big-endian number of n cells from byte p on.
Cells(dt, p, n) ==
  IF n = 0 THEN 0
  ELSE Cells(dt, p, n - 1) * WordBase + read_node(dt, p + FDT_TOKEN_BYTE * (n - 1)).num

NoReg == <<-1, -1>>
\* The index-th pair of address and size.
read_reg_property(dt, node, index) ==
  LET info == get_property(dt, node, "reg")
      entry == (info.cells.address + info.cells.size) * FDT_TOKEN_BYTE
      start == info.address + entry * index
  IN  IF info = NoProperty \/ entry * (index + 1) > info.len THEN NoReg
      ELSE <<Cells(dt, start, info.cells.address),
             Cells(dt, start + FDT_TOKEN_BYTE * info.cells.address, info.cells.size)>>

read_property_as_u32_array(dt, info) ==
  [k \in 1 .. info.len \div FDT_TOKEN_BYTE |->
     read_node(dt, info.address + FDT_TOKEN_BYTE * (k - 1)).num]
=============================================================================
