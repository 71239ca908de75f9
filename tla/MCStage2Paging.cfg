SPECIFICATION Spec
CONSTANTS
  PageShift = 1
  Bits = 1
  AddressBits = 8
  ParangeTable <- MCParangeTable
  FreeTables = {0, 3, 5, 20}
  Ranges <- MCRanges
  MaxCalls = 2
INVARIANT MappedRight
INVARIANT TablesFormTree
CHECK_DEADLOCK FALSE
