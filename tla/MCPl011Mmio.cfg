SPECIFICATION Spec
CONSTANTS
  Bytes = {a, b}
  Nul = Nul
  BufferLen = 4
  MaxRead = 9
  MaxInput = 6
INVARIANT DeliveredInOrder
INVARIANT RxfeTellsEmpty
PROPERTY InputDelivered
