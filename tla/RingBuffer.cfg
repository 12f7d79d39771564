SPECIFICATION Spec
CONSTANTS
  Bytes = {b1, b2}
  BufferSize = 4
  MaxMore = 5
INVARIANTS
  TypeOK
  PutMoreReportsLoss
PROPERTIES
  ImplementsFifo
