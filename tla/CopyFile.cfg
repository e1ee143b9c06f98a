\* Four blocks, the last one shorter, through a ring of two entries.
CONSTANTS
  QD = 2
  BS = 2
  Size = 7
SPECIFICATION Spec
INVARIANTS SqeAvailable TransferInBuffer CopyExact
PROPERTIES CopyReturns
