\* The instance of CopyFile.cfg.
CONSTANTS
  QD = 2
  BS = 2
  Size = 7
SPECIFICATION Spec
INVARIANTS ShortTransfersAdjusted
