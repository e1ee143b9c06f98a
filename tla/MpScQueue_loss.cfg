\* The instance of MpScQueue_concurrent, without its restriction on overlaps.
CONSTANTS
  p1 = p1
  p2 = p2
  Producers = {p1, p2}
  Quota <- Calls1_4
  B = 2
  UIntMod = 64
SPECIFICATION Spec
INVARIANTS NothingLost
