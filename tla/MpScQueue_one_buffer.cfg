\* Four elements of two producers in a buffer with a slot to spare: look ahead,
\* scan and restart happen, crossing into another buffer does not.
CONSTANTS
  p1 = p1
  p2 = p2
  Producers = {p1, p2}
  Quota <- Calls2_2
  B = 5
  UIntMod = 64
SPECIFICATION Spec
INVARIANTS OrderedAndComplete
PROPERTIES FalseMeansEmpty FifoContract EventuallyDelivered
