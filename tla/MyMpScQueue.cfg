\* Three producers fill two lists of two slots and start a third one, so both
\* list boundaries are crossed with claims outstanding on each side.
CONSTANTS
  Producers = {p1, p2, p3}
  Capacity = 2
  MaxEnqueue = 5
  NoData = NoData
SPECIFICATION Spec
INVARIANTS RightList CountIsExact VerifySucceeds
PROPERTIES SetSlotsFrozen EnqueueReturns
