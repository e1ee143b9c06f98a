\* Three slots and two different elements: head_ and tail_ wrap at different
\* times and the ring gets full and empty with calls of both sides in progress.
CONSTANTS
  Item = {a, b}
  Limit = 3
SPECIFICATION Spec
INVARIANTS ExchangeIsSafe
PROPERTIES RingContract
