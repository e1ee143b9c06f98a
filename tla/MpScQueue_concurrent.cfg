\* Buffers of two slots are the smallest with an index 1, at which enqueue allocates
\* ahead.  One producer of a single element can stall while the other one, with
\* four, and the consumer pass two buffer boundaries and buffers are deleted.  Folding happens in this
\* instance as well, but only after an overlap, when the invariant claims nothing.
CONSTANTS
  p1 = p1
  p2 = p2
  Producers = {p1, p2}
  Quota <- Calls1_4
  B = 2
  UIntMod = 64
SPECIFICATION Spec
INVARIANTS SafeWithoutOverlap
