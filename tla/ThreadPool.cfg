\* Three threads: a Reset can come before the workers of the last one are registered, and
\* a shrink to 1 or 0 meets workers in every state.
CONSTANTS
  Thread = {t1, t2, t3}
  Sizes = {0, 1, 2}
  Function = {f}
  Window = 2
  SleepLimit = 3
SPECIFICATION Spec
INVARIANTS TidsExact ExactSize
PROPERTIES ResetTerminates EveryFunctionRuns ShutdownStops
