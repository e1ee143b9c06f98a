\* One slot and two elements are enough: the first TryDequeue that returns true
\* leaves its caller with what the variable happened to hold.
CONSTANTS
  Item = {a, b}
  Limit = 1
SPECIFICATION Spec
PROPERTIES DequeueDelivers
