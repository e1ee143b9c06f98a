\* Two executor threads and three tasks, spread over the vcores and priorities as
\* MCExecutor says; each client has its tasks resubmitted for ever.
CONSTANTS
  main = main
  client = client
  high = high
  other = other
  lowest = lowest
  count_vcore = 2
  Clients = {main, client}
  Main = main
  Task = {high, lowest, other}
  Owner <- MCOwner
  Vcore <- MCVcore
  Priority <- MCPriority
SPECIFICATION Spec
PROPERTIES EarlyTasksRun MostUrgentFirst EveryTaskRuns ShutdownReturns
