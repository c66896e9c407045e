SPECIFICATION Spec
CONSTANTS
  QueueSize = 4
  AlertSize = 16
INVARIANTS TypeOK NothingForgotten AlertForEach
