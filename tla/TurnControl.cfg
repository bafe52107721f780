SPECIFICATION Spec
CONSTANTS
  a = a
  b = b
  c = c
  Messages = {a, b, c}
  Solo = {c}
  Scenarios <- SafetyScenarios
  MAX_QUEUED_PROMPTS = 2
  QueueRoom = 1
  RuntimeRoom = 1
  MaxTurns = 3
SYMMETRY Interchangeable
INVARIANTS QueueInv  ReservedIsPrefix
PROPERTIES KeepsMessages HeldUntilSent
CHECK_DEADLOCK FALSE
