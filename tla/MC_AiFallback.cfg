\* One action would do: the property is about a single step.
CONSTANTS
  a1 = a1
  a2 = a2
  q1 = q1
  None = None
  Actions <- MCActions
  Readers <- MCReaders
SPECIFICATION Spec
PROPERTY
  AiFailureFallsBack
CHECK_DEADLOCK FALSE
