\* Safety and liveness of two concurrent actions and a repeating reader.
CONSTANTS
  a1 = a1
  a2 = a2
  q1 = q1
  None = None
  Actions <- MCActions
  Readers <- MCReaders
SPECIFICATION FairSpec
INVARIANTS
  TypeOK
  CountIsClassified
PROPERTIES
  ImplementsState
  EveryRequestIsAnswered
CHECK_DEADLOCK FALSE
