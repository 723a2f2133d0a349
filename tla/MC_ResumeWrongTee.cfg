\* Resumed runs only; the TEE restarts once.
CONSTANTS
  Commands <- Default
  Keeps <- Resumed
  MaxTees = 2
  MaxFaults = 1
  MaxAttests = 2
SPECIFICATION Spec
INVARIANT
  SuccessIsProduction
CHECK_DEADLOCK FALSE
