\* Resumed runs only; the TEE never restarts, and one thing goes wrong.
CONSTANTS
  Commands <- Default
  Keeps <- Resumed
  MaxTees = 1
  MaxFaults = 1
  MaxAttests = 2
SPECIFICATION FairSpec
PROPERTY
  EventuallyInProduction
CHECK_DEADLOCK FALSE
