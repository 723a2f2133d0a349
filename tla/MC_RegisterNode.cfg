\* Fresh and resumed runs, one restart of the TEE, two faults.
CONSTANTS
  Commands <- MCCommands
  Keeps <- Both
  MaxTees = 2
  MaxFaults = 2
  MaxAttests = 2
SPECIFICATION FairSpec
INVARIANTS
  TypeOK
  FileIsOnChain
  FreshSuccessIsProduction
PROPERTY
  EventuallyInProduction
CHECK_DEADLOCK FALSE
