\* Two operators; two senders, two extensions, two machines and one fault: the
\* bounds, not the scripts, stop the system.
SPECIFICATION Spec
CONSTANTS
  o1 = o1
  o2 = o2
  Operators = {o1, o2}
  Scripts <- MCScripts
  Hosts <- MCHosts
  Environments <- MCEnvironments
  MaxSenders = 2
  MaxExts = 2
  MaxTees = 2
  MaxFaults = 1
INVARIANTS
  TypeOK
  WrittenExtensionIsSetUp
  BoundToFirst
  MachineServesItsExtension
  CleanAuditIsSound
  AuditTellsBinding
  PreflightsAgree
  StepsAgreeOnLocal
PROPERTIES
  CalmSetupSucceeds
  PauseSparesCurrent
CHECK_DEADLOCK FALSE
