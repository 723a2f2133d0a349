\* Two clients of one relayer account and three calls.
CONSTANTS
  bot = bot
  script = script
  h = h
  w = w
  Clients <- MCClients
  RecordHashes <- MCHashes
  ReporterIds <- MCReporters
  Target = "IncidentLog"
  MaxCalls = 3
SPECIFICATION RelayFairSpec
INVARIANTS
  RelayTypeOK
  ReturnedIsRecorded
  RecordedOnce
  PoolIsNext
PROPERTIES
  FailureBecomesFinal
  ImplementsService
  CallsEnd
CHECK_DEADLOCK FALSE
