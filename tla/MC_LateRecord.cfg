\* One report, no crash and no failing Telegram request.
CONSTANTS
  bot = bot
  script = script
  ann = ann
  ben = ben
  test = test
  Bot = bot
  Script = script
  Clients <- MCClients
  Users <- MCUsers
  AllowedUsers <- MCAllowed
  AccessCodeSet = TRUE
  ScriptReporter = test
  ReporterIds <- MCReporters
  RecordHashes <- MCHashes
  Assessments <- PlainTexts
  Target = "IncidentLog"
  MaxCalls = 0
  MaxUpdates = 1
  MaxCrashes = 0
  MaxSendFailures = 0
SPECIFICATION Spec
INVARIANT
  FailedAlertIsTrue
CHECK_DEADLOCK FALSE
