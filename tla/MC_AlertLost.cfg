\* One report, no crash and no failing service; the AI may quote markup.
CONSTANTS
  bot = bot
  script = script
  ann = ann
  ben = ben
  test = test
  Bot = bot
  Script = script
  Clients <- MCClients
  Users <- MCUsers
  AllowedUsers <- MCAllowed
  AccessCodeSet = TRUE
  ScriptReporter = test
  ReporterIds <- MCReporters
  RecordHashes <- MCHashes
  Assessments <- AnyTexts
  Target = "IncidentLog"
  MaxCalls = 0
  MaxUpdates = 1
  MaxCrashes = 0
  MaxSendFailures = 0
SPECIFICATION Spec
INVARIANT
  LoggedIsAlerted
CHECK_DEADLOCK FALSE
