\* Two updates, one crash, one failed Telegram request; the script is idle.
CONSTANTS
  bot = bot
  script = script
  ann = ann
  ben = ben
  test = test
  Bot = bot
  Script = script
  Clients <- MCClients
  Users <- MCUsers
  AllowedUsers <- MCAllowed
  AccessCodeSet = TRUE
  ScriptReporter = test
  ReporterIds <- MCReporters
  RecordHashes <- MCHashes
  Assessments <- AnyTexts
  Target = "IncidentLog"
  MaxCalls = 0
  MaxUpdates = 2
  MaxCrashes = 1
  MaxSendFailures = 1
SPECIFICATION Spec
INVARIANTS
  BotTypeOK
  LinkedAlertIsRecorded
  NotifiedIsAlerted
  RecordsAreAuthorized
  RecordedOncePerDelivery
CHECK_DEADLOCK FALSE
