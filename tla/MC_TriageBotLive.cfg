\* No crash, no failed Telegram request; the script runs once beside the bot.
CONSTANTS
  bot = bot
  script = script
  ann = ann
  ben = ben
  test = test
  Bot = bot
  Script = script
  Clients <- MCClients
  Users <- MCUsers
  AllowedUsers <- MCAllowed
  AccessCodeSet = TRUE
  ScriptReporter = test
  ReporterIds <- MCReporters
  RecordHashes <- MCHashes
  Assessments <- PlainTexts
  Target = "IncidentLog"
  MaxCalls = 1
  MaxUpdates = 2
  MaxCrashes = 0
  MaxSendFailures = 0
SPECIFICATION FairSpec
INVARIANT
  LinkedAlertIsRecorded
PROPERTIES
  SevereIsAlerted
  EveryMessageIsAnswered
CHECK_DEADLOCK FALSE
