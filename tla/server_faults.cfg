\* Every service, migration and call may fail, and two signals may come.
CONSTANTS
  e1 = e1
  Object <- Tables
  HistoryTable = "migration_history"
  Script <- Files
  MigrationFaults = {"read", "ddl"}
  Signal = {"SIGTERM", "SIGINT"}
  Mail = {e1}
  NoMail = NoMail
  MaxStarts = 2
  ServerFaults = {"db", "redis", "gmail", "whatsapp", "close", "enqueue", "mark"}
SPECIFICATION SFairSpec
INVARIANTS STypeOK RecordedIsApplied ProductionIsComplete NoMailIsLost
PROPERTIES GracefulExitDrains ShutdownEnds
CHECK_DEADLOCK FALSE
