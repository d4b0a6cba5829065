\* Two members with any due days, every failure.
CONSTANTS
  m1 = m1  m2 = m2
  Member = {m1, m2}
  LastDay = 3
  LastDueDay = 2
  Ahead = 1
  ReminderFaults = {"db", "whatsapp", "crash", "cron"}
  NoMember = NoMember
SPECIFICATION RSpec
SYMMETRY Members
INVARIANTS RTypeOK EveryoneIsReminded RemindersAreExplained
PROPERTY NoLateReminder
CHECK_DEADLOCK FALSE
