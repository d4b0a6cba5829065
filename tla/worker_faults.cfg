\* Every fault, two e-mails of one payment, two jobs, two executions.
CONSTANTS
  e1 = e1  e2 = e2  e3 = e3  p1 = p1  p2 = p2  ph1 = ph1
  j1 = j1  j2 = j2  j3 = j3  s1 = s1  s2 = s2
  Email = {e1, e2}
  Payment = {p1}
  Phone = {ph1}
  Job = {j1, j2}
  Slot = {s1, s2}
  Attempts = 3
  MaxStalledCount = 1
  NoEmail = NoEmail
  NoSlot = NoSlot
  NoJob = NoJob
  NoPhone = NoPhone
  PaymentOf <- TwinPaymentOf
  PhoneOf <- TwinPhoneOf
  OwnerConfigured = TRUE
  Faults = {"db", "db_ack", "whatsapp", "wa_ack", "crash", "stall"}
SPECIFICATION WSpec
SYMMETRY Slots
INVARIANTS WTypeOK SenderOrOwner ProcessedIsJustified
  LogAgreesWithStatus OnlyStallsDeadLetter
PROPERTIES StatusIsFinal RefinesNotifyOnce
CHECK_DEADLOCK FALSE
