\* One e-mail enqueued twice, everything but the database may fail.
CONSTANTS
  e1 = e1  n1 = n1  p1 = p1  ph1 = ph1  j1 = j1  j2 = j2  c1 = c1  c2 = c2  s1 = s1  s2 = s2
  Email = {e1}
  Parses = {e1}
  Payment = {p1}
  Phone = {ph1}
  Job = {j1, j2}
  Slot = {s1, s2}
  Cycle = {c1}
  Attempts = 3
  MaxStalledCount = 1
  MaxResults = 1
  MaxRepeats = 1
  NoEmail = NoEmail
  NoSlot = NoSlot
  NoJob = NoJob
  NoPhone = NoPhone
  NoMail = NoMail
  PaymentOf <- SoloPaymentOf
  PhoneOf <- SoloPhoneOf
  OwnerConfigured = TRUE
  Faults = {"db_ack", "whatsapp", "wa_ack", "crash", "stall"}
  MailFaults = {"get", "mark", "redis", "redis_ack", "restart"}
SPECIFICATION PSpec
SYMMETRY Interchangeable
INVARIANT NothingIsForgotten
PROPERTY EndToEndOnce
CHECK_DEADLOCK FALSE
