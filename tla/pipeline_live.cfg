\* A payment and a newsletter, two cycles that could overlap, lost replies and
\* failing marks: the payment is confirmed and settled.
CONSTANTS
  e1 = e1  n1 = n1  p1 = p1  ph1 = ph1  j1 = j1  j2 = j2  c1 = c1  c2 = c2  s1 = s1  s2 = s2
  Email = {e1, n1}
  Parses = {e1}
  Payment = {p1}
  Phone = {ph1}
  Job = {j1, j2}
  Slot = {s1}
  Cycle = {c1, c2}
  Attempts = 3
  MaxStalledCount = 1
  MaxResults = 2
  MaxRepeats = 1
  NoEmail = NoEmail
  NoSlot = NoSlot
  NoJob = NoJob
  NoPhone = NoPhone
  NoMail = NoMail
  PaymentOf <- NewsPaymentOf
  PhoneOf <- NewsPhoneOf
  OwnerConfigured = TRUE
  Faults = {"wa_ack"}
  MailFaults = {"mark", "redis_ack"}
SPECIFICATION PFairSpec
PROPERTIES MailIsRead PaymentIsSettled SenderIsNotified
CHECK_DEADLOCK FALSE
