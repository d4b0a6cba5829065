\* The comment of transaction.queue.ts on retries.
CONSTANTS
  e1 = e1  e2 = e2  e3 = e3  p1 = p1  p2 = p2  ph1 = ph1
  j1 = j1  j2 = j2  j3 = j3  s1 = s1  s2 = s2
  Email = {e1}
  Payment = {p1}
  Phone = {ph1}
  Job = {j1}
  Slot = {s1, s2}
  Attempts = 3
  MaxStalledCount = 1
  NoEmail = NoEmail
  NoSlot = NoSlot
  NoJob = NoJob
  NoPhone = NoPhone
  PaymentOf <- SoloPaymentOf
  PhoneOf <- SoloPhoneOf
  OwnerConfigured = FALSE
  Faults = {"whatsapp"}
SPECIFICATION WSpec
INVARIANT RetryReprocesses
CHECK_DEADLOCK FALSE
