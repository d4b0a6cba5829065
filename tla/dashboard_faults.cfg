\* One tab with the page of one payment, two requests, two names.  A message fails to be
\* sent when the phone cannot be normalized, which ends like a failure of the API.
CONSTANTS
  e1 = e1  p1 = p1  ph1 = ph1  j1 = j1  s1 = s1  b1 = b1  b2 = b2  r1 = r1  r2 = r2  n1 = n1  n2 = n2
  Email = {e1}
  Payment = {p1}
  Phone = {ph1}
  Job = {j1}
  Slot = {s1}
  Attempts = 1
  MaxStalledCount = 0
  NoEmail = NoEmail
  NoSlot = NoSlot
  NoJob = NoJob
  NoPhone = NoPhone
  PaymentOf <- SoloPaymentOf
  PhoneOf <- SoloPhoneOf
  OwnerConfigured = FALSE
  Faults = {"db", "crash"}
  Tab = {b1}
  Request = {r1, r2}
  PageOf <- OnePage
  Name = {n1, n2}
  BadPhone = BadPhone
  NoName = NoName
  NoTab = NoTab
  NoRequest = NoRequest
SPECIFICATION DSpec
SYMMETRY Interchangeable
INVARIANTS DTypeOK OneMessagePerAnswer SuccessIsExplained
PROPERTY NamesSurvive
CHECK_DEADLOCK FALSE
