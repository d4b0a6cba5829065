\* Every failure, two payments of one name, a request beside them, a change of month.
CONSTANTS
  t1 = t1  t2 = t2  m1 = m1  m2 = m2  n1 = n1  r1 = r1  r2 = r2
  Tx = {t1, t2}
  Request = {r1}
  Member = {m1}
  Name = {n1}
  NameOf <- OneName
  DueDay <- DueFirst
  LastMonth = 2
  LastDay = 2
  MemberFaults = {"db", "crash", "cron"}
  Cash = Cash
  Nobody = Nobody
SPECIFICATION MSpec
SYMMETRY Interchangeable
INVARIANTS MTypeOK CreditIsLegitimate OnTimeIsOnTime LinkedPaymentIsCredited MonthsCloseOnTime
PROPERTY PaidStaysPaid
