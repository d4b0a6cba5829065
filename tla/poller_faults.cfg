\* Every failure, two cycles that could overlap, a list call that returns one
\* of up to three e-mails or two of them.
CONSTANTS
  e1 = e1  e2 = e2  n1 = n1  c1 = c1  c2 = c2
  Email = {e1, e2, n1}
  Parses = {e1, e2}
  Cycle = {c1, c2}
  MaxResults = 2
  MaxRepeats = 2
  MailFaults = {"list", "get", "mark", "redis", "redis_ack", "restart"}
  NoMail = NoMail
SPECIFICATION PollSpec
SYMMETRY Cycles
INVARIANTS PollTypeOK NoPaymentLost RepeatsAreExplained
