\* Every text of up to four pieces, from every bank and from others.
CONSTANTS
  MaxPieces = 4
  WrittenLabels <- DistinctLabels
  SentSubjects = {"pago recibido", "alerta"}
SPECIFICATION BSpec
INVARIANTS DocumentedIsParsed AmountInItsCurrency PhoneShownIsRead NameIsExact
CHECK_DEADLOCK FALSE
