\* The comment of the worker on whom it notifies.
CONSTANTS
  MaxPieces = 4
  WrittenLabels <- DistinctLabels
  SentSubjects = {"pago recibido", "alerta"}
SPECIFICATION BSpec
INVARIANT PhoneIsSenders
CHECK_DEADLOCK FALSE
