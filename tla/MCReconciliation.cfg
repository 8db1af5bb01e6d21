SPECIFICATION Spec
CONSTANTS
  Readings <- MCReadings
  Settlements <- MCSettlements
INVARIANTS
  OnePaymentOneDocument
  EveryDocumentAccountedFor
  NothingComparedTwice
  NoMissedPair
  NoMissedLine
  MatchIsExact
  AdjustmentCountedOnce
  PassedAddsUp
PROPERTIES
  MoneyConserved
CHECK_DEADLOCK FALSE
