CONSTANTS
  Replica = {0, 1, 2}
  Node = {0, 1, 2}
  Speaker = {0}
  Parts = 2
  Credits = 2
  Slots = 2
  SendDepth = 1
  RecvDepth = 1
  MaxId = 3
  MaxStamp = 2
  MaxTrouble = 1
  MaxRestarts = 1
SPECIFICATION ROSpec
CHECK_DEADLOCK FALSE
INVARIANTS ROTypeOK KeysShared CreditsReturned
PROPERTIES ImplementsKeyExchange KeysSettle
