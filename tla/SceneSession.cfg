SPECIFICATION Spec
CONSTANTS
  Characters = {"a", "b"}
  Places = {"cafe", "park"}
  Daily <- MCDaily
  Wishes <- MCWishes
  Asks = {"now", "later", "cancel"}
  Kinds <- MCKinds
  MaxDay = 2
  MaxRequests = 3
  MaxOpen = 2
INVARIANTS WaitsWhereAgreed PairAccepted NeverWedged 
CHECK_DEADLOCK FALSE
