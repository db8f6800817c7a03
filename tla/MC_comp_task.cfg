SPECIFICATION Spec
CONSTANTS
  Buf = 2
  MaxIn = 5
  MaxOut = 5
  Prompt = TRUE
INVARIANTS TypeOK Accounting  FailureLeavesNoPart NothingHeld
PROPERTIES CallReturns KeepsPromise
CHECK_DEADLOCK FALSE
