SPECIFICATION Spec
CONSTANTS
  Buf = 2
  MaxIn = 2
  MaxOut = 2
  Prompt = FALSE
PROPERTY CallReturns
CHECK_DEADLOCK FALSE
