CONSTANTS
  get = get
  f = f
  g = g
  Op = {get}
  Val = {0}
  Fn = {f, g}
  HandlerState = {0}
  InitHandler = {0}
  Handler <- Answers
  Refused = Refused
  RefusedOps = {}
  ThrowingFns = {}
  Codes <- LoopCodes
  Starts <- Beginnings
  MaxEffects = 5
SPECIFICATION FairSpec
CHECK_DEADLOCK FALSE
INVARIANT
  FlatCallStack
