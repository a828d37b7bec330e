CONSTANTS
  get = get
  pick = pick
  f = f
  g = g
  Op = {get, pick}
  Val = {0, 1}
  Fn = {f, g}
  HandlerState = {0, 1}
  InitHandler = {0}
  Handler <- Answers
  Annotation = {"even", "odd"}
  HeadFn <- Heads
  ThrowingSeeds = {1}
  Refused = Refused
  RefusedOps = {pick}
  ThrowingFns = {g}
  Codes <- AllCodes
  Starts <- Beginnings
  MaxEffects = 2
SPECIFICATION FairSpec
CHECK_DEADLOCK FALSE
INVARIANTS
  TypeOK
  TraceIsWhatWasAsked
PROPERTY
  DirectStyleFair
