CONSTANTS
  MaxAttempts = 3
  ReplySize = 11
  StartTimes = {0, 5}
  Failures = {0, 1, 2, 3}
  Op <- RetryOp
  Val <- RetryVal
  Fn <- RetryFn
  HandlerState <- RetryScript
  InitHandler <- InitScript
  Handler <- MockHandler
  Deferred = {}
  Refused = Refused
  RefusedOps <- RetryOp
  ThrowingFns = {}
  Codes <- RetryCodes
  Starts <- RetryStarts
  MaxEffects = 12
SPECIFICATION SpecBoth
CHECK_DEADLOCK FALSE
INVARIANTS
  BacksOffBetweenAttempts
  ResultIsOfTheLastSend
  ClockAdvancesByBackoffs
  InterpretersAgree
PROPERTY
  NoFurtherAttempt
