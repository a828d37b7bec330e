CONSTANTS
  clock = clock
  net = net
  disk = disk
  f = f
  g = g
  Op = {clock, net, disk}
  Val = {0, 1}
  Fn = {f, g}
  Last = 3
  LayerOf <- Layers
  LayerState = {0, 1}
  InitLayer = 0
  LayerHandler <- Answers
  Refused = Refused
  RefusedOps = {net}
  ThrowingFns = {g}
  Codes <- AllCodes
  Starts <- Beginnings
  MaxEffects = 3
SPECIFICATION FairSpec
CHECK_DEADLOCK FALSE
INVARIANTS
  TypeOK
  DischargedStaysDischarged
  HandlerOwnedWhereUsed
PROPERTY
  DirectStyleFair
