SPECIFICATION FairSpec
CONSTANTS
  MaxHeight = 3
  MaxKids = 2
  Jobs <- MCJobs
  SeedOf <- CallSeed
  Coalgebra <- CallCoalgebra
  Algebra <- CallAlgebra
  Finish <- CallFinish
  OwedAnswer <- CallAnswer
  OwedSteps <- CallWalk
  phi <- caller_phi
  phiAt <- caller_phi_at
  helper <- caller_helper
  psi <- caller_psi
  headFn <- caller_head
  natural <- caller_natural
  asks <- mhisto_fib_asks
  hoist <- hoist_tree
INVARIANTS
  AnswerMeetsEquation
  AnswerAsPromised
  WalksOnce
PROPERTY Returns
CHECK_DEADLOCK FALSE
