CONSTANTS
  Loaders = {l1, l2}
  Daemons = {d1, d2}
  None = None
SPECIFICATION FairSpec
INVARIANTS
  StartupInv
  ForkOnlyIfUnserved
  DeafHasCause
PROPERTIES
  CheckEnds
  ForkMeansService
