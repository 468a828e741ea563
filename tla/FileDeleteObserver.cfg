\* One self-deleting observer against an owner that calls it at any time.
CONSTANTS
  o1 = o1
  Observer = {o1}
  Nobody = Nobody
  u1 = u1  u2 = u2
  Url = {u1, u2}
  NoUrl = NoUrl
  TouchMask = {}
  MaxInstalls = 2
  MaxTouches = 1
  MaxKq = 3
  EventFilter = {"Delete", "Error"}
  kFailedRetryTimes = 2
  kFailRetryTimes = 2
  BufferEvents = 2
SPECIFICATION FairDeleteSpec
INVARIANTS
  HitOnlyAfterDeletion
  StoppedBeforeCallNeverSends
PROPERTIES
  CalledMeansFreed
