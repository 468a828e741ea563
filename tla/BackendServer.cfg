\* The daemon through two registrations, a reinstallation, and its own end.
CONSTANTS
  o1 = o1  o2 = o2
  Observer = {o1, o2}
  Nobody = Nobody
  u1 = u1
  Url = {u1}
  NoUrl = NoUrl
  TouchMask = {}
  MaxInstalls = 2
  MaxTouches = 0
  MaxKq = 2
  EventFilter = {"Delete", "Error"}
  kFailedRetryTimes = 1
  kFailRetryTimes = 1
  kMaxRetryTimes = 1
  BufferEvents = 1
  ClientSends = {"FILE_PATH", "REQ_ON_DEL"}
  MaxRequests = 4
  MaxBacklog = 1
  MayBeKilled = FALSE
SPECIFICATION ServerSpec
SYMMETRY Interchangeable
\* The daemon exits or is killed.
CHECK_DEADLOCK FALSE
INVARIANTS
  DaemonInv
  OneReporterPerDeletion
  ShutdownHasCause
PROPERTIES
  OwnerTouchesFreedOnlyThen
