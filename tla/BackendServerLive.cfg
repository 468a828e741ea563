\* The daemon reports a deletion and ends.
CONSTANTS
  o1 = o1  o2 = o2
  Observer = {o1, o2}
  Nobody = Nobody
  u1 = u1
  Url = {u1}
  NoUrl = NoUrl
  TouchMask = {}
  MaxInstalls = 2
  MaxTouches = 0
  MaxKq = 2
  EventFilter = {"Delete", "Error"}
  kFailedRetryTimes = 1
  kFailRetryTimes = 1
  kMaxRetryTimes = 1
  BufferEvents = 2
  ClientSends = {"HELLO", "FILE_PATH", "REQ_ON_DEL", "HANGUP"}
  MaxRequests = 2
  MaxBacklog = 2
  MayBeKilled = TRUE
SPECIFICATION FairServerSpec
PROPERTIES
  StopEndsDaemon
  DeletionEndsDaemon
\* The daemon exits or is killed.
CHECK_DEADLOCK FALSE
