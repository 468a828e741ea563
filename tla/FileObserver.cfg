\* One observer without a filter, which hears every event.
CONSTANTS
  o1 = o1
  Observer = {o1}
  TouchMask = {"CREATE", "CLOSE_NOWRITE"}
  MaxInstalls = 2
  MaxTouches = 3
  MaxKq = 4
  EventFilter = {}
  kFailedRetryTimes = 2
  BufferEvents = 3
SPECIFICATION FairOrderSpec
INVARIANTS
  DeleteIsReal
  TerminalIsLast
  NothingLostOrReordered
  AtMostOneLateEvent
PROPERTIES
  GoneIsReported
