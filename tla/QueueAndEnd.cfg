\* The list of events on a heap of four entries, and how the daemon ends.
CONSTANTS
  e1 = e1  e2 = e2  e3 = e3  e4 = e4
  NULL = NULL
  Entry = {e1, e2, e3, e4}
  o1 = o1  o2 = o2
  Reporter = {o1, o2}
  Nobody = Nobody
  PollTime = 1
  LingerTime = 4
  kSelectTimeout = 2
  CurlTimeout = 6
  Pause = 1
  kFailRetryTimes = 2
SPECIFICATION SpecEither
SYMMETRY Symmetry
\* The daemon exits.
CHECK_DEADLOCK FALSE
INVARIANTS
  QueueInv
  EndInv
  CurrentCutOnlyByOthers
PROPERTIES
  IsFifo
