CONSTANTS
  c1 = c1  c2 = c2  c3 = c3  c4 = c4  o1 = o1  o2 = o2
  Connection = {c1, c2, c3, c4}
  Observer = {o1, o2}
  Nothing = Nothing
  FdLimit = 3
SPECIFICATION FairSpec
CHECK_DEADLOCK FALSE
INVARIANTS
  SocketsInv
PROPERTIES
  RegisteredIsWatched
  RequestsAreHandled
