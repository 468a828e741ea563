CONSTANTS
  MaxUpdates = 1
  Blank = {}
  MaxServices = 1
  MaxKills = 1
SPECIFICATION Spec
INVARIANT InitWaitsForTheLowerLayer
CHECK_DEADLOCK FALSE
