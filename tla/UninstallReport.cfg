CONSTANTS
  MaxUpdates = 2
  Blank = {2}
  MaxServices = 2
  MaxKills = 1
  MaxTries = 3
SPECIFICATION FairSpecAll
CHECK_DEADLOCK FALSE
INVARIANTS
  UninstallInv
  LatestUrlKept
  HitIsTheOneMeant
PROPERTIES
  GoesBackOnlyToDelayed
  SureIsReported
