CONSTANTS
  MaxUpdates = 2
  Blank = {}
  MaxServices = 2
  MaxKills = 2
SPECIFICATION FairSpec
CHECK_DEADLOCK FALSE
PROPERTIES
  UrlReachesDaemon
