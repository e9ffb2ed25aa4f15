SPECIFICATION FairSpec
CONSTANTS
  Units = {0, 1, 2, 4, 5}
  LastFrame = 6
  EditUnitsPerRequest = 2
  AheadToRequest = 2
  AheadToInitiate = 2
  ServersMaximum = 3
  MaxFailures = 1
PROPERTIES RequestsGoOn
CHECK_DEADLOCK FALSE
