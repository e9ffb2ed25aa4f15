SPECIFICATION FairSpec
CONSTANTS
  Units = {0, 1, 2, 3, 5, 6}
  LastFrame = 7
  EditUnitsPerRequest = 3
  AheadToRequest = 1
  AheadToInitiate = 2
  ServersMaximum = 3
  MaxFailures = 1
INVARIANTS TypeOK OneRequestInFlight UnitsInOrder NoUnitSkipped KeepsWhatIsAhead
PROPERTIES ValidWhenThere RequestsEnd DestructorReturns
CHECK_DEADLOCK FALSE
