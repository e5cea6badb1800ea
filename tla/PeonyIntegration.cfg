SPECIFICATION Spec
CONSTANTS
  MaxPid = 2
  Scenarios <- MCScenarios
INVARIANTS
  TypeOK WayHomeKept SetupCovers TeardownRestores Unsupervised
  UnitIsOutOfTheWay CommandsSucceed
PROPERTY RecordHandedOver
