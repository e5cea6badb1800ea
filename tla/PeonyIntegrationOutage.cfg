SPECIFICATION Spec
CONSTANTS
  MaxPid = 2
  Scenarios <- Outage
INVARIANT PreviousIsBack
