SPECIFICATION FairSpec
CONSTANTS
  Threads = {t1, t2}
  MaxAtoms = 2
  Requests <- MCRequests
  MaxRequests = 2
  MaxFaults = 1
INVARIANTS TypeOK NeverDesktop StaysBelow LinesWhole
PROPERTY CallsReturn
