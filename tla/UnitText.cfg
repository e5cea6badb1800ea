SPECIFICATION Spec
CHECK_DEADLOCK FALSE
CONSTANTS
  Configs <- MCConfigs
  Edits <- MCEdits
  IntLimit = 512
  Numeral <- MCNumeral
  Number <- MCNumber
INVARIANTS
  TypeOK
  ArgvSurvives
  StatusReadsTheConfig
  ReadBackIsWritten
  NormalForm
