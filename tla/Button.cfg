SPECIFICATION FairSpec
CONSTANTS
  W = 16
  Long = 4
  MaxHold = 8
  MaxWait = 1
PROPERTIES
  ArmsAfterHold
  HoldRestores
