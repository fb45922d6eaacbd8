SPECIFICATION FormSpec
CONSTANTS
  home = home
  other = other
  NoNetwork = NoNetwork
  Networks = {home, other}
  SetModes = {"sta"}
  MaxRetry = 1
  QueueMax = 2
INVARIANTS
  LastFormWins
  RunsOnLink
PROPERTY
  HandleIsKept
SYMMETRY Interchangeable
VIEW AllButStatus
