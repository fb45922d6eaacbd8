SPECIFICATION FairSpec
CONSTANTS
  home = home
  NoNetwork = NoNetwork
  Networks = {home}
  SetModes = {}
  MaxRetry = 1
  QueueMax = 2
PROPERTY
  FailureIsShown
