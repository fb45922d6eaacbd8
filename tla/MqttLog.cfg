SPECIFICATION FairSpec
CONSTANTS
  b1 = b1
  b2 = b2
  t1 = t1
  NoServer = NoServer
  Servers = {b1, b2}
  Topics = {t1}
  MaxOutbox = 2
INVARIANTS
  ChainIsAlive
PROPERTIES
  LogGoesOn
  ImplementsLogClient
