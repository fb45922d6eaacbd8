SPECIFICATION FairSpec
CONSTANTS
  a0 = a0
  none = none
  p1 = p1
  Readers = {}
  Addrs = {a0}
  ZeroAddr = a0
  DefaultAddr = a0
  Passwords = {none, p1}
  NoPassword = none
  DefaultPassword = p1
  NoTask = NoTask
  NoBlob = NoBlob
INVARIANTS
  RequestsAddUp
  FlashIsCurrent
  InterfaceFollowsConfig
  CopyIsWhole
PROPERTIES
  RequestsFinish
  ChangesAreApplied
  ImplementsDurable
