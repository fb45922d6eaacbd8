SPECIFICATION Spec
CONSTANTS
  p1 = p1  p2 = p2
  t1 = t1  t2 = t2  t3 = t3
  n1 = n1  n2 = n2
  Pages = {p1, p2}
  Tokens = {t1, t2, t3}
  NoToken = NoToken
  Texts <- MCTexts
  Stub = n2
  Empty = Empty  Spaced = Spaced  Long = Long  Ampersand = Ampersand
  LongMax = 31
  TypedNames = {n2}
  TypedAddresses <- MCAddressesDots
  TypedPorts = {5}
  DefaultName = n1
  DefaultAddr <- DefaultIp
  DefaultPort = 18
  DefaultPassword = n1
  NoForm = NoForm
  MaxChanges = 1
PROPERTY
  OkMeansTaken
