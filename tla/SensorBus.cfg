SPECIFICATION FairSpec
CONSTANTS
  r1 = r1
  Readers = {r1}
  Period = 1
INVARIANTS
  BusIsExclusive
  WaveIsRepaired
  WaveIsSane
  TimeIsKept
  MeasurementsAreWhole
PROPERTIES
  SyncEnds
  MeasuringGoesOn
