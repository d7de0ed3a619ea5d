SPECIFICATION FairSpec
CONSTANTS
  Slot = {s1, s2, s3}
  None = None
  MaxVaults = 5
  MaxClears = 2
INVARIANTS
  TypeOK
  OneRotation
  OneRequest
  BannerTellsTheTruth
  DeleteNotRepeated
  KeysOnScreen
PROPERTIES
  NeverReopens
  Reconciled
