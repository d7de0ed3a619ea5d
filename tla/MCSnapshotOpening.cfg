SPECIFICATION OpeningSpec
CONSTANTS
  VaultIds = {"v1", "v2"}
  Digests = {"d1", "d2", "d3", "d4"}
  NoDigest = NoDigest
  NoPin = NoPin
  None = None
  Fails = Fails
  Idle = Idle
  MaxRevision = 3
  MaxProtocol = 1
  Tabs = {t1, t2}
  Offered <- MCOffered
  Tasks = {"unlock", "recover"}
  KeyBytes = 4
  Byte = 2
  Short = 3
  Long = 4
  Label <- MCLabel
  TypeName <- MCTypeName
  DigestBytes = 1
  IdBytesMax = 4
  Mark <- MCMark
  RefsMax = 2
  Word <- MCWord
  NonceBytes = 1
  TagBytes = 2
  SaltBytes = {1, 2}
  CheckBytes = 2
  Checksum <- MCChecksum
SYMMETRY TabSymmetry
INVARIANTS
  TypeOK
  NoFork
  PinDominates
  OpensAsWritten
  RestoresWhatWasShown
PROPERTY RaceIsBounded
