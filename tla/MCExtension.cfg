SPECIFICATION Spec
CONSTANTS
  Catalog <- MCCatalog
  SharedParents <- MCSharedParents
  NoUrl = NoUrl
  NoProvider = NoProvider
  VaultIds = {v1}
  Digests = {d1}
  NoDigest = NoDigest
  NoPin = NoPin
  MaxRevision = 2
  MaxProtocol = 1
  Slot = {s1, s2}
  None = None
  Pages <- MCTwoPages
  Entries <- MCTwoEntries
  MaxSessions = 2
  MaxUnlocking = 2
  SavesFail = TRUE
  Vault = v1
  Digest = d1
SYMMETRY Slots
INVARIANTS
  TypeOK
  FillsOnlyTheOwner
  LockedMakesNoMessage
  OnlyUnlocksLeaveKeys
CHECK_DEADLOCK FALSE
