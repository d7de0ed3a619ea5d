SPECIFICATION MCSpec
CONSTANTS
  Device = {d1, d2}
  Founder = d1
  Edit = {e1}
  Body = {}
  NoRevision = NoRevision
  NoVault = NoVault
  NoOp = NoOp
  Zero = Zero
  Kinds = {"edit", "enroll"}
  Impatient = {d2}
  Losable = {}
  MaxRevision = 3
  MaxLate = 1
  LockMidOp = TRUE
CHECK_DEADLOCK FALSE
INVARIANTS
  TypeOK
  EditsSurvive
  OpenIsPinned
  NothingSeenIsLost
  HardRevocationHolds
