SPECIFICATION Spec
CONSTANTS
  Device = {d1}
  Body = {b1, b2}
  NoRevision = NoRevision
  Txn = {t1, t2}
  Requests <- MCRequests
  BeginImmediate = TRUE
  ForUpdate = FALSE
  MaxCrashes = 1
INVARIANT AckedOnce
