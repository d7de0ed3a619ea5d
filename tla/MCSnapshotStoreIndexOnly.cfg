SPECIFICATION Spec
CONSTANTS
  Device = {d1}
  Body = {b1}
  NoRevision = NoRevision
  Txn = {t1, t2}
  Requests <- MCRequests
  BeginImmediate = FALSE
  ForUpdate = FALSE
  MaxCrashes = 1
INVARIANTS
  NoOrphanRows
  OneWriter
PROPERTY ImplementsLog
