SPECIFICATION Spec
CONSTANTS
  Device = {d1, d2}
  Founder = d1
  Edit = {e1}
  Body = {}
  NoRevision = NoRevision
  NoVault = NoVault
  NoOp = NoOp
  Zero = Zero
  Kinds = {"soft"}
  Impatient = {}
  Losable = {}
  MaxRevision = 3
  MaxLate = 0
  LockMidOp = TRUE
CHECK_DEADLOCK FALSE
INVARIANT HeadOpens
