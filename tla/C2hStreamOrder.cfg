\* Default path: the byte order seen by requests across partial drains.
CONSTANTS
  RngSz = 4
  RngSzWrb = 3
  BufSz = 2
  QConfs <- MCConfsDflt
  r1 = r1
  r2 = r2
  r3 = r3
  SubmitReqs = {r1, r2}
  ReadReqs = {r3}
  ReqSegs <- MCSegs
  InitPending <- MCNoPending
  EntryKinds = {"data"}
  PktLens = {0, 1, 3}
  MaxBudget = 2
  MaxBytes = 5
  MaxEntries = 4
  CbMayFail = FALSE
  AllocMayFail = FALSE
  UIntMod = 256
SPECIFICATION Spec
CHECK_DEADLOCK FALSE
INVARIANT StreamInOrder
