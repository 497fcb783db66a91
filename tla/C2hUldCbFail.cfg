\* Packet callback path: a callback that fails and is retried later.
CONSTANTS
  RngSz = 4
  RngSzWrb = 3
  BufSz = 2
  QConfs <- MCConfsUld
  r1 = r1
  r2 = r2
  r3 = r3
  SubmitReqs = {}
  ReadReqs = {}
  ReqSegs <- MCSegs
  InitPending <- MCNoPending
  EntryKinds = {"data"}
  PktLens = {0, 1, 3}
  MaxBudget = 2
  MaxBytes = 5
  MaxEntries = 4
  CbMayFail = TRUE
  AllocMayFail = FALSE
  UIntMod = 256
SPECIFICATION Spec
CHECK_DEADLOCK FALSE
INVARIANT AvailMatchesRing
