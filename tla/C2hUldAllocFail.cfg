\* Packet callback path: page allocation fails during the refill.
CONSTANTS
  RngSz = 4
  RngSzWrb = 3
  BufSz = 2
  QConfs <- MCConfsUld
  r1 = r1
  r2 = r2
  r3 = r3
  SubmitReqs = {}
  ReadReqs = {}
  ReqSegs <- MCSegs
  InitPending <- MCNoPending
  EntryKinds = {"data"}
  PktLens = {0, 1, 3}
  MaxBudget = 2
  MaxBytes = 5
  MaxEntries = 4
  CbMayFail = FALSE
  AllocMayFail = TRUE
  UIntMod = 256
SPECIFICATION Spec
CHECK_DEADLOCK FALSE
INVARIANT HwSlotsArmed
