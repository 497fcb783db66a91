\* Default path under fair polling: r1 is queued when the queue starts and
\* r2 is submitted at any later point.
CONSTANTS
  RngSz = 4
  RngSzWrb = 3
  BufSz = 2
  QConfs <- MCConfsPlain
  r1 = r1
  r2 = r2
  r3 = r3
  SubmitReqs = {r1, r2}
  ReadReqs = {}
  ReqSegs <- MCSegs
  InitPending <- MCPendingFirst
  EntryKinds = {"data"}
  PktLens = {0, 1, 3}
  MaxBudget = 2
  MaxBytes = 5
  MaxEntries = 4
  CbMayFail = FALSE
  AllocMayFail = FALSE
  UIntMod = 256
SPECIFICATION FairSpec
CHECK_DEADLOCK FALSE
PROPERTY WaitingRequestGetsData
