\* Both queue confs: the default path (no callback, udd enabled), which
\* drains into queued requests and packet reads, and the packet callback
\* (ULD) path with callbacks and buffer allocation succeeding.
CONSTANTS
  RngSz = 4
  RngSzWrb = 3
  BufSz = 2
  QConfs <- MCConfsBoth
  r1 = r1
  r2 = r2
  r3 = r3
  SubmitReqs = {r1, r2}
  ReadReqs = {r3}
  ReqSegs <- MCSegs
  InitPending <- MCNoPending
  EntryKinds = {"data", "udd", "err", "fmt"}
  PktLens = {0, 1, 3}
  MaxBudget = 2
  MaxBytes = 5
  MaxEntries = 4
  CbMayFail = FALSE
  AllocMayFail = FALSE
  UIntMod = 256
SPECIFICATION FairSpec
CHECK_DEADLOCK FALSE
INVARIANT TypeOK
INVARIANT ValidMarksUndrained
INVARIANT HwSlotsArmed
INVARIANT AvailMatchesRing
INVARIANT CmplRingSound
INVARIANT DlenMatchesSlots
INVARIANT CreditAfterDrain
INVARIANT RequestProgress
PROPERTY ReportedDataDrained
