\* Two instances that overlap in every way, on three blocks.
SPECIFICATION PairSpec
CONSTANTS
  p1 = p1
  p2 = p2
  Procs <- TwoProcs
  EbCnt = 3
  PtrSize = 4
  EpochMod = 8
  EpochLimit = 2
  Issued <- KernelCommands
  Faults <- NoFaults
  AtomicOverwrite = TRUE
INVARIANTS
  UndisturbedTakesEffect
