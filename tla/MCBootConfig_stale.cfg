\* A set whose writes fail, and what it prints.
SPECIFICATION Spec
CONSTANTS
  p1 = p1
  p2 = p2
  Procs <- OneProc
  EbCnt = 3
  PtrSize = 4
  EpochMod = 4
  EpochLimit = 2
  Issued <- MixedCommands
  Faults <- WritesFail
  AtomicOverwrite = TRUE
INVARIANTS
  SetPrintsNand
