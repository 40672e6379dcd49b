\* One instance of the tool at a time on three blocks; writes fail, blocks go
\* bad and the power is cut at every step.
SPECIFICATION FairSpec
CONSTANTS
  p1 = p1
  p2 = p2
  Procs <- OneProc
  EbCnt = 3
  PtrSize = 4
  EpochMod = 4
  EpochLimit = 2
  Issued <- EveryKind
  Faults <- WritesFail
  AtomicOverwrite = TRUE
INVARIANTS TypeOK SetKeepsBase SetTakesEffect HealthyTakesEffect DuplicatesAgree
PROPERTIES ImplementsRegister Terminates
