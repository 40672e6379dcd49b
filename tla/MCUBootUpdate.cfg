CONSTANTS
  BootLimit = 3
  Images <- MCImages
  Hardwares <- Boards
  Reports <- AnyReport
  MaxFaults = 2
SPECIFICATION FairSpec
INVARIANTS TypeOK TrialsBounded FallbackIsProven NeverBootsHalfWritten LegacyOnlyOnOpenBoard KernelMatchesSlot SecureMeansSigned
PROPERTY Recovers
