CONSTANTS
  Devices <- MCDevices
  Boards <- AllBoards
  HasParam <- MCHasParam
  MaxMoves = 2
  MaxFaults = 2
SPECIFICATION FairSpec
INVARIANTS FdtFits OneSlot StopsForMissingFile NetFollowsDevice
PROPERTY NetSettles
