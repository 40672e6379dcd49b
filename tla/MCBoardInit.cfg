CONSTANTS
  SwitchBoards <- AllSwitchBoards
  Lanspeeds <- MCLanspeeds
  Port6Phys <- Phys
  MaxBoots = 1
  MaxNacks = 5
SPECIFICATION FairBoardSpec
INVARIANTS OneOperation BmcrKept SpeedAsTold HubResetBeforeUse DetectionTrue DevicesReady
PROPERTIES ConfigEnds
CHECK_DEADLOCK FALSE
