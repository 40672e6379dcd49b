CONSTANTS
  Cards = {"blank", "image"}
  BootSlots = {"a", "b"}
  MaxCuts = 3
  MaxKeys = 4
SPECIFICATION FairSpec
INVARIANTS TypeOK NothingLost MountsWhatWasSigned
PROPERTY RunsInField
