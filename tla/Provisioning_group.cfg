CONSTANTS
  Cards = {"image"}
  BootSlots = {"a"}
  MaxCuts = 1
  MaxKeys = 2
SPECIFICATION Spec
INVARIANT GroupMeansPrepared
