CONSTANTS
  Devs = {"sda1"}
  Prefixes = {}
  MaxEvents = 3
SPECIFICATION Spec
INVARIANT PopulatedKept
CHECK_DEADLOCK FALSE
