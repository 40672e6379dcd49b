CONSTANTS
  MaxUptime = 4
  MaxFaults = 2
  Resumes = {7, 8}
SPECIFICATION FairSpec
INVARIANT HealthyIsNotCut
PROPERTIES NoBeatAfterPoweroff PowerEnds
