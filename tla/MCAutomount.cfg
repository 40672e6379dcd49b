CONSTANTS
  Devs = {"sda1", "sda10"}
  Prefixes <- OneInTen
  MaxEvents = 6
SPECIFICATION FairSpec
PROPERTY Remounts
CHECK_DEADLOCK FALSE
