CONSTANTS
  Identities <- MCIdentities
  MaxChanges = 2
  MaxCuts = 2
SPECIFICATION FairSpec
INVARIANTS LocalKept OneType SecondName
PROPERTY Settles
