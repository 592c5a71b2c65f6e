SPECIFICATION FairSpec
CONSTANTS
  MaxActions = 1
  MaxFence = 2
  OfferLimit = 1
  Loop = {l1, l2, l3}
  MaxRuns = 2
INVARIANTS
  ToldTheTruth StraysOnlyIfCaught RunsAgainOnlyIfStale
PROPERTIES
  EveryActionSettles
