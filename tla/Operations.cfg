SPECIFICATION FairSpec
CONSTANTS
  Op = {o1, o2}
  MaxMinute = 1
INVARIANTS
  SucceededWasReached FailedDidNothing LastWayBack
PROPERTIES
  EveryOperationSettles
