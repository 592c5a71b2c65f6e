SPECIFICATION MeterSpec
CONSTANTS
  MaxSession = 2
  MaxClock = 2
  MaxBuffered = 2
  MaxViewers = 1
  MaxPurged = 1
INVARIANTS
  NeverBilledTwice NothingGivenAway OneSessionAtATime
