SPECIFICATION FarmSpec
CONSTANTS
  Device = {d1}
  Holder = {t1}
  Nobody = Nobody
  MaxFence = 2
  Loop = {l1, l2}
INVARIANTS
  ResetAfterLease
