SPECIFICATION FairFarm
CONSTANTS
  Device = {d1}
  Holder = {t1}
  Nobody = Nobody
  MaxFence = 2
  Loop = {l1, l2}
INVARIANTS
  PoolIsClean HolderAlone HolderIsLetIn
PROPERTIES
  DirtyIsEmptied
