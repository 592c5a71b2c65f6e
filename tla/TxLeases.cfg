SPECIFICATION Spec
CONSTANTS
  o1 = o1
  NoDevice = NoDevice
  NoTx = NoTx
  Tick = {k1, k2}
  Org = {o1}
  Device = {d1, d2}
  Session = {s1, s2}
  OrgOf <- MCOrgOf
  MaxConcurrent <- MCCap1
  MaxFence = 2
SYMMETRY Symmetry
INVARIANTS
  CommittedCustody BackstopNeverFires OnlyThePromotedPassTheCap
PROPERTIES
  CommitsKeepLease OnlyAPromotionRevives
