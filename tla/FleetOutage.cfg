SPECIFICATION Spec
CONSTANTS
  h1 = h1
  o1 = o1
  o2 = o2
  last = last
  NoDevice = NoDevice
  Host = {h1}
  Device = {d1}
  Org = {o1}
  Session = {s1}
  HostOf <- MCHostOf
  OrgOf <- MCOrgOf
  Fits <- MCFits
  WebDriver = {}
  MaxConcurrent <- MCCap2
  MaxResetAttempts = 1
  MaxFence = 2
  MaxAsked = 1
  Features <- MCOutage
SYMMETRY Symmetry
INVARIANTS
  CleanUnlessWithdrawn NoDeviceStranded
PROPERTIES
  JudgementStands OutOfServiceGivesNothing DrainStands LeaseHolds
