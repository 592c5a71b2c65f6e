SPECIFICATION Spec
CONSTANTS
  h1 = h1
  o1 = o1
  o2 = o2
  last = s2
  NoDevice = NoDevice
  Host = {h1}
  Device = {d1, d2}
  Org = {o1, o2}
  Session = {s1, s2}
  HostOf <- MCHostOf
  OrgOf <- MCOrgOf
  Fits <- MCFits
  WebDriver = {s2}
  MaxConcurrent <- MCCap1
  MaxResetAttempts = 1
  MaxFence = 2
  MaxAsked = 1
  Features <- MCLeases
SYMMETRY Symmetry
INVARIANTS
  Custody FenceNamesOneSession
