SPECIFICATION FairSpec
CONSTANTS
  h1 = h1
  o1 = o1
  o2 = o2
  last = last
  NoDevice = NoDevice
  Host = {h1}
  Device = {d1}
  Org = {o1}
  Session = {s1, s2}
  HostOf <- MCHostOf
  OrgOf <- MCOrgOf
  Fits <- MCFits
  WebDriver = {}
  MaxConcurrent <- MCCap1
  MaxResetAttempts = 2
  MaxFence = 3
  MaxAsked = 1
  Features <- MCLive
PROPERTIES
  ResetIsSettled RecoveryIsSettled
