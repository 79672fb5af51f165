SPECIFICATION FairSpec
CONSTANTS
  Host <- MCHost
  Run <- MCOneRun
  Server = {s}
  HostOf <- MCOneHostOf
  Command <- MCCommand
  GuardOf <- MCGuardOf
  MaxFaults = 1
  NoRun = NoRun
  p = p
  a = a
  b = b
  s = s
  c1 = c1
  c2 = c2
PROPERTIES SubtreeReclaimed
CHECK_DEADLOCK FALSE
