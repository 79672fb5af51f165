SPECIFICATION FairSpec
CONSTANTS
  Caller <- MCCaller
  Pid <- MCPid
  PidOf <- MCPidOf
  Resource <- MCResource
  r1 = r1
  r2 = r2
  Run <- MCRun
  Claims <- MCClaims
  a = a
  b = b
  Reaper = {c2}
  MaxGen = 2
  MaxLost = 1
  NoFile = NoFile
  Blank = Blank
  NoCaller = NoCaller
  NoLease = NoLease
  c1 = c1
  c2 = c2
  p1 = p1
  p2 = p2
INVARIANTS HeldOnDisk
PROPERTIES CallsReturn ImplementsContract
CHECK_DEADLOCK FALSE
