SPECIFICATION FairSpec
CONSTANTS
  Host <- MCHost
  Run <- MCTwoRuns
  Server = {s}
  HostOf <- MCTwoHostOf
  Command <- MCCommand
  GuardOf <- MCGuardOf
  MaxFaults = 1
  NoRun = NoRun
  p = p
  a = a
  b = b
  s = s
  c1 = c1
  c2 = c2
INVARIANTS RootCoversCommands SettledIsClean OrphanReceiptCoversServers
PROPERTIES OrphansDie RootIsFreed
CHECK_DEADLOCK FALSE
