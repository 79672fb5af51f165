SPECIFICATION FairSpec
CONSTANTS
  Run <- MCRun
  Launched = {r1}
  Child = {c1}
  Message = {m1}
  Buffer = 1
  MaxSteps = 2
  MaxFaults = 1
  NoRun = NoRun
  Other = Other
  r1 = r1
  r2 = r2
  c1 = c1
  m1 = m1
INVARIANTS OwnerCoversRun DelegatesKeepRoot DoneSawAll CompactionExcludesRuns
PROPERTIES InjectionAnswered DelegatesEnd
CHECK_DEADLOCK FALSE
