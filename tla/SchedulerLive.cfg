SPECIFICATION FairSpec
CONSTANTS
  Task <- MCTask
  Project <- MCProject
  ProjectOf <- MCProjectOf
  NoProject = NoProject
  NoTask = NoTask
  NoCandidate = NoCandidate
  Slot = {w1, w2}
  Schedules <- MCEvery
  InitialFiles <- MCEveryFiles
  MaxTaskRuns = 1
  MaxNow = 2
  MaxEdits = 1
  MaxFaults = 1
  MaxCrashes = 0
  MaxManual = 1
  t1 = t1
  t2 = t2
  p1 = p1
PROPERTIES DueIsServed ResultsAreSaved
CHECK_DEADLOCK FALSE
