SPECIFICATION Spec
CONSTANTS
  Task <- MCOneTask
  Project <- MCProject
  ProjectOf <- MCOneProjectOf
  NoProject = NoProject
  NoTask = NoTask
  NoCandidate = NoCandidate
  Slot = {w1, w2}
  Schedules <- MCTwoSchedules
  InitialFiles <- MCFiles
  MaxTaskRuns = 2
  MaxNow = 3
  MaxEdits = 1
  MaxFaults = 1
  MaxCrashes = 2
  MaxManual = 1
  t1 = t1
  t2 = t2
  p1 = p1
INVARIANTS RunsAccounted ClaimOutlivesRun ShownIsDurable NoReplay OnceIsAnswered
PROPERTIES DeletedStaysDeleted RevokedNeverRuns OnceRunsOnTime
SYMMETRY MCSymmetry
CHECK_DEADLOCK FALSE
