SPECIFICATION Spec
CONSTANTS
  Instance <- MCInstance
  Op <- MCOp
  Account <- MCAccount
  Legacy <- MCLegacy
  Keep = 0
  MaxRecords = 3
  MaxExpired = 3
  MaxFaults = 1
  MaxCrashes = 1
  Kinds = {"page", "role", "prune", "secure"}
  NoOp = NoOp
  NoAccount = NoAccount
  Plain = Plain
  NoDraft = NoDraft
  NoRecord = NoRecord
  NoJob = NoJob
  NoDigest = NoDigest
  i1 = i1
  i2 = i2
  o1 = o1
  o2 = o2
  a1 = a1
  a2 = a2
  a0 = a0
INVARIANTS SecretsAvailable SecretsRegistered
PROPERTIES AtMostOnce NothingReverted NoBlindOverwrite
SYMMETRY MCSymmetry
CHECK_DEADLOCK FALSE
