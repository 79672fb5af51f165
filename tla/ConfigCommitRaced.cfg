SPECIFICATION Spec
CONSTANTS
  Instance <- MCInstance
  Op <- MCOp
  Account <- MCAccount
  Legacy <- MCLegacy
  Keep = 0
  MaxRecords = 3
  MaxExpired = 3
  MaxFaults = 0
  MaxCrashes = 0
  Kinds = {"page"}
  NoOp = NoOp
  NoAccount = NoAccount
  Plain = Plain
  NoDraft = NoDraft
  NoRecord = NoRecord
  NoJob = NoJob
  NoDigest = NoDigest
  i1 = i1
  i2 = i2
  o1 = o1
  o2 = o2
  a1 = a1
  a2 = a2
  a0 = a0
PROPERTY ExternalChangeIsSeen
SYMMETRY MCSymmetry
CHECK_DEADLOCK FALSE
