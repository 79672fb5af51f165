SPECIFICATION Spec
CONSTANTS
  Proc <- MCProc
  p1 = p1
  p2 = p2
  Tx <- MCTx
  Id = {i1, i2}
  Path <- MCPath
  IdOf <- MCIdOf
  GenOf <- MCGenOf
  WritesOf <- MCWritesOf
  MaxFaults = 0
  NoProc = NoProc
  NoTx = NoTx
  Missing = Missing
  Old = Old
  x1 = x1
  x2 = x2
  i1 = i1
  i2 = i2
  a = a
  b = b
  c = c
INVARIANTS StartIsNotRefused
CHECK_DEADLOCK FALSE
