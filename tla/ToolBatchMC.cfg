SPECIFICATION FairSpec
CONSTANTS
  Main = main
  Child = {c1, c2}
  Slot = {m1, m2, s1, s2}
  RtOf <- MCRtOf
  Menu <- MCMenu
  Path = {1, 2, 3}
  Clash <- MCClash
  Title = {w, x, y, z}
  Refines <- MCRefines
  InitialTodos = {{x}}
  Careful = {main}
  Permits = 1
  Budgets <- MCBudgets
  Nobody = Nobody
  c1 = c1
  c2 = c2
  m1 = m1
  m2 = m2
  s1 = s1
  s2 = s2
  w = w
  x = x
  y = y
  z = z
INVARIANTS ClaimsExclude WritersExclude
PROPERTIES ScopeIsAsked StopReturns LocksAreGranted
CHECK_DEADLOCK FALSE
