SPECIFICATION Spec
CONSTANTS
  Thread = {t1, t2}
  Id = {r1, r2, r3}
  t1 = t1
  t2 = t2
  r1 = r1
  r2 = r2
  r3 = r3
  Var = {"TMPDIR", "APP_PORT"}
  ProcessVars = {"TMPDIR"}
  Config = {"TestConfig"}
CHECK_DEADLOCK FALSE
SYMMETRY Symmetry
INVARIANTS
  MockVarsReclaimed
  SoleTesterIsolated
