SPECIFICATION Spec
CONSTANTS
  Threads = {t1, t2}
  N = 2
  CodeMod = 2
  Args = {0, 3}
  Values = {3}
  MaxCalls = 3
  MaxProgs = 2
INVARIANTS TypeOK NoInvention CountReleased LastCommandWins XResetReleases StatusCurrent
CHECK_DEADLOCK FALSE
