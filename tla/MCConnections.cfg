SPECIFICATION FairSpec
CONSTANTS
  Conns = {x, y}
  Callers = {k1, k2}
  Tasks = {t1, t2}
  NoTask = NoTask
INVARIANTS SuccessMeansClosed OpenIsRetained
PROPERTIES StaleIsClosed
