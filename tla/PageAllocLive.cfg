\* Termination of free_task: no symmetry, two cores, a core list that
\* overflows in the middle of the loop.
SPECIFICATION FairSpec
CONSTANTS
  Cpu = {c1, c2}
  Task = {t1, t2}
  None = None
  NumPages = 3
  Quota = 2
  CoreMax = 1
  SizeMax = 7
PROPERTY FreeTaskEnds
CHECK_DEADLOCK FALSE
