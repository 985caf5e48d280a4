\* Three threads, and one timed wait that runs out.
SPECIFICATION CndSpec
CONSTANTS
  Client = {t1, t2, t3}
  Nobody = Nobody
  MaxDepth = 2
  MaxExpired = 1
SYMMETRY ClientSymmetry
INVARIANT SomeCndPromiseKept
CHECK_DEADLOCK FALSE
