\* Three threads at a mutex of any type and a condition variable: two waiters and
\* one that signals, in any order and exchange of roles; one timed wait runs out.
SPECIFICATION CndSpec
CONSTANTS
  Client = {t1, t2, t3}
  Nobody = Nobody
  MaxDepth = 2
  MaxExpired = 1
SYMMETRY ClientSymmetry
INVARIANTS
  CndTypeOK
  LockExact
  FlagExact
  ExactUntilTimeout
  SignalLostOnlyByRace
  BroadcastLostOnlyByReset
PROPERTY IsMutex
CHECK_DEADLOCK FALSE
