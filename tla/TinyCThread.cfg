\* Three threads at a once_flag; one thread with three keys and as many nodes;
\* three nanoseconds to the millisecond, two milliseconds to the second, and a
\* DWORD of eight.
SPECIFICATION TinySpec
CONSTANTS
  Caller = {t1, t2, t3}
  NoOne = NoOne
  Child = {c1}
  Key = {1, 2, 3}
  DtorKey = {1, 2}
  MaxNode = 3
  Rounds = 2
  NoNode = NoNode
  NsPerMs = 3
  MsPerSec = 2
  Dword = 8
  Horizon = 20
INVARIANTS
  TinyTypeOK
  ExactlyOnce
  LockUsedReady
  JoinSeesClean
  CrashesExplained
  TimeoutsHold
PROPERTIES
  CallsReturn
  ThreadsEnd
CHECK_DEADLOCK FALSE
