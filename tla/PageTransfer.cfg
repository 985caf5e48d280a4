SPECIFICATION TransferSpec
CONSTANTS
  Cpu = {c1}
  Task = {t1, t2}
  None = None
  NumPages = 2
  Quota = 2
  CoreMax = 1
  SizeMax = 7
INVARIANT SomePagePromiseKept
CHECK_DEADLOCK FALSE
