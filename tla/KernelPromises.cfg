\* Kernel pages for two tasks and a channel between them.
SPECIFICATION PromisesSpec
CONSTANTS
  Page = {p1, p2, p3}
  MaxSlot = 2
  NumMsgs = 2
  None = None
INVARIANT SomeKernelPromiseKept
CHECK_DEADLOCK FALSE
