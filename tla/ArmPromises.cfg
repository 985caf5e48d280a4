\* One core is enough; a call that is answered without a handler, one that has a
\* handler, and one that is not there.
SPECIFICATION PromisesSpec
CONSTANTS
  Cpu = {c1}
  NumDesc = 2
  Retries = 1
  None = None
  Number = {0, 4, 11}
  Value = {v1, v2}
INVARIANT SomeArmPromiseKept
CHECK_DEADLOCK FALSE
