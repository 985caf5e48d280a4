\* One thread beside the main one, three keys that all have destructors, and a node
\* for each; times as in TinyCThread.cfg, some too far away for their DWORD.
SPECIFICATION PromisesSpec
CONSTANTS
  Child = {c1}
  Key = {1, 2, 3}
  DtorKey = {1, 2, 3}
  MaxNode = 3
  Rounds = 2
  NoNode = NoNode
  NsPerMs = 3
  MsPerSec = 2
  Dword = 8
  Horizon = 26
INVARIANT SomeTinyPromiseKept
CHECK_DEADLOCK FALSE
