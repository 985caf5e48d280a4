\* Two cores, three kernel pages for tasks, three user pages.  A quota of two
\* is reached, a core list overflows at its second page, the pool runs dry.
SPECIFICATION Spec
CONSTANTS
  Cpu = {c1, c2}
  Task = {t1, t2, t3}
  None = None
  NumPages = 3
  Quota = 2
  CoreMax = 1
  SizeMax = 7
SYMMETRY TaskSymmetry
INVARIANTS
  TypeOK
  ListsMatchOwners
  OneHome
  CountsExact
  CoreListsExact
  CallsExclusive
PROPERTY PagesOwned
CHECK_DEADLOCK FALSE
