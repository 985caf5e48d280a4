SPECIFICATION Spec
CONSTANTS
  Page = {p1, p2, p3, p4}
  MaxSlot = 2
  NumMsgs = 2
  None = None
SYMMETRY PageSymmetry
VIEW LiveView
INVARIANTS
  TypeOK
  ReadyExact
  EndsExact
  SendersReachReceivers
  DispatchExact
  SchedulerListsExact
  OneThreadRuns
CHECK_DEADLOCK FALSE
