SPECIFICATION Spec
CONSTANTS
  NumMsgs = 3
  Message = {m1, m2}
  Nothing = Nothing
INVARIANTS
  TypeOK
  SlotsPartitioned
  RefusesOnlyWhenFull
PROPERTIES
  IsFifo
