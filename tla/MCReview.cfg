SPECIFICATION Spec
CONSTANTS
  i1 = i1
  c1 = c1
  c2 = c2
  Items = {i1}
  Categories = {c1, c2}
  NoCategory = NoCategory
  Polled <- MCPolled
  PendingHours = 0
  EscalationHours = 2
  MaxTime = 2
PROPERTY ToldOnce
CHECK_DEADLOCK FALSE
