\* One person's memberships over five days: do memberdates contain their memberships?
SPECIFICATION Spec
CONSTANTS
    LastDay = 5
    MaxBuys = 4
    MaxChanges = 4
INVARIANT Contained
CHECK_DEADLOCK FALSE
