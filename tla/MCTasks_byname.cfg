\* A member has a task by name and not by a position.
SPECIFICATION BoundedSpec
CONSTANTS
  g1 = g1
  g2 = g2
  t1 = t1
  p1 = p1
  p2 = p2
  u1 = u1
  u2 = u2
  k1 = k1
  k2 = k2
  FieldIds = {k1, k2}
  FieldTypes = {"text", "datetime", "upload", "display"}
  OpenForms = {o1}
  NoRow = norow
  FinalDay = 1
  MaxEntries = 2
  MaxFiles = 2
  Groups = {g1, g2}
  Tasks = {t1}
  Positions = {p1, p2}
  Members = {u1, u2}
  Requests = {q1, q2}
  Idle = idle
  Forms <- MCForms
  MaxSaves = 2
  Year = 3
  Never = never
  NoPosition = none
  Configs <- MCConfigs
  MarkRequests = {r1, r2}
  LastDay = 3
  MaxMarks = 2
  MaxTaskSaves = 1
INVARIANT TrackerOpens
CHECK_DEADLOCK FALSE
