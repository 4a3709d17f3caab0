\* A task of two positions and two members, two requests that mark or save it, two that edit groups;
\* and the wizard and the Position Dates table over the terms of two members.
SPECIFICATION LeadershipSpec
CONSTANTS
  g1 = g1
  g2 = g2
  t1 = t1
  p1 = p1
  p2 = p2
  u1 = u1
  u2 = u2
  k1 = k1
  k2 = k2
  FieldIds = {k1, k2}
  FieldTypes = {"text", "datetime", "upload", "display"}
  OpenForms = {o1}
  NoRow = norow
  FinalDay = 1
  MaxEntries = 2
  MaxFiles = 2
  Groups = {g1, g2}
  Tasks = {t1}
  Positions = {p1, p2}
  Members = {u1, u2}
  Requests = {q1, q2}
  Idle = idle
  Forms <- MCForms
  MaxSaves = 2
  Year = 3
  Never = never
  NoPosition = none
  Configs <- MCConfigs
  MarkRequests = {r1, r2}
  LastDay = 3
  MaxMarks = 2
  MaxTaskSaves = 1
  Users = {w1, w2}
  Quals = {plain, interim}
  LastDate = 2
  MaxSlots = 2
  WizardRequests = {x1}
  MaxRows = 2
SYMMETRY SameNames
CONSTRAINT FewRows
INVARIANT NoLoops
INVARIANT FieldsHold
INVARIANT DoneForThePosition
INVARIANT CompletionsCount
PROPERTY MarkHelps
PROPERTY HistoryKept
PROPERTY DisjointKept
PROPERTY SelectionApplied
PROPERTY FutureMembersKept
CHECK_DEADLOCK FALSE
