SPECIFICATION Spec
CONSTANTS
  i1 = i1
  i2 = i2
  c1 = c1
  c2 = c2
  e1 = e1
  e2 = e2
  t1 = t1
  u1 = u1
  b1 = b1
  b2 = b2
  f1 = f1
  f2 = f2
  x1 = x1
  a1 = a1
  a2 = a2
  Posts = {1, 2, 3}
  FeedTags = {t1}
  Places = {x1}
  NoPlace = NoPlace
  Dates = {1, 2}
  Keys <- MCKeys
  Asks = {a1, a2}
  NoFeed = NoFeed
  PageSize = 2
  TTL = 1
  EndOfTime = 1
  MaxEdits = 1
  GroupIds = {1, 2, 3}
  SystemGroups = {3}
  CategoryIds = {1, 2, 3}
  TagGroupIds = {1, 2}
  Settings = {1, 2, 3, 4}
  OfInterest <- MCInterest
  Connecting = {2, 3}
  ListItems <- MCListItems
  GroupsPage = 2
  NoParent = NoParent
  NoReport = NoReport
  Sites <- MCSites
  MaxMoves = 1
  NoCategory = NoCategory
  Items = {i1, i2}
  Categories = {c1, c2}
  Polled <- MCPolled
  PendingHours = 1
  EscalationHours = 2
  MaxTime = 3
  Starts <- MCStarts
  Overrides <- MCOverrides
  NoTag = ""
  Contents <- MCContents
  PerPage = 2
  NoExport = NoExport
  MaxSiteChanges = 2
  NoEvent = NoEvent
  Events = {e1, e2}
  Tags = {t1}
  CsvFiles <- MCCsvFiles
  Users = {u1}
  BirthDates = {b1, b2}
  Forms = {f1, f2}
  Months <- MCMonths
  Days <- MCDays
  LastDay = 2
  Years = {2}
  MaxRows = 2
SYMMETRY Symmetric
INVARIANT FormsAndDays
INVARIANT FeedsTell
INVARIANT ReportTells
INVARIANT ExportTells
PROPERTY NoticesRemember
PROPERTY ImportRemembers
PROPERTY CleanPollSettles
CHECK_DEADLOCK FALSE
