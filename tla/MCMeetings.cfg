\* Reports of two members and two positions; an agenda of four items; three meeting types;
\* and two pages that poll and are clicked on while RunSignup and the divisions change.
SPECIFICATION MCSpec
CONSTANTS
  p1 = p1
  p2 = p2
  m1 = m1
  t1 = t1
  t2 = t2
  m2 = m2
  h1 = h1
  Members = {m1, m2}
  Positions = {p1, p2}
  NoPosition = none
  OpenRequests = {r1, r2}
  Closed = closed
  MaxAdHoc = 1
  Headings = {h1}
  NoHeading = none
  HeadingOf <- MCHeadings
  Notes = {n1}
  HasActions = TRUE
  HasAutoItem = TRUE
  MaxItems = 4
  Types = {t1, t2, t3}
  NoType = none
  MaxMeetings = 2
  MaxActions = 1
  FinalDay = 2
  a1 = a1
  a2 = a2
  b1 = b1
  NumDivisions = 2
  MaxPlace = 1
  Results = {a1, a2, b1}
  Bib <- BibOfResult
  NoResult = nobody
  Pages = {q1, q2}
  MaxChanges = 1
  MaxUpdates = 1
  SlowPage = q1
  MaxRows = 2
CONSTRAINT FewRows FewPickUps
SYMMETRY SameRequests
INVARIANT ReportsShown
INVARIANT AgendaWhole
INVARIANT SeriesHolds
PROPERTY RenewalCarries
PROPERTY OneActiveEach
PROPERTY AwardsKept
PROPERTY ReplacementWarns
PROPERTY PollFollows
CHECK_DEADLOCK FALSE
