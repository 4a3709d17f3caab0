\* One person's memberships over five days; two subscribers, one group for members and
\* one for all; three rows of members to be migrated; two users, and two workers.
SPECIFICATION PartsSpec
CONSTANTS
    LastDay = 5
    MaxBuys = 4
    MaxChanges = 4
    Addresses = {a1, a2}
    GroupNames = {news, races}
    ForMembers = {races}
    NoSubscriber = nobody
    NoImport = noimport
    MaxTurns = 3
    MemberIds = {1, 2, 3}
    PersonNames = {1}
    BirthDays = {1, 2}
    Genders = {1, 2}
    Stretch <- MCStretches
    ShipIds = {1, 2}
    NoTables = notables
    People = {u, v}
    Workers = {w1, w2}
    MaxRow = 4
    MaxEdits = 1
INVARIANTS TablesStand MailingFollows MigrationKeeps OneLocalUser
PROPERTY ListedAreMembers
CHECK_DEADLOCK FALSE
