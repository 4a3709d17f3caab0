# Formal models of members

This directory holds TLA+ models of the parts of members (Flask application "membertility",
`src/app/src/members`, and its commands, `src/app/src/scripts`) whose correctness depends on what
overlaps with what: requests of several people, nightly jobs, polls of open pages, calls of external
services. TLC checks the models on small instances; TLAPS proves theorems about them for every value of
their constants. `PROJECT.json` relates every definition to the lines it was translated from.

    tlc -workers 2 -config MCMeeting.cfg MCMeeting        # one run
    tlapm CommunityProofs.tla                             # one module of proofs

File names without a path below are under `src/app/src/members/`.


## 1. The system

Two containers run the code. **app** serves the web application: browsers of administrators and of
members, each request in a worker of its own. **crond** runs the commands of `src/app/src/scripts`
again and again. They share the MySQL databases (isolation REPEATABLE READ; all reads of a transaction see the
database as it was at its first read) and the volume `/locks`, where the Discourse rate
limiter and the synchronization keep their lock and state files. Most tables have a `version_id`:
an UPDATE or DELETE of a row that somebody else wrote since it was read raises
`StaleDataError`, and the request is rolled back. An INSERT has no such protection, nor have the
tables `awards_*`. Sessions do not flush on queries (`autoflush=False`).

External services: RunSignup (memberships, race participants, results), Discourse (community),
Mailchimp (newsletter), Google Drive (documents), a mail server.

| Component | State | Operations | What is hard |
|---|---|---|---|
| Organization positions (`views/admin/organization_admin.py`, `organization_frontend`, `helpers.py`) | `UserPosition`: terms of members in positions; tags of positions | Position Wizard: rewrite all terms of a position around an effective date; Position Dates: rows by hand | arbitrary effective dates around past, running and future terms; two administrators at once |
| Meetings: invitations (`meeting_invites.py`, `views/admin/meetings_admin.py`, `views/admin/meetings_member.py`, `scripts/meetings_cli.py`) | `Invite`, `Email` texts, the Attendees agenda item; mails sent | send invitations, discussion requests, reminders and emails; nightly job; answers on two pages; administrator's edits | look-then-insert without a constraint; members answer while mails are being sent; mails of requests that fail; lookups with `one()` that raise on two rows |
| Meetings: motions and votes (`views/admin/meetings_admin.py`, `views/admin/meetings_member.py`, `meeting_evotes.py`) | `Motion`, `MotionVote`; mails sent | create with a vote for each voter, delete, mail the links, vote by link; a table of votes by hand | votes and invitations depend on each other through tags that change; lookups with `one()` while votes are added and removed |
| Meetings: the rest (`views/admin/meetings_common.py`, `meetings_admin.py`, `reports.py`) | `StatusReport`, `MemberStatusReport`, `DiscussionItem`, `AgendaItem`, `ActionItem`, `MeetingType` and its peers | reports made when the page is first opened; agenda: add, move, hide, renew; minutes; action items of a series of meetings | creation races settled by constraints and savepoints; discussion and agenda item in two tables; peers kept mutual by hand |
| Leadership tasks (`views/admin/viewhelpers.py`, `leadership_tasks_*`, `scripts/task_cli.py`) | `Task`, `TaskGroup`, `TaskCompletion`, `TaskField`, `InputFieldData`, `Files` | complete a task on the check list or the tracker, edit tasks, groups and fields, upload files, mail reminders | groups within groups; date windows; completions that count for a position; caches filled along one way and read along another; a configuration that changes under open forms |
| Discourse rate limiter (`community.py` 40-170) | a JSON file of call times and a lock file | `acquire()` before each call | processes in two containers, dying anywhere |
| Community group synchronization (`community.py`, `sync.py`, `scripts/community_cli.py`) | Discourse groups, members, invitations; `COMMUNITY_LOCKFILE` | `syncrace`, `syncclub`, `synctag` | everything changes during the many calls of a run; calls fail and are logged; one invitation is for several groups |
| Community review notices (`community_review.py`) | `DiscourseReviewNotice` | poll the review queue, message the moderators | messages go out before the record of them is stored |
| Community events (`scripts/export_fsrc_events.py`, `community_events.py`) | a CSV file; a state file | export the events of the old site, post a topic for each | pages of a site that changes; a crash between the post and the file, or within the file |
| Community calendar and taxonomy (`community_calendar.py`, `views/frontend/community_calendar_views.py`, `community_taxonomy.py`) | a cache of feeds per worker; a document | build feeds on request; report the structure of the forum | many calls of a forum that changes; failing calls; overlapping builds |
| Awards (`views/admin/awards_admin.py`) | `AwardsRace/Event/Division/Awardee` | poll of RunSignup's results by every open page; pick-up clicks; update of divisions | polls of several pages, clicks, updates and changing results interleave, and no table has a version |
| Membership (`scripts/membership_cli.py`, `views/admin/membership_admin.py`, `views/membership_common.py`, `views/frontend/membership_frontend.py`) | `Member`, `Membership`, `MemberDates`, a statistics file; a MailChimp list | merge RunSignup's memberships; delete a membership; move MailChimp interests; list and count members | interval arithmetic over what earlier updates, edits and deletions left; a command may stop half way; subscribers choose meanwhile |
| Racing team (`views/admin/racingteam_admin.py`, `views/frontend/racingteam_frontend.py`) | `RacingTeam*` tables | applications, information and volunteer forms; configuration and open window | a form makes several rows, then a mail; a window over New Year |
| Users (`model.py` 1165-1212, `views/userrole/userrole.py`) and migrations (`src/app/src/migrations`, `dbupgrade_and_run.sh`) | `LocalUser`, a copy of a shared table | bring the copy up to date; migrations that move data | several workers at once; references to rows that are to be removed |
| Interests, files, uploads, public pages, navigation | plain tables | tables, pages that read | each post is one transaction |

Interactions: positions and their tags decide who is invited to a meeting, who votes, who has which
tasks and who is in a tag's Discourse group. All of the community commands and pages go through the
rate limiter. Invitations decide on votes. Status reports put discussions on the agenda, and meeting types decide
which action items a meeting lists. RunSignup feeds memberships, awards, race groups and the MailChimp list. All pages look
people up among the local users.

What makes each component correct:

* **Positions.** A wizard update changes nobody's term on a day before its effective date; from that
  date on exactly the selected members hold the position, with the selected qualifier; members who are not selected and only to
  come are left alone; terms of a member do not overlap.
* **Invitations.** Nobody loses an answer; one invitation each; the active flag follows the tags;
  the nightly job eventually invites whoever has come into an invited position. Nobody is invited without a mail, and
  a link that leads nowhere is replaced.
* **Votes.** A vote is on a motion there is; a motion is made with one for each voter who is invited; links lead to votes that nobody
  has removed; a request that failed and is sent again leaves nobody with two votes.
* **Reports, agendas, series.** One report for a position and meeting, shown to each of its holders and printed once; a
  discussion is on the agenda as long as it exists; a renewed agenda has what should be copied; peers are mutual, and what
  was closed is told at the next meeting.
* **Tasks.** Groups contain no loops; a completion shows on the check list of all it stands for, counts for its date, and ends
  the reminders; what was entered with it can be shown.
* **Rate limiter.** At most `max_calls` tokens in a window, over all processes; everyone is served.
* **Synchronization.** A command does not disturb other groups, takes out nobody the service
  lists, and converges to the service's list.
* **Review notices, event import.** Nothing is announced again while it is on record, except after a fault.
* **Feeds, report, export.** They differ from the forum or the site by nothing that did not change meanwhile.
* **Awards.** One active awardee for a place; who keeps the place keeps the award and the tick of having
  picked it up; a page warns when somebody else has walked off with the award.
* **Memberships.** A member's `MemberDates` are the contiguous stretches of the memberships; each membership
  lies in the one it refers to; whom RunSignup lists is a member; pages and statistics count the same. The MailChimp list keeps
  what members chose.
* **Racing team.** The answer to a form tells what became of it; applications are open on the days configured.
* **Users.** One local row for a user, and none removed that is in use.


## 2. The modules

### PositionWizard, MCPositionWizard, PositionWizardProofs

`rows` is the table `UserPosition` for one position, which is in service throughout; dates are
`1 .. LastDate`, and an empty finish date is `Forever`. `slot` stands for the primary key. A wizard request
(`PositionWizardApi.post`, `organization_admin.py` 452-580) is `Read` and then `Update`,
`UpdateOverlap` (two active rows of a member: reported) or `UpdateStale` (another `version_id`:
rolled back). `stale` holds the keys of rows that were written since a request read them; this is
what `version_id` knows. `Purged`, `Ended`, `Starting` are the three loops of the handler, in this
order. `CreateDates`, `EditDates`, `DeleteDates` are the Position Dates table. The date a form shows is
never in the past of the table or in its future: any effective date may come with any table.

### MeetingInvites, MeetingMails, MotionVotes, MCMeeting, MeetingInvitesProofs

One meeting. `invitees` is whom the invite tags stand for today, `invites` its invitations, `texts`
the number of `Email` rows with the text of its invitation mail, `attendees` the number of
Attendees items on the agenda. A request (kinds *send*, *discuss*, *remind*, and *nightly* of the job
in `meetings_cli.py`) begins with its snapshot and `Commit`s, or `Fail`s because it meets two rows where
it expects one, a version conflict, a mail error or its end. Between them members answer
(`AnswerMyMeeting`, `AnswerRsvp`), and the administrator edits (`EditInvite`, `DeleteAttendees`).

`MeetingMails` extends it with what these requests send on the way: links one by one (`MailMember`), which the commit
makes good and a failure leaves dead, the one mail of a discussion request, and *Send Email*, whose dialog shows
who was invited a while before the mail goes to all who are (`Recipients`, inactive invitations included).

`MotionVotes` extends it with the motions of the meeting: `CreateMotion` makes the votes from voters,
invitations and attendance; `DeleteMotion`, `CastVote`; the rows that an administrator adds to or removes from the Motion Votes table
(`AddVote`, `RemoveVote`); and the eVote requests, from the dialog (`OpenRequest`) over the
request (`PostRequest`) to each mail (`MailVoter`), while tags, motions and votes change. A vote is known by its link (`motionvotekey`), which
names the motion, the member and, for a vote added by hand, a number of its own. The table shows the member of a vote as read-only, and a library outside of
`src/` decides which one a new vote gets: `AddVote` has any member or `Nobody`. The dialog and the request look for *the* vote of
each voter (`IsOnly`) and fail for everybody if one has two or none. `removed` is a history that only `VotesStand` reads: it must tell links that
an administrator made dead from links that were never good.

The reminder's own `Email` row (looked up the same way), the page `MeetingStatusView.put`, votes on no motion (the button of the stand-alone page) and
two eVote requests at once are left out.

### StatusReports, MeetingAgenda, MeetingSeries, MCMeetings, MeetingsProofs

`StatusReports`: opening My Status Report makes the reports and rows that are missing (`meetings_common.py` 480-680). An open is
a request of several steps, because each insert is tried in a savepoint and what overtook it is read again;
`opening` holds what it read and where it is. (With the SQLAlchemy the repository uses, `session.commit()` within a savepoint commits the
whole transaction; the model commits each insert for this reason.) Then texts, reports without a position, removal of them, the reminder and
the document (`Document`).

`MeetingAgenda` extends it with the agenda, `items` ordered by numbers, and the discussions that members put below their reports, each with
an agenda item of its own. Items are added, moved, hidden, edited, deleted; discussions are noted at the meeting; the renewal
(`do_get` of `MeetingRenewDataApi` and the following request) builds the next agenda; `Minutes` are the groups of the minutes. A
request on the agenda is one step.

`MeetingSeries` has meeting types with their peers (`updatepeers`), meetings made, renewed, moved to other days, and
action items with the day of their last change, which a closed item shows up by.

### TaskGroups, TaskStatus, Tasks, TaskFields, MCTasks, MCLeadership, TasksProofs

`TaskGroups`: a group is a record of its tasks, positions, users and subgroups; the form checks for loops
(`_validate_taskgroup`) in what it reads and saves later. `TasksOf`, `Below` and `GroupsOf...` are the walks of `viewhelpers.py`.
`TaskStatus` has `_get_status` and `_get_expiration` as operators over day numbers: a year has `Year` days and no leap day.
`Tasks` extends both: marking a task complete, from the check list or with a date on the tracker, and saving the form of a task are
requests of two steps; `Visible` and `Seen` are the lookups of completions by the check list, `Reminded` whom `task_cli.py` mails.
`TaskFields` has one task's additional fields, the forms that are open, the entries, and the files uploaded while a form is
open. A form has the fields of when it was opened and is validated with those of when it is sent.

### RateLimiter, CommunityProofs

`CommunityProofs` has the proofs about all modules of the community forum: this one, `CommunitySync`, `EventImport`,
`ReviewNotices` and `CalendarFeed`.

`_RateLimiter.acquire` in single steps: lock, filter, sleep in the lock, filter again,
truncate the file, write it, unlock, and the call that follows at any later time. A process may end at
every step; the operating system frees its lock. Call times are ages in whole seconds that `Tick`
advances, capped at the window, because the code only compares ages with the window and subtracts the
oldest one from it. The clock never steps back. `granted`, `sent` and `losses` are histories that only
properties read. A call that Discourse refuses with 429 is repeated by the client library itself (`community.py` 110,
`raise_for_rate_limit=False`) without another `acquire()`: `sent` counts calls of the application, not these repetitions.

### CommunitySync

`SyncManager.import_group` (`sync.py`) with the Discourse side (`community.py` 290-660). A person
stands for an email address and its account. A run of a group's command takes the lock and reads users, invitations,
the service, email addresses and members, a call at a time; then it invites, adds, removes and takes
groups off invitations, each a call that may fail and be logged. An account it does not know raises
(`AddUnknown`); a failing read or the end of the process is `Die`, which includes a group id
that cannot be looked up. Outside, people sign up, come and go at the service, and are put into groups by
moderators or invited by hand. Paging is left out; invitations and their groups count as one read;
accounts are not deleted, and invitations are not withdrawn by hand.

### Awards, MCAwards, AwardsProofs

One race event. `awards` is the divisions there are and how many places of each get an award;
`awardees` is the table, with `next` for the link from an awardee who has picked up an award to the one who
replaced them. A poll is `Open` (snapshot), `Fetch` (results from RunSignup) and `Commit`;
`update_divisions` is `BeginUpdate` and `CommitUpdate`. Pick-ups may hit any awardee with any shown state,
because a page shows what its last poll answered. Awardees that a deleted division takes
along make a poll which writes them fail (`Refused`); an event that has lost all its divisions is deleted. Notes,
manual changes of priority and the CSV are left out; one update runs at a time.

A poll gives a result the first award that it *does not have yet*: the loop passes over the
division a result already has an award in, so a result with places in several divisions gets the next one
on each poll. `Due` and `Won` say just this, and `PollFollows` is therefore about results with one place.

### MembershipUpdate, MailChimpImport, MemberMigration, LocalUsers, MCMembers, MembersProofs

One person with one `Member` record. `service` is what RunSignup sells (id to days), `ships` the table `Membership`
and `dates` the table `MemberDates`; days are `1 .. LastDay`. `Update` is the command `update` of
`membership_cli.py`, one transaction that goes over the current and future memberships by their end dates (`Process`).
For each it puts the person's memberships in order (`Order`: one that was already there keeps the place of its old end
date), removes overlaps (`WithoutOverlaps`), joins contiguous ones (`DateRange`), finds memberdates for each of them
(`NewDates`, `Cases`, `Place`) and merges memberdates (`Merge`). The step between the last two, which deletes unused
memberdates, tests the memberships of the *member* and never applies to a member with one record.
`DeleteMembership` is the deletion of a row in the memberships table, with the two conditions whose failure is `dataError`.
The statistics file (`stats`) is written before the commit, and `MembersOn`, `ExpiredSince` are what the pages list.
Names, addresses, duplicates in RunSignup's list and persons who have several `Member` records are left out.

RunSignup's side is restricted, because the code needs it: memberships are not nested in one another (`Ladder`), one end of
one membership is moved at a time (`MoveEnd`), and the nightly update has run since the last change (`pending`).
Without these conditions TLC refutes `Stretches` and `ListedAreMembers`: with a membership nested in another, with two
that end on one day, and when both ends of a membership move between two updates; in the last case, for instance, the old
days stay in memberdates that no case of the code recognizes as the membership's.

`MailChimpImport` is `import2mailchimp`: it reads the current members, then the list, and then updates one subscriber after the other
from what it read; subscribers choose groups, leave and come back meanwhile, and any call may end the command. For each group for members
there is a shadow group that keeps what a lapsed member had ticked. `MemberMigration` is the migration that made the memberdates
(`db3ffeebcb11`), a recursive function over the rows in an order that the query may give them. `LocalUsers` is the local copy of the users: the
update of an earlier release that added rows, the migration that removes them (`c144e7fbb0d0`), and the present update under a lock file, by
workers that start, stop and restart.

### ReviewNotices, EventImport, Announcements

`Announcements` is an abstract specification: things are announced, put on record, and fall off the record by a fault or at the end of a
term; nothing is announced while it is on record. `ReviewNotices` (`check_pending_reviews`) and `EventImport` (`import_events`) implement it.
A poll of the review queue is, for each category, a step for the queries and one for the private message and what it makes of the category's
notices, and a commit at the end. Queries do not flush: each sees the notices as they are in the table (`notices`), and what the run adds, renews and
deletes waits in `session` for the one flush at the commit. This inserts before it deletes, and the key of the table is the item, so an
item with a notice in one category that is told in another makes it fail (`clash`, `CommitFails`), whichever is polled first. A message may
fail, or go out although the answer is lost; a crash loses the session. Each category is named once on the command line (`ReviewAssumption`).
In the import a topic is posted and then the state file is written (a write that fails leaves it as it was, or torn); a crash may fall between any two.

### EventExport, CalendarFeed, CommunityReport, Sorting, RacingTeam, MCOutreach

`EventExport` reads the events of the old site page by page while it changes, maps categories to tags and strips the widgets from a
description, which is a sequence of opening and closing tags and texts here. `CalendarFeed` builds a feed in a call for the events and several for
the places, in either of the two ways the code has, and caches it per worker. `CommunityReport` fetches one section after the other; a
section that fails is empty, groups come by pages, and the permissions of categories from a query at the end; then `BuildDocument`.
`Sorting` says what `sorted` does by how many elements stand before an element along an order that is given as a set of pairs: the
operators of the community modules take the order as an operator and cannot be reasoned about. `RacingTeam` has the three forms, each stored in one transaction and confirmed by a mail after it, and the
configuration with its open window (proofs about it are in `AwardsProofs`).


## 3. What is checked

| Run | Instance | Shows |
|---|---|---|
| `wizard_later` | 1 member, the wizard alone | violation of `SelectedServe` |
| `meeting` | part *invites*: 1 member, a web request and the nightly job, 1 motion; part *asks*: 2 voters, eVote requests and 1 vote added by hand; part *mails*: 2 members, both requests and their mails | types, `AnswersKept`, `OneInviteEach`, `ActiveFollowsTags`, `VotesStand`, `MailsLead` |
| `meeting_doubled` | 2 members, two web requests and the nightly job, under fairness | violation of `NightlyCatchesUp` |
| `meetings_awards` | 2 requests that open, 2 positions and members; an agenda of up to 4 items; 3 types, 2 meetings, 1 action item; part *awards*: 2 divisions with 1 place, 2 runners with 3 results, 2 pages, 1 change, 1 update | `ReportsShown`, `AgendaWhole`, `RenewalCarries`, `SeriesHolds`; `OneActiveEach`, `AwardsKept`, `ReplacementWarns`, `PollFollows` |
| `terms_tasks` | part *terms*: 2 members, 2 qualifiers, 2 dates and `Forever`, 1 request, at most 2 rows; parts *tasks* and *fields*: 1 task of 4 configurations, 2 positions, 2 members, 2 groups, years of 3 days; 2 fields, 2 files, 1 form | `HistoryKept`, `DisjointKept`, `SelectionApplied`, `FutureMembersKept`; `NoLoops`, `FieldsHold`, `DoneForThePosition`, `CompletionsCount`, `MarkHelps` |
| `tasks_byname` | the parts *tasks* and *fields* of these | violation of `TrackerOpens` |
| `limiter` | 3 processes, 2 calls in 3 ticks, 1 lost record | `LimiterOK`, `Served` |
| `sync` | 2 people, 2 groups, 2 outside changes, 1 failure | types, `OtherGroupsKept`, `Converges` |
| `memberships` | 5 days, 4 purchases, 4 changes; 2 subscribers with 2 groups and 3 turns; 3 member rows; 2 users and 2 workers | `TablesStand`, `ListedAreMembers`, `MailingFollows`, `MigrationKeeps`, `OneLocalUser` |
| `memberships_contained` | the first of these | violation of `Contained` |
| `reviews_moved` | 1 item in 2 categories, no faults | violation of `ToldOnce` |
| `outreach` | 2 items in 2 categories; up to 4 events; CSV files of 3 rows; 3 posts and 2 requests; a forum with 3 of each; 2 forms, 2 ranges | `NoticesRemember`, `CleanPollSettles`, `ImportRemembers`, `FeedsTell`, `ReportTells`, `ExportTells`, `FormsAndDays` |

Modules that share no state share a run: `part` says which of them a behaviour exercises, and the state of the others stands still.
`TablesStand` is a conjunction with one part for each module of its run, and its comment names them. `AgendaWhole` is
`DiscussionsOnAgenda` and `MinutesFollowAgenda`, `FormsAndDays` is `AnswersTell` and `OpensInRanges`. The types of positions, meetings, tasks, awards, the export
and the report are not repeated in their runs: the proof modules prove them.

The bounds, and why they are enough for the cases at stake:

* **Positions.** The rows of different members do not meet in the handler except through `Purged`
  and the table as a whole; two members show both. Two dates with `Forever` give
  past, running, future, open-ended and inverted terms around an effective date.
  `OneWriteNext` has one outside write during a request; more of them are covered by the proofs, which have
  no bound at all.
* **Invitations.** A member's invitations are looked up for the member alone; two overlapping requests (names
  `r1` and `job`) are enough for a doubled invitation. One invitation is edited while requests run. In the part *mails* tags change
  and the dialog opens while no request runs; two members are needed, because a request fails at the second one. The
  liveness run leaves edits out, which never change who is invited, and bounds nothing else.
* **Reports, agendas, series.** A race for a report takes two opens; the second position shows that the first one's outcome does not disturb
  it. Four agenda items are two special ones, one with a discussion and one without, moved to either end. Three types have groups of one, two and three.
* **Tasks.** A year of three days has a first, a last and a middle day, before and after the window begins; one task of each kind,
  by position or not, and three sets of terms. Two forms of groups close a loop of two groups.
* **Rate limiter.** A budget of two and a window of three ticks let calls leave the window one by one; three
  processes let one sleep, one wait and one be late with its call. `MaxLosses` bounds the lost
  records *within a window*.
* **Synchronization.** Two groups share an invitation; a third one is a second "other". Two changes
  allow a sign-up between two reads after the service changed.
* **Awards.** The second page's polls are not interrupted (`Quick`), the first page's are, by everything;
  two slow polls would only overtake each other twice. `FewStandings` keeps
  the cases: same place, place lost to another runner, other result of the same runner, both divisions led by one runner.
* **Memberships.** Four memberships have a first, a last and two in the middle, so that memberdates begin, end, are
  extended on both sides, joined and cut in two; five days leave a gap of one and of two days between them. Five days are
  also few enough that touching, overlapping and distant spans all occur for each pair. Random walks of up to 60 steps over larger instances
  (12 days, 5 purchases, 12 changes; some 700,000 states) found no violation either. Three turns are a lapse, a choice and a
  return. Three rows are enough for a row of another person between two of one.
* **Outreach.** Two categories let one fail and the other go on; items move freely between them, so that one comes back to a category that has its
  notice, and a new notice clashes with the old one, in either direction. Without faults one item is enough to be told twice (`reviews_moved`).
  Pages of two with four events shift in either direction. Descriptions are all that close what they open, of at most five tags
  and texts (the proof has no such condition). The forum changes once, in its groups or categories, before, during or after a report; of the sections
  other than the watched words, one fails.

Deadlock is not checked: a table may be full, a request list exhausted, and a system nobody
uses stands still.

### Fairness

* *Meetings.* crond starts the nightly job again and again (`WF(Nightly)`), a job comes to
  an end (`WF(JobEnds)`), and one that can commit infinitely often does so at some time (`SF(JobCommits)`): mails
  do not fail each night. Nothing is assumed of people. Under the same fairness the nightly job does invite everybody as long as
  no invitation is doubled; the run shows what a doubled one makes of it.
* *Rate limiter.* Time passes, a running process goes on (`WF`), and `InterProcessLock` polls the lock
  file, so that a waiting process finds it free at some time if it is free again and again (`SF`). Nobody has to
  call, and nobody has to crash.
* *Synchronization.* Cron starts each command again and again, and each polls the lock (`SF(Start)`); a
  command that runs goes on (`WF`). Nothing outside has to happen.

### Refinement

`NoticesRemember` and `ImportRemembers` are `Announcements!AnnouncementsSpec` with the variables of the two commands put in for the
abstract ones: *announced* is what was messaged or posted, *recorded* the notices that are valid or the state file, *forgotten* what a
fault, a lost answer or the end of a notice's term took off the record. A notice keeps an item on record while the item is in the category of the
notice and the running poll, if it has seen the item, has seen it there: an item that leaves, is seen elsewhere and comes back before the message is sent
is told again, which the code cannot avoid and the promise does not exclude. Both are checked as properties of the run `outreach`.

### Findings

1. `meeting_doubled`: two overlapping *Send Invitations* each insert an invitation (or the text of the mail);
   `one_or_none()` and `one()` raise in all later requests and in the nightly job,
   which then never invites anyone again to this meeting.
2. `memberships_contained`: when two memberdates are merged, *all* memberships of the member come to refer to the earlier
   one, those of a third stretch too. With memberships on days 1 and 4-5 and then one on day 3, the first is said to
   belong to days 3-5, which `MembershipsView.deleterow` takes for a data error and refuses to delete.
3. `tasks_byname`: when a member has a periodic or one-time task by name only, and never completed it, `get_earliestposition`
   raises `KeyError`, and the tracker, the member summary and the reminders fail for everybody.
4. `wizard_later`: a selected member who has a later term gets nothing on the effective date, neither a row nor the later one moved there, as a comment
   in the handler (`organization_admin.py` 552) and the reference have it. `FutureMembersKept` is therefore about members who are not selected.
5. `reviews_moved`: an item whose topic moves between polled categories gets a notice that breaks the unique key at the commit. All
   notices of the run are lost, and each run repeats its messages.

`OneInviteEach`, `OneActiveEach` and the wizard's properties with "as it was read" say how far the code
can be relied on without a lock: as long as nobody inserts between its reads and its commit. What happens
otherwise is finding 1 for invitations; nothing in the documentation speaks of it for awards and terms.

### Observations

Met while modelling, and kept here because no run is about them:

* *Meetings*: `RsvpView` does not set `attended`, so the default vote of a member who answered there that they attend is not to approve.
  An agenda item of a report whose position loses the tag stays out of the document (`reports.py` 102-148). `reports.py` 51 and 182 list the action items
  of all meeting types, `meetings_common.py` 975-986 those of the type and its peers. An edit that brings in a type that has
  other peers leaves pairs that are not mutual (`SeriesHolds` excludes it by `regrouped`). Minutes fail for an agenda without a visible ordinary
  item (`reports.py` 247). An invited member who holds only the link of a failed request and is then invited to a discussion gets a link that works
  only with a reminder.
* *eVotes*: the dialog and the request fail for everybody when a voter was tagged after the motion was made, or has a second vote from the Motion Votes
  table. A vote of nobody makes the minutes fail (`reports.py` 217).
* *Tasks*: on the day it expires a yearly task is up to date. `get_taskgroup_taskgroups` goes down one level only, although its docstring says recursively. A file
  that is removed, or a field that becomes an upload later, makes every page fail that shows the completion. An optional upload, or an
  overriding date, left blank makes the request fail (compare `src/docs/leadership-task-admin-reference.rst` 129). 29 February as a date of
  year raises `ValueError` in other years.
* *Awards*: the warning about an award that somebody else has picked up is lost when the results change twice before the second awardee has
  picked it up.
* *Memberships*: the statistics file is written before the commit; a deletion of a membership does not rewrite it.
* *MailChimp*: a subscriber on the list who never was a member gets all groups when becoming one (comment at `membership_cli.py` 468); a nonmember
  is removed from groups only if current member was set (comment at 615). A choice made while an import runs may be lost, which `MailingFollows`
  excludes by `raced`.
* *Migrations*: rows are sorted by gender before birth date but compared without it, so that a person recorded with two genders may be merged
  into a row that is not the latest. Users with two rows in use are left alone by the other migration, and `one()` keeps failing for them.
* *Review notices*: a category named twice on the command line is told twice in the first run, whose commit then fails, and so in every run.
* *Event import*: a state file torn by a crash stops every run until it is removed, and then all events are posted again.
* *Calendar and report*: an older build of a feed may overwrite a newer one. The section of watched words fails whenever its fetch succeeds,
  because it iterates over a dictionary.
* *Racing team*: the post of an application does not check the open window; a mail that fails after the commit reports an error, and the form is then
  sent twice.


## 4. What is proved

Every theorem holds for any members, dates, requests, groups, events, workers and failures, with no bound on their number and none of the
bounds of the MC modules. What is assumed are the named `ASSUME`s of the modules: numbers are natural numbers, special values differ from
ordinary ones, and the sets a model enumerates are finite where the proof counts. Each proof has the same shape: an inductive
invariant (`...Inv`) that adds to what a run checks the facts without which a step could not be shown to preserve it; the lemma that the
initial states have it; one lemma for each action; and the properties, which follow from it state by state or step by step.

* **SetFacts** are the lemmas about finite sets that the others share: greatest and least elements, the number of elements of an image, and sorting: along a
  total order each place is taken by one element, so that `InOrder`, `Picked` and `ByNumber` have every element once and in order.
  The induction theorems of the library take an operator as a parameter, which the provers cannot instantiate.
  `BoundedInduction` is induction over `0 .. n` for a *set* of numbers instead: there is no least number up to `n` outside it.
  It gives the existence of recursive functions over `0 .. n` and facts about each of their values.
* **PositionWizardProofs.** `TypeOK` is inductive. `SnapshotCurrent` needs it: what a request has read and
  nobody marked stale is in the table as it was read; every action that writes a row marks it (`OutdatedCurrent`).
  A request that commits therefore writes rows that are as it read them (`UpdateRows`), and `HistoryKept` follows for
  any number of writes in between. `DisjointKept`, `SelectionApplied` and `FutureMembersKept` (of members not selected) are about an update of
  the table as it was read, and follow from what `Purged`, `Ended` and `Inserted` do to each member's terms.
* **MeetingInvitesProofs.** `IInv` joins `TypeOK`, `SnapshotCurrent` and `InviteTextSaved` with two facts that they
  need: the texts a request has seen are still there (`TextsStay`), and a request has seen every invitation that
  an earlier request of its name made (`OwnRead`), without which keys could not be shown to be unique. `AnswersKept`,
  `OneInviteEach` and `ActiveFollowsTags` follow from it. `VInv` extends it to motions: every mailed link has its vote unless that was removed (`Leads`), and of two links that a
  member was mailed for a motion one is dead (`Replaced`). While an eVote request mails, the votes it has found are there or removed, whoever it found one
  vote of was mailed no other link that is alive, and those it is done with have their mails (`FoundSound`): a link
  that was mailed before is either dead or among the votes found, so that a member with one vote is mailed this one again. Votes made with a motion stay with invited
  members because no invitation is ever lost, which is where `IInv` comes in. `MailInv` extends it to mails: the links that were
  mailed are of invitations there are, and all of these but those of discussions were mailed; what a running request has mailed to somebody it had read as invited is recorded. `MailsAlwaysLead` is about the specification of
  the component; `PartsMailsLead` states it of the one that the run checks, part by part.
* **MeetingsProofs.** `SeriesInv`: the types with their peers are always a partition into mutual groups, until an edit brings a type of another group
  in, and meetings follow one another. `MeetingInv` joins the reports (`ReportsInv`: what is inserted in a savepoint is there exactly once; `OpeningInv`:
  what an open has read and how far it is) with the agenda (`AgendaInv`: ids are distinct, since one is left while there is room, and each discussion has its own item).
  `RenewalAlwaysCarries` gives the one-to-one map from the old ordinary items to the new ones: the number of items before an item
  grows along the order, so that no two items get the same number. `MinutesAlwaysFollow` places each item by how many precede it; induction over
  the items then tells what the groups of the minutes hold so far (`GroupsTell`), and the next item joins the last group or begins one (`ExtendedIs`).
* **TasksProofs.** `GroupsInv`: the recursive walk over groups (`Below`) is the least set that is closed under subgroups, and it is reached in as many levels as
  there are groups; a form that was validated leads nowhere back, in what it was read with and hence in what is stored, unless another form raced
  it. `TasksInv`: completions refer to tasks and dates there were, and follow the position of their task; what a request of two steps will write is right
  for the moment it writes it or makes it fail. The calendar arithmetic is for years of any length and windows anywhere in them. `FieldsInv` does the same for entries, fields and uploaded files.
* **AwardsProofs.** `AwardsInv`: what a poll or an update has read is, award by award, the beginning of the present table, except for awardees that others
  have deactivated since and replaced by newer ones (`SinceRead`). Every write is therefore either of rows that are as they were read or detected. The four properties of the run
  follow. For the racing team, `TeamInv` has the rows of each form and tells how far its request is; `OpensInRanges` compares the comparison of month and
  day in the code with days of the year.
* **MembersProofs.** `LocalInv` says that only one worker updates, and that the table is then as it was read, because everybody else who writes it
  belongs to a release that is no longer running (`UpdatesAlone`). An update therefore adds rows only for users who have none; the migration leaves at most one
  row of a user, because `Ranked` is total. `MailInv` of the MailChimp list: what an import has read of those it has still to update is so, but
  for what they tick meanwhile (`ListFollowed`), and who is done is in step with the club, as long as nothing else changes (`CleanSoFar`). For the migration of members, `MergedSoFar` is proved of every row in turn: the rows that are alike stand
  together in the order of the query, each is merged into the one that was read before it, and the memberships of all rows so far are settled with the days they had.
* **CommunityProofs.** `IInv` of the synchronization says of each run what its reads still tell after a while: the accounts it knows are
  registered (`KnowsAccounts`; accounts are never deleted, and users are listed first), it plans to remove nobody
  the service listed (`PlansWell`, which rests on the emails being listed after the accounts), and the invitation it
  read agrees with Discourse's on other groups unless it is gone (`ReadHolds`, which rests on the lock).
  `OtherGroupsKept` and `ListedAreKept` follow. `ImportInv` says what the file on disk, the file in memory, the topics and the unconfirmed ones have to do
  with each other at each step of an import; with it every action maps to `Announce`, to `Update` or to a
  stutter of `Announcements` (`ImportImplementsAnnouncements`). `ReviewInv` says item by item what the session has (`SessionIs`): the new notice of what the run has told, no notice of what was
  cleaned up, and otherwise the table's; and that a clash waits if a told item has a notice of another category in the table. Where none waits, the commit
  therefore leaves settled what a clean poll is done with. `RecordInv` adds that whatever was told is on record, overdue or about to be noted
  (`Accounted`); no item that is due is on record, and `NoticesAlwaysRemember` follows. Both rest on `ReviewAssumption`, that each category is named once.
  `LimiterInv`: the tokens since the latest loss of a record are in the state file, or, while it is written, in the list of who writes
  it (`GrantsOK`); when the holder's sleep is over its list has room (`HolderOK`); and each call made is traced to a token or to the one late call of
  its process (`SentOK`), which is why Discourse may see as many calls more as there are processes.
  `CalendarInv`: what a build has found follows the forum as it was when the build began, but for what was touched since; the pages of the
  query have no gaps between them, and a short one is the last.
  `ExportInv`: an event has its row as soon as it stands before the page that is read next, unless one was withdrawn meanwhile, and has one row only, unless one
  was published (`ReadsOn`, which counts what is `Earlier`). What is left of a description is traced through the parser token by token with
  `BoundedInduction` (`ParseIs`): the depth is positive just within widgets (`StripIs`), whatever is open or closed out of turn.
  `ReportInv`: of each section that a run is done with, and that neither failed nor changed since, it has the rows of the forum, and of the
  groups the first pages (`Gathers`). `CategoryOrder` is total, and puts a category directly behind its parent or its parent's other subcategories;
  the document built from such data tells what `ReportTells` says.

Only model-checked:

* liveness (`NightlyCatchesUp`, `Served`, `Converges`), which is out of the prover's reach;
* `TablesStand` and `ListedAreMembers`: `MembershipUpdate` folds over sequences whose order and length it makes up as it goes, and both
  rest on what RunSignup is bounded to do (section 2). Its third part, the types of the MailChimp list, is part of `MailInv`.


## 5. What is not modelled

`PROJECT.json` lists every component with what is left out. In short: pages that only read, plain tables edited one row at a
time, wording and layout of mails and documents, configuration, generated migrations of columns, initial data (`scripts/*_init.py`), navigation and
client-side display.

Simplifications that a reader should know:

* requests on the agenda, on meeting types and on the racing team's tables are one step; adding two agenda items at once can give
  them the same order, which the code accepts;
* one import into MailChimp, one import of events and one update of award divisions at a time, although no lock enforces it;
* two forms of task groups that run at the same time edit different groups; the tracker's validation of fields is left out as in the code;
* entities in event descriptions, comments in HTML, time zones, leap days;
* the clock does not step back.


## 6. Plan

Done, in this order, by what hurts most when it goes wrong: PositionWizard, MeetingInvites with MotionVotes,
RateLimiter, CommunitySync, Awards, MembershipUpdate; then Tasks and its fields, the rest of the meetings, notices and events with the
refinement, MailChimp, migrations, local users, feeds, reports, racing team, and the mails about a meeting.

Then the proofs, for each component the inductive invariant first and its properties after it.

Next:

1. Proofs about `MembershipUpdate` with its folds written as recursive functions, as for `MemberMigration`: first what one membership's
   place in the memberdates does, then `Stretches` for any number of memberships under the restrictions of section 2.
2. Persons with several `Member` records, where unused memberdates may be deleted; two spellings of one email address in CommunitySync.
3. Requests on the agenda in two steps; an abstract "ballot box" that `MotionVotes` implements.
