--------------------------- MODULE MeetingInvites ---------------------------
(***************************************************************************)
(* The invitations (Invite) to one meeting that collects RSVPs.            *)
(*                                                                         *)
(* Four requests write them: Send Invitations, Send Discussion Request and *)
(* Send Reminders from a web worker, and the nightly job updateinvites,    *)
(* which runs in a container of its own.  A request reads who is to be     *)
(* invited and which invitations there are in one transaction (Begin), and *)
(* commits (Commit) or is rolled back (Fail) later, so requests overlap.   *)
(* An UPDATE of an invitation somebody else wrote in between fails, by its *)
(* version_id; nothing keeps two requests from each inserting an           *)
(* invitation for the same member.                                         *)
(*                                                                         *)
(* Members answer, and the administrator edits invitations, at any time.   *)
(***************************************************************************)
EXTENDS Naturals

CONSTANTS
  Users,       \* members who may be invited (LocalUser)
  Requests,    \* web requests that may run at the same time
  Job,         \* the nightly job
  Responses,   \* RSVPs
  Pending,     \* the RSVP of who has not answered
  Attending    \* the RSVP of who will come

ASSUME JobAssumption == Job \notin Requests
ASSUME ResponsesAssumption == {Pending, Attending} \subseteq Responses

VARIABLES
  invitees,    \* whom the invite tags of the meeting stand for now
  invites,     \* the committed invitations
  texts,       \* how many texts of the invitation mail (Email) are saved
  attendees,   \* how many Attendees items are on the agenda
  running      \* the requests between their first query and their end

vars == <<invitees, invites, texts, attendees, running>>

-----------------------------------------------------------------------------
WebKinds == {"send", "discuss", "remind"}

Kinds == WebKinds \union {"nightly"}

Ids == Requests \union {Job}

\* An invitation; by is the request that created it.
Invite == [user : Users, by : Ids, active : BOOLEAN,
           response : Responses, attended : BOOLEAN]

\* What a request reads of an invitation
Seen == [user : Users, by : Ids, active : BOOLEAN]

Glimpse(i) == [user |-> i.user, by |-> i.by, active |-> i.active]

\* A request: the members it is about, what it has read of the invitations and
\* of the numbers of texts and Attendees items, and the keys of the invitations
\* that others wrote since.
Request == [id : Ids, kind : Kinds, members : SUBSET Users, read : SUBSET Seen,
            texts : Nat, items : Nat, stale : SUBSET (Users \X Ids)]

\* A request creates at most one invitation for a member, and none for one who
\* has one: this tells invitations apart.
Key(i) == <<i.user, i.by>>

Keys(I) == {Key(i) : i \in I}

Invited(I) == {i.user : i \in I}

ActiveUsers(I) == {i.user : i \in {j \in I : j.active}}

\* one_or_none() would raise MultipleResultsFound for u
Doubled(I, u) == \E i, j \in I : i # j /\ i.user = u /\ j.user = u

-----------------------------------------------------------------------------
(***************************************************************************)
(* What a request r does with what it has read.                            *)
(***************************************************************************)

Generates(r) == r.kind # "remind"

\* Only for an agenda with attendees: not for a discussion request.
WantsItem(r) == r.kind \in {"send", "nightly"}

\* Mutant: inactive invitations are not found.
NewUsersOfInactive(r) == r.members \ ActiveUsers(r.read)

\* check_add_invite finds no invitation for them.
NewUsers(r) == r.members \ Invited(r.read)

\* Mutant: an invitation is not made active again.
ActiveOrNot(r, i) == i.active /\ i.user \in r.members

\* Is the invitation i active after the request?
ActiveAfter(r, i) == IF Generates(r) THEN i.user \in r.members ELSE i.active

\* The rows the request updates: active flag, or time of the last reminder.
Written(r) ==
  {i \in r.read : IF Generates(r) THEN i.active # ActiveAfter(r, i)
                                  ELSE i.user \in r.members}

\* Mutant: the answer of an invitation that is written starts afresh.
UpdatedAfresh(r) ==
  {IF Key(i) \in Keys(Written(r))
   THEN [i EXCEPT !.active = ActiveAfter(r, i), !.response = Pending] ELSE i : i \in invites}

Updated(r) ==
  {IF Key(i) \in Keys(Written(r))
   THEN [i EXCEPT !.active = ActiveAfter(r, i)] ELSE i : i \in invites}

Added(r) ==
  {[user |-> u, by |-> r.id, active |-> TRUE, response |-> Pending,
    attended |-> FALSE] : u \in NewUsers(r)}

\* Some invitation to update has another version_id by now.
Conflict(r) == Keys(Written(r)) \intersect r.stale # {}

\* The form has a text of the invitation mail, which is saved.
Saves(r) == r.kind \in {"send", "discuss"}

\* The request meets two rows, or none, where it expects one: of a member's
\* invitations, of the Attendees items, of the text to save, of the text of
\* the invitation mail to send; or it is a reminder that has no invitation to
\* take the agenda item of a new one from.
Refused(r) ==
  \/ \E u \in r.members : Doubled(r.read, u)
  \/ WantsItem(r) /\ r.items > 1
  \/ Saves(r) /\ r.texts > 1
  \/ ~ Saves(r) /\ NewUsers(r) # {} /\ r.texts # 1
  \/ r.kind = "remind" /\ NewUsers(r) # {} /\ r.read = {}

-----------------------------------------------------------------------------
Init ==
  /\ invitees = {} /\ invites = {}
  /\ texts = 0 /\ attendees = 0
  /\ running = {}

\* The requests R after somebody wrote the invitations with the keys K.
Outdated(R, K) == {[r EXCEPT !.stale = @ \union K] : r \in R}

\* Tags, or positions, or the date of the meeting change.
ChangeInvitees(M) ==
  /\ invitees' = M
  /\ UNCHANGED <<invites, texts, attendees, running>>

Begin(i, k, M) ==
  /\ \A r \in running : r.id # i
  /\ running' = running \union
       {[id |-> i, kind |-> k, members |-> M,
         read |-> {Glimpse(j) : j \in invites},
         texts |-> texts, items |-> attendees, stale |-> {}]}
  /\ UNCHANGED <<invitees, invites, texts, attendees>>

\* Send Invitations
Send(i) == Begin(i, "send", invitees)

\* Send Discussion Request
Discuss(i) == Begin(i, "discuss", invitees)

\* Send Reminders to the members in the positions selected
Remind(i, M) == Begin(i, "remind", M)

\* updateinvites: only if there are invitations
Nightly == invites # {} /\ Begin(Job, "nightly", invitees)

Commit(r) ==
  /\ ~ Refused(r) /\ ~ Conflict(r)
  /\ invites' = Updated(r) \union Added(r)
  /\ texts' = texts + (IF Saves(r) /\ r.texts = 0 THEN 1 ELSE 0)
  /\ attendees' = attendees + (IF WantsItem(r) /\ r.items = 0 THEN 1 ELSE 0)
  /\ running' = Outdated(running \ {r}, Keys(Written(r)))
  /\ UNCHANGED invitees

\* An exception (the request is refused, it conflicts, a mail is not accepted)
\* or the end of the process: all is rolled back, but for the mails sent.
Fail(r) ==
  /\ running' = running \ {r}
  /\ UNCHANGED <<invitees, invites, texts, attendees>>

\* One invitation is written by itself.
Write(i, j) ==
  /\ invites' = (invites \ {i}) \union {j}
  /\ running' = Outdated(running, {Key(i)})
  /\ UNCHANGED <<invitees, texts, attendees>>

\* MyMeetingRsvpApi: the member answers on the status report page.
AnswerMyMeeting(i, v) ==
  Write(i, [i EXCEPT !.response = v, !.attended = (v = Attending)])

\* RsvpView: the member answers on the RSVP page.
AnswerRsvp(i, v) == Write(i, [i EXCEPT !.response = v])

\* InvitesView: the administrator edits an active invitation.
EditInvite(i, v, a, on) ==
  /\ i.active
  /\ Write(i, [i EXCEPT !.response = v, !.attended = a, !.active = on])

\* MeetingView: the administrator removes an Attendees item, which unties
\* some invitations, I, from it.
DeleteAttendees(I) ==
  /\ attendees > 0
  /\ attendees' = attendees - 1
  /\ running' = Outdated(running, Keys(I))
  /\ UNCHANGED <<invitees, invites, texts>>

RequestsNext ==
  \/ \E i \in Requests : Send(i) \/ Discuss(i) \/ (\E M \in SUBSET Users : Remind(i, M))
  \/ Nightly
  \/ \E r \in running : Commit(r) \/ Fail(r)

EditNext ==
  \E i \in invites, v \in Responses :
    \/ AnswerMyMeeting(i, v) \/ AnswerRsvp(i, v)
    \/ \E a, on \in BOOLEAN : EditInvite(i, v, a, on)

Next ==
  \/ RequestsNext \/ EditNext
  \/ \E I \in SUBSET invites : DeleteAttendees(I)
  \/ \E M \in SUBSET Users : ChangeInvitees(M)

Spec == Init /\ [][Next]_vars

JobCommits == \E r \in running : r.id = Job /\ Commit(r)

JobEnds == \E r \in running : r.id = Job /\ (Commit(r) \/ Fail(r))

\* The nightly job is started again and again (by crond) and comes to an end,
\* and mails do not fail every time.
Fairness == WF_vars(Nightly) /\ WF_vars(JobEnds) /\ SF_vars(JobCommits)

FairSpec == Spec /\ Fairness

-----------------------------------------------------------------------------
(* Properties *)

\* Invitations and requests are well formed, keys tell invitations apart, and
\* a request runs once at a time.
TypeOK ==
  /\ invitees \subseteq Users
  /\ invites \subseteq Invite
  /\ \A i, j \in invites : Key(i) = Key(j) => i = j
  /\ texts \in Nat /\ attendees \in Nat
  /\ running \subseteq Request
  /\ \A r, o \in running : r.id = o.id => r = o

\* An invitation is never lost, and one that nobody wrote since a request read
\* it is still as it was read.
SnapshotCurrent ==
  \A r \in running :
    /\ Keys(r.read) \subseteq Keys(invites)
    /\ \A i \in invites : Key(i) \in Keys(r.read) \ r.stale => Glimpse(i) \in r.read

\* Where there are invitations there is a text of the invitation mail, which
\* the nightly job and the reminders look up with one().
InviteTextSaved == invites # {} => texts > 0

\* Requests for invitations and reminders keep every invitation with the
\* answer and the attendance in it, also those given while they run.
AnswersKept ==
  [][RequestsNext =>
       \A i \in invites : \E j \in invites' :
         /\ Key(j) = Key(i)
         /\ j.response = i.response /\ j.attended = i.attended]_vars

\* A request after whose readings nobody added an invitation gives nobody a
\* second one.
OneInviteEach ==
  [][\A r \in running : Commit(r) /\ Keys(r.read) = Keys(invites) =>
       \A u \in Users : Doubled(invites', u) => Doubled(invites, u)]_vars

\* When invitations have been generated, exactly the members whom the invite
\* tags stood for have an active one, of those invitations that the request
\* knew and nobody else wrote meanwhile; and none of those members is without.
ActiveFollowsTags ==
  [][\A r \in running : Commit(r) /\ Generates(r) =>
       /\ r.members \subseteq Invited(invites')
       /\ \A i \in invites' :
            Key(i) \in Keys(r.read) \ r.stale => (i.active <=> i.user \in r.members)]_vars

Undisturbed == \A r \in running : r.id = Job => ~ Conflict(r)

\* What the reference says of members added after the invitations were sent
\* ("a nightly job will take care of sending additional invitations").
NightlyCatchesUp ==
  \A u \in Users :
    <>[](u \in invitees /\ invites # {} /\ Undisturbed) => <>(u \in Invited(invites))
=============================================================================
