----------------------------- MODULE MCMeeting ------------------------------
(***************************************************************************)
(* Small instances of MotionVotes, MeetingMails and MeetingInvites for     *)
(* TLC.                                                                    *)
(***************************************************************************)
EXTENDS MotionVotes, MeetingMails

CONSTANT u1

VARIABLE part   \* "invites", "asks" or "mails"

allVars == <<meetingVars, mailVars, part>>

\* The part "invites" is about one member; an invitation is edited while
\* requests run only if none has been written since they began.
InvitesNext ==
  /\ MeetingNext /\ UNCHANGED <<askVars, handVars>>
  /\ invitees' \union voters' \union UNION {r.members : r \in running'} \subseteq {u1}
  /\ EditNext => \A r \in running : r.stale = {}

\* In the part "mails" tags change and the dialog of Send Email opens while no
\* request runs; reminders are for all, or for the members not invited.
CalmNext ==
  /\ MailsNext
  /\ running # {} => invitees' = invitees /\ ~ OpenMail
  /\ \A r \in running' : r.kind = "remind" => r.members \in {Users, Users \ Invited(invites)} \/ r \in running

\* The part "asks" starts with invitations to some members, who have answered; votes
\* are cast in the part "invites", here they are only taken back or added without an answer.
Answered(u, yes) ==
  [user |-> u, by |-> Job, active |-> TRUE,
   response |-> IF yes THEN Attending ELSE Pending, attended |-> yes]

AsksNext ==
  /\ VotesNext /\ UNCHANGED vars
  /\ \A v \in votes' \ votes : v.vote = NoVote \/ motions' # motions

PartsInit ==
  /\ MailsInit
  /\ \/ part \in {"invites", "mails"} /\ MeetingInit
     \/ /\ part = "asks" /\ VotesInit
        /\ invitees = {} /\ texts = 1 /\ attendees = 0 /\ running = {}
        /\ \E U \in SUBSET Users, yes \in BOOLEAN : invites = {Answered(u, yes) : u \in U}

PartsNext ==
  /\ part' = part
  /\ \/ part = "invites" /\ InvitesNext /\ UNCHANGED mailVars
     \/ part = "asks" /\ AsksNext /\ UNCHANGED mailVars
     \/ part = "mails" /\ CalmNext /\ UNCHANGED voteVars

PartsSpec == PartsInit /\ [][PartsNext]_allVars

\* Invitations are only sent, by an administrator and by the nightly job.
QuietNext ==
  \/ \E i \in Requests : Send(i)
  \/ Nightly
  \/ \E r \in running : Commit(r) \/ Fail(r)
  \/ \E M \in SUBSET Users : ChangeInvitees(M)

QuietSpec ==
  /\ MeetingInit /\ MailsInit
  /\ part = "invites"
  /\ [][QuietNext /\ UNCHANGED <<voteVars, mailVars, part>>]_allVars /\ Fairness

\* Mails go to all who are invited, with links that lead to invitations or are
\* replaced (LinksLead, LinksReplaced, EmailReaches).
MailsLead ==
  /\ [](part = "mails" => LinksLead)
  /\ [][part = "mails" => LinksReplaced /\ EmailReaches]_allVars
=============================================================================
