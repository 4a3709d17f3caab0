---------------------------- MODULE MeetingMails ----------------------------
(***************************************************************************)
(* The mails about a meeting whose invitations MeetingInvites describes.   *)
(*                                                                         *)
(* A request mails one member after the other, each a link with the key of *)
(* the invitation, and commits the invitations at the end; if it fails,    *)
(* the mails have gone out and their links to new invitations lead         *)
(* nowhere.  A discussion request sends one mail without links to all who  *)
(* are invited, and so does the administrator with Send Email, through a   *)
(* dialog that has shown who is invited a while ago.                       *)
(***************************************************************************)
EXTENDS MeetingInvites

CONSTANT NoMail   \* nobody is sending an email to the members invited

VARIABLES
  posted,      \* <<request, member>>: the mails that the requests running have sent
  linked,      \* the keys of invitations that were mailed as a link
  discussed,   \* the keys of invitations made by a discussion request, which mailed them
  mail         \* NoMail, or the members that the dialog has shown as invited

mailVars == <<posted, linked, discussed, mail>>

-----------------------------------------------------------------------------
Discussion(r) == r.kind = "discuss"

\* Mutant: a reminder is only for those who have an invitation.
AddressedIfKnown(r) ==
  IF r.kind = "remind" THEN r.members \intersect Invited(r.read)
  ELSE IF Discussion(r) THEN r.members \union Invited(r.read) ELSE NewUsers(r)

\* Whom a request mails.
Addressed(r) ==
  IF r.kind = "remind" THEN r.members
  ELSE IF Discussion(r) THEN r.members \union Invited(r.read) ELSE NewUsers(r)

HasMailed(r, u) == <<r.id, u>> \in posted

\* The request meets two rows or none before the first member's turn, or at the turn of u.
FailsAtOnce(r) == (WantsItem(r) /\ r.items > 1) \/ (Saves(r) /\ r.texts > 1)

FailsAt(r, u) ==
  \/ Doubled(r.read, u)
  \/ u \in NewUsers(r) /\ ~ Saves(r) /\ r.texts # 1
  \/ u \in NewUsers(r) /\ r.kind = "remind" /\ r.read = {}

MailsInit == posted = {} /\ linked = {} /\ discussed = {} /\ mail = NoMail

\* The next member's mail; a reminder has the link of the invitation there is.
MailMember(r, u) ==
  /\ ~ Discussion(r) /\ u \in Addressed(r) /\ ~ HasMailed(r, u)
  /\ ~ FailsAtOnce(r) /\ ~ FailsAt(r, u)
  /\ posted' = posted \union {<<r.id, u>>}
  /\ linked' = linked \union Keys({i \in r.read : i.user = u})
  /\ UNCHANGED <<vars, discussed, mail>>

\* send_discuss_email: one mail, when the invitations are made.
MailDiscussion(r) ==
  /\ Discussion(r) /\ ~ Refused(r)
  /\ posted' = posted \union ({r.id} \X Addressed(r))
  /\ UNCHANGED <<vars, linked, discussed, mail>>

Ended(r) == posted' = {p \in posted : p[1] # r.id}

\* All mails are out, and the invitations are there.
CommitMailed(r) ==
  /\ \A u \in Addressed(r) : HasMailed(r, u)
  /\ Commit(r) /\ Ended(r)
  /\ LET new == Keys({i \in Added(r) : HasMailed(r, i.user)})
     IN IF Discussion(r) THEN discussed' = discussed \union new /\ UNCHANGED linked
                         ELSE linked' = linked \union new /\ UNCHANGED discussed
  /\ UNCHANGED mail

\* The mails are out, and their links to new invitations lead nowhere.
FailMailed(r) == Fail(r) /\ Ended(r) /\ UNCHANGED <<linked, discussed, mail>>

\* The dialog of Send Email shows which members of the invite tags are invited.
OpenMail ==
  /\ \A u \in invitees : ~ Doubled(invites, u)
  /\ mail' = invitees \intersect Invited(invites)
  /\ UNCHANGED <<vars, posted, linked, discussed>>

\* All who have an invitation by now, active or not.
Recipients == Invited(invites)

\* send_meeting_email, or the dialog is closed.
SendMail ==
  /\ mail # NoMail
  /\ mail' = NoMail
  /\ UNCHANGED <<vars, posted, linked, discussed>>

MailsNext ==
  \/ (\E i \in Requests : Send(i) \/ Discuss(i) \/ \E M \in SUBSET Users : Remind(i, M))
     /\ UNCHANGED mailVars
  \/ (Nightly \/ \E M \in SUBSET Users : ChangeInvitees(M)) /\ UNCHANGED mailVars
  \/ \E r \in running :
       \/ \E u \in Users : MailMember(r, u)
       \/ MailDiscussion(r) \/ CommitMailed(r) \/ FailMailed(r)
  \/ OpenMail \/ SendMail

mailingVars == <<vars, mailVars>>

\* Meanwhile invitations are answered and edited, and Attendees items removed.
MeanwhileNext == EditNext \/ \E I \in SUBSET invites : DeleteAttendees(I)

MailsSpec ==
  Init /\ MailsInit /\ [][MailsNext \/ (MeanwhileNext /\ UNCHANGED mailVars)]_mailingVars

-----------------------------------------------------------------------------
(* Properties *)

UsersOf(K) == {k[1] : k \in K}

\* Nobody is invited without a mail, and links of mails lead to invitations,
\* those of requests that fail excepted.
LinksLead == linked \subseteq Keys(invites) /\ Keys(invites) \subseteq linked \union discussed

\* Whoever holds a link that leads nowhere gets another one from the next
\* request that ends well, except that only a reminder mails a link to who was
\* invited to a discussion.
LinksReplaced ==
  \A r \in running : CommitMailed(r) /\ ~ Discussion(r) =>
    r.members \subseteq UsersOf(IF r.kind = "remind" THEN linked' ELSE linked' \union discussed')

\* An email goes to whoever holds a link that leads to an invitation, those whom
\* the dialog showed as invited included, and to nobody who was not mailed before.
EmailReaches ==
  SendMail => /\ mail \union UsersOf(linked) \subseteq Recipients
              /\ Recipients \subseteq UsersOf(linked \union discussed)
=============================================================================
