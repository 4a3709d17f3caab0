---------------------------- MODULE MotionVotes -----------------------------
(***************************************************************************)
(* The motions of the meeting whose invitations MeetingInvites describes,  *)
(* and the members' votes on them (MotionVote).  A motion is created with  *)
(* a vote for each voting member who has an invitation, so the two tables  *)
(* depend on each other.  In the Motion Votes table the administrator adds *)
(* votes by hand and removes votes.                                        *)
(*                                                                         *)
(* An eVote request mails each voting member the link to the own vote.     *)
(* The dialog (get_evotes), the request and its mails, one after the other *)
(* (generateevotes), find the voters and the votes of different moments.   *)
(***************************************************************************)
EXTENDS MeetingInvites

CONSTANTS
  Motions,     \* motions (rows of Motion)
  Ballots,     \* what a vote may be
  Approved,    \* the vote of who attends when the motion is created
  NoVote,      \* the vote of who does not
  NoAsk,       \* no eVote request is or was there
  Nobody,      \* the member of a vote added by hand may be missing
  MaxHand      \* bound: votes added by hand, ever

ASSUME BallotsAssumption == {Approved, NoVote} \subseteq Ballots
ASSUME MaxHandAssumption == MaxHand \in Nat

VARIABLES
  voters,      \* whom the vote tags of the meeting stand for now
  motions,     \* the motions there are
  votes,       \* the committed votes
  asking,      \* NoAsk, or the eVote request that is open, runs or ended well
  mailed,      \* the links that were mailed, of motions there are
  made,        \* how many votes were added by hand
  removed      \* the links of the votes that were removed by hand

askVars == <<asking, mailed>>

handVars == <<made, removed>>

voteVars == <<voters, motions, votes, askVars, handVars>>

meetingVars == <<vars, voteVars>>

-----------------------------------------------------------------------------
\* The motionvotekey, which is part of the link to a vote, is new for each vote: hand is
\* 0 for the vote that a member has had since the motion was made, and otherwise tells
\* the votes added by hand apart.
Link == [motion : Motions, user : Users \union {Nobody}, hand : 0 .. MaxHand]

Vote == [link : Link, vote : Ballots]

LinkTo(m, u, k) == [motion |-> m, user |-> u, hand |-> k]

VotesInit ==
  /\ voters = {} /\ motions = {} /\ votes = {}
  /\ asking = NoAsk /\ mailed = {}
  /\ made = 0 /\ removed = {}

\* Tags, or positions, or the date of the meeting change.
ChangeVoters(V) == voters' = V /\ UNCHANGED <<motions, votes, askVars, handVars>>

\* Whoever may vote but was not invited gets no vote.
Voting == voters \intersect Invited(invites)

Attended(u) == \E i \in invites : i.user = u /\ i.attended

\* MotionsView.createrow; two invitations of a voter are an error.
CreateMotion(m) ==
  /\ m \notin motions
  /\ \A u \in voters : ~ Doubled(invites, u)
  /\ motions' = motions \union {m}
  /\ votes' = votes \union
       {[link |-> LinkTo(m, u, 0),
         vote |-> IF Attended(u) THEN Approved ELSE NoVote] : u \in Voting}
  /\ UNCHANGED <<voters, askVars, handVars>>

\* MotionsView.deleterow; the links to its votes lead nowhere from now on.
DeleteMotion(m) ==
  /\ motions' = motions \ {m}
  /\ votes' = {v \in votes : v.link.motion # m}
  /\ mailed' = {l \in mailed : l.motion # m}
  /\ removed' = {l \in removed : l.motion # m}
  /\ asking' = IF asking # NoAsk /\ asking.motion = m THEN [asking EXCEPT !.gone = TRUE] ELSE asking
  /\ UNCHANGED <<voters, made>>

\* MotionVoteView: the member votes with the link of an eVote request; or the
\* administrator edits the Motion Votes table.
CastVote(v, b) ==
  /\ votes' = (votes \ {v}) \union {[v EXCEPT !.vote = b]}
  /\ UNCHANGED <<voters, motions, askVars, handVars>>

\* Motion Votes: a vote is added, of any member, or of none.
AddVote(m, u, b) ==
  /\ made < MaxHand
  /\ made' = made + 1
  /\ votes' = votes \union {[link |-> LinkTo(m, u, made'), vote |-> b]}
  /\ UNCHANGED <<voters, motions, askVars, removed>>

\* Motion Votes: a vote is removed; its link leads nowhere from now on.
RemoveVote(v) ==
  /\ votes' = votes \ {v}
  /\ removed' = removed \union {v.link}
  /\ UNCHANGED <<voters, motions, askVars, made>>

LinksOf(m) == {l \in {v.link : v \in votes} : l.motion = m}

\* Mutant: any vote of the member will do, first() for one().
IsFirst(l, u, L) == l \in L /\ l.user = u

\* The only one of the links L that is of u: one() and one_or_none() find it.
IsOnly(l, u, L) == {k \in L : k.user = u} = {l}

VotersHaveVotes(m) == \A u \in voters : \E l \in LinksOf(m) : IsOnly(l, u, LinksOf(m))

Asks(stage) == asking # NoAsk /\ asking.stage = stage

\* The dialog of Send eVote Requests opens if every voter has one vote.
OpenRequest(m) ==
  /\ asking = NoAsk \/ Asks("sent")
  /\ VotersHaveVotes(m)
  /\ asking' = [motion |-> m, stage |-> "dialog", members |-> {}, left |-> {}, found |-> {},
                gone |-> FALSE]
  /\ UNCHANGED <<voters, motions, votes, mailed, handVars>>

\* The request finds the motion, the voters and the votes of now.
PostRequest ==
  /\ Asks("dialog") /\ ~ asking.gone
  /\ asking' = [asking EXCEPT !.stage = "sending", !.members = voters, !.left = voters,
                             !.found = LinksOf(asking.motion)]
  /\ UNCHANGED <<voters, motions, votes, mailed, handVars>>

\* The next voter has one vote, and its link is mailed.
MailVoter(u) ==
  /\ Asks("sending") /\ u \in asking.left
  /\ \E l \in asking.found :
       /\ IsOnly(l, u, asking.found)
       /\ mailed' = IF asking.gone THEN mailed ELSE mailed \union {l}
  /\ asking' = [asking EXCEPT !.left = @ \ {u}]
  /\ UNCHANGED <<voters, motions, votes, handVars>>

EndRequest ==
  /\ Asks("sending") /\ asking.left = {}
  /\ asking' = [asking EXCEPT !.stage = "sent"]
  /\ UNCHANGED <<voters, motions, votes, mailed, handVars>>

\* The dialog is closed, or the motion is not found; the next voter has no
\* vote or two, or the mail is not accepted: what was mailed so far stays mailed.
RequestFails ==
  /\ Asks("dialog") \/ (Asks("sending") /\ asking.left # {})
  /\ asking' = NoAsk
  /\ UNCHANGED <<voters, motions, votes, mailed, handVars>>

VotesNext ==
  \/ \E V \in SUBSET Users : ChangeVoters(V)
  \/ \E m \in Motions : CreateMotion(m)
  \/ \E m \in motions : DeleteMotion(m)
  \/ \E v \in votes, b \in Ballots : CastVote(v, b)
  \/ \E m \in motions, u \in Users \union {Nobody}, b \in Ballots : AddVote(m, u, b)
  \/ \E v \in votes : RemoveVote(v)
  \/ \E m \in motions : OpenRequest(m)
  \/ PostRequest
  \/ \E u \in Users : MailVoter(u)
  \/ EndRequest
  \/ RequestFails

\* A meeting: its invitations and its motions.
MeetingNext ==
  \/ Next /\ UNCHANGED voteVars
  \/ VotesNext /\ UNCHANGED vars

MeetingInit == Init /\ VotesInit

MeetingSpec == MeetingInit /\ [][MeetingNext]_meetingVars

-----------------------------------------------------------------------------
(* Properties *)

\* Every vote is on a motion there is and has a link of its own, and those made
\* with the motion are of members who were invited to the meeting, whatever
\* becomes of tags, invitations and motions.  A mailed link leads to its vote
\* until the vote is removed, and of the links that requests, failed ones and
\* their retries, have mailed to a member for one motion at most one leads
\* anywhere.  A request that ended well has mailed every voter the only vote of
\* his that it found.
VotesStand ==
  /\ votes \subseteq Vote
  /\ \A v \in votes :
       /\ v.link.motion \in motions
       /\ v.link.hand = 0 => v.link.user \in Invited(invites)
       /\ \A w \in votes : w.link = v.link => w = v
  /\ \A l \in mailed :
       /\ l \in removed \/ l \in LinksOf(l.motion)
       /\ \A k \in mailed : k.motion = l.motion /\ k.user = l.user => k = l \/ {k, l} \intersect removed # {}
  /\ Asks("sent") /\ ~ asking.gone =>
       \A u \in asking.members : \E l \in mailed : IsOnly(l, u, asking.found)

=============================================================================
