\* One web request and the nightly job over the invitation and votes of one member;
\* eVote requests to two members.
SPECIFICATION PartsSpec
CONSTANTS
  Users = {u1, u2}
  Requests = {r1}
  Job = job
  Responses = {pending, attending}
  Pending = pending
  Attending = attending
  Motions = {m1}
  Ballots = {approved, novote}
  Approved = approved
  NoVote = novote
  NoAsk = noask
  Nobody = nobody
  MaxHand = 1
  NoMail = nomail
  u1 = u1
INVARIANT TypeOK
INVARIANT VotesStand
PROPERTY AnswersKept
PROPERTY OneInviteEach
PROPERTY ActiveFollowsTags
PROPERTY MailsLead
CHECK_DEADLOCK FALSE
