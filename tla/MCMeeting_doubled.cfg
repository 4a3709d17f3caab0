\* The nightly job beside one web request.
SPECIFICATION QuietSpec
CONSTANTS
  Users = {u1, u2}
  Requests = {r1, r2}
  Job = job
  Responses = {pending, attending}
  Pending = pending
  Attending = attending
  Motions = {m1}
  Ballots = {approved, novote}
  Approved = approved
  NoVote = novote
  NoAsk = noask
  Nobody = nobody
  MaxHand = 1
  NoMail = nomail
  u1 = u1
CHECK_DEADLOCK FALSE
PROPERTY NightlyCatchesUp
