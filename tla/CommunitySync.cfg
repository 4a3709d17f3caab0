\* Two people, two groups; two changes from outside and one failure anywhere.
SPECIFICATION FairSpec
CONSTANTS
  Persons = {p1, p2}
  Groups = {g1, g2}
  NoInvite = none
  NoOne = nobody
  MaxChanges = 2
  MaxTrouble = 1
INVARIANT TypeOK
PROPERTY OtherGroupsKept
PROPERTY Converges
