--------------------------- MODULE MembersProofs ----------------------------
(***************************************************************************)
(* Proofs about LocalUsers, for any users, workers, rows and edits, about  *)
(* MailChimpImport, for any addresses and groups, and about                *)
(* MemberMigration, for any rows of members.                               *)
(***************************************************************************)
EXTENDS LocalUsers, MailChimpImport, MemberMigration, SetFacts

-----------------------------------------------------------------------------
(* The MailChimp list: the inductive invariant *)

IsCurrent(a) == audience[a] # NoSubscriber /\ Current \in audience[a].interests

Hidden(s) == s.interests \ Groups(GroupNames)

\* What an import has read of those it has still to update is so, but for their status and
\* for the groups they tick; of members also these, unless they raced with the import.
ListFollowed ==
    mcImport # NoImport /\ mcImport.step = "update" =>
      \A a \in mcImport.left :
        /\ mcImport.list[a] = NoSubscriber => a \in mcImport.members
        /\ mcImport.list[a] # NoSubscriber =>
             /\ audience[a] # NoSubscriber
             /\ Hidden(audience[a]) = Hidden(mcImport.list[a])
             /\ a \notin raced /\ Was(a, Current) => Ticked(audience[a]) = Ticked(mcImport.list[a])

\* Before it reads the list an import knows of the members only.
MembersFirst == mcImport # NoImport /\ mcImport.step = "list" => mcImport.left = mcImport.members

\* Leavers are those who still have the group of all who ever were members.
LeaversLeft ==
    \A a \in leavers :
      audience[a] # NoSubscriber /\ Past \in audience[a].interests
        /\ audience[a].status # "subscribed"

\* As long as nothing changes but by the import, it has brought into step all it has done.
CleanSoFar ==
    mcImport # NoImport /\ mcImport.clean =>
      /\ mcImport.members = clubMembers
      /\ mcImport.step = "update" =>
           \A a \in Addresses :
             IF a \in mcImport.left THEN mcImport.list[a] = audience[a]
             ELSE IsCurrent(a) <=> a \in clubMembers

\* If the list is in step already an import finds nothing to do.
StillInStep ==
    inStep /\ mcImport # NoImport =>
      /\ mcImport.members = clubMembers
      /\ mcImport.step = "update" => \A a \in Addresses : Was(a, Current) <=> a \in clubMembers

MailInv ==
    /\ MailChimpTypeOK /\ ChoicesKept /\ ListInStep
    /\ MembersFirst /\ ListFollowed /\ LeaversLeft /\ CleanSoFar /\ StillInStep

-----------------------------------------------------------------------------
(* Subscribers and their interests *)

LEMMA InterestsApart ==
    /\ \A m, n : Group(m) = Group(n) => m = n
    /\ \A m, n : Shadow(m) = Shadow(n) => m = n
    /\ \A m, n : Group(m) # Shadow(n)
    /\ \A n : Group(n) \notin {Current, Past} /\ Shadow(n) \notin {Current, Past}
    /\ Current # Past
BY DEF Group, Shadow, Current, Past

LEMMA InterestsOf ==
    /\ Current \in Interests /\ Past \in Interests
    /\ \A n \in ForMembers : Group(n) \in Interests /\ Shadow(n) \in Interests
    /\ \A n \in GroupNames : Group(n) \in Interests
BY MailChimpAssumption DEF Interests, Groups, Shadows

\* An update of a subscriber, whose status stays.
LEMMA SetTo ==
    ASSUME NEW s \in Subscriber, NEW On, On \subseteq Interests, NEW Off
    PROVE  /\ Set(s, On, Off) \in Subscriber /\ Set(s, On, Off).status = s.status
           /\ Set(s, On, Off).interests = (s.interests \ Off) \union On
BY SubscriberAssumption DEF Set, Subscriber

\* What matters of the interests I: a member's groups, or the memory of them.
LEMMA TickedIs ==
    ASSUME NEW s, NEW n
    PROVE  /\ n \in Ticked(s) <=> n \in ForMembers /\ Group(n) \in s.interests
           /\ n \in Remembered(s) <=> n \in ForMembers /\ Shadow(n) \in s.interests
BY DEF Ticked, Remembered

\* The hidden groups are the same.
LEMMA HiddenAlike ==
    ASSUME NEW s, NEW t, Hidden(s) = Hidden(t)
    PROVE  /\ Current \in s.interests <=> Current \in t.interests
           /\ Past \in s.interests <=> Past \in t.interests
           /\ Remembered(s) = Remembered(t)
<1>1. \A i : (\A n : i # Group(n)) => (i \in s.interests <=> i \in t.interests)
  <2> TAKE i
  <2> SUFFICES ASSUME \A n : i # Group(n) PROVE i \in s.interests <=> i \in t.interests
    OBVIOUS
  <2>1. i \notin Groups(GroupNames)
    BY DEF Groups
  <2> QED BY <2>1 DEF Hidden
<1>2. \A n : Shadow(n) \in s.interests <=> Shadow(n) \in t.interests
  BY <1>1, InterestsApart
<1> QED BY <1>1, <1>2, InterestsApart DEF Remembered

-----------------------------------------------------------------------------
(* The club and the subscribers change *)

\* The running import, if there is one, is no longer clean.
Soiled ==
    mcImport' # NoImport =>
      /\ mcImport # NoImport /\ mcImport' \in ImportRecords
      /\ mcImport'.members = mcImport.members /\ mcImport'.list = mcImport.list
      /\ mcImport'.step = mcImport.step /\ mcImport'.left = mcImport.left
      /\ ~ mcImport'.clean

LEMMA TurnSoils ==
    ASSUME MailChimpTypeOK,
           mcImport' = IF mcImport = NoImport THEN NoImport ELSE [mcImport EXCEPT !.clean = FALSE]
    PROVE  Soiled
BY DEF MailChimpTypeOK, Soiled, ImportRecords

LEMMA TurnTaken == MailChimpTypeOK /\ Turn => turns' \in 0 .. MaxTurns /\ inStep' = FALSE
BY MailChimpAssumption DEF MailChimpTypeOK, Turn

LEMMA ChangeClubStep ==
    ASSUME MailInv, NEW a \in Addresses, ChangeClub(a)
    PROVE  MailInv'
<1>1. Soiled
  BY TurnSoils DEF MailInv, ChangeClub
<1>2. MailChimpTypeOK'
  BY <1>1, TurnTaken DEF MailInv, MailChimpTypeOK, ChangeClub, Soiled
<1>3. ChoicesKept' /\ LeaversLeft' /\ MembersFirst'
  BY <1>1 DEF MailInv, ChoicesKept, LeaversLeft, MembersFirst, ChangeClub, Ticked, Remembered, Soiled
<1>4. ListFollowed'
  BY <1>1 DEF MailInv, ListFollowed, ChangeClub, Was, Soiled, Ticked, Hidden
<1>5. ListInStep' /\ CleanSoFar' /\ StillInStep'
  BY <1>1 DEF ListInStep, CleanSoFar, StillInStep, ChangeClub, Turn, Soiled
<1> QED BY <1>2, <1>3, <1>4, <1>5 DEF MailInv

\* A subscriber keeps the hidden groups; who signs up has none of them.
LEMMA AlteredStep ==
    ASSUME MailInv, NEW a \in Addresses, NEW s \in Subscriber, Altered(a, s),
           choice' \in [Addresses -> SUBSET ForMembers],
           raced' \subseteq Addresses, leavers' \subseteq Addresses,
           IF audience[a] = NoSubscriber THEN Past \notin s.interests /\ a \notin leavers
                                         ELSE Hidden(s) = Hidden(audience[a]),
           \A b \in Addresses \ {a} : choice'[b] = choice[b] /\ (b \in raced' <=> b \in raced),
           \/ UNCHANGED <<choice, raced>> /\ (audience[a] # NoSubscriber => Ticked(s) = Ticked(audience[a]))
           \/ UNCHANGED <<choice, raced>> /\ Current \notin s.interests
           \/ choice'[a] = Ticked(s) /\ Current \in s.interests /\ (ToBeUpdated(a) => a \in raced'),
           \A b \in leavers' : \/ b \in leavers /\ b # a
                               \/ b = a /\ Past \in s.interests /\ s.status # "subscribed"
    PROVE  MailInv'
<1>1. Soiled
  BY TurnSoils DEF MailInv, Altered
<1>2. /\ audience' = [audience EXCEPT ![a] = s] /\ audience \in Audiences /\ audience' \in Audiences
      /\ audience'[a] = s /\ s # NoSubscriber
      /\ \A b \in Addresses \ {a} : audience'[b] = audience[b]
      /\ inStep' = FALSE /\ clubMembers' = clubMembers
  BY SubscriberAssumption DEF MailInv, MailChimpTypeOK, Audiences, Altered, Turn
<1>3. MailChimpTypeOK'
  BY <1>1, <1>2, TurnTaken DEF MailInv, MailChimpTypeOK, Altered, Soiled
<1>4. ChoicesKept'
  <2> SUFFICES ASSUME NEW b \in Addresses, b \notin raced', audience'[b] # NoSubscriber,
                      Past \in audience'[b].interests
               PROVE  choice'[b] = IF Current \in audience'[b].interests
                                   THEN Ticked(audience'[b]) ELSE Remembered(audience'[b])
    BY DEF ChoicesKept, Ticked, Remembered
  <2>1. CASE b # a
    BY <1>2, <2>1 DEF MailInv, ChoicesKept
  <2>2. CASE b = a
    <3>1. audience[a] # NoSubscriber
      BY <1>2, <2>2
    <3>2. /\ Current \in s.interests <=> Current \in audience[a].interests
          /\ Past \in s.interests <=> Past \in audience[a].interests
          /\ Remembered(s) = Remembered(audience[a])
      BY <3>1, HiddenAlike
    <3>3. a \notin raced => choice[a] = IF Current \in audience[a].interests
                                        THEN Ticked(audience[a]) ELSE Remembered(audience[a])
      BY <1>2, <2>2, <3>1, <3>2 DEF MailInv, ChoicesKept
    <3> QED BY <1>2, <2>2, <3>1, <3>2, <3>3
  <2> QED BY <2>1, <2>2
<1>5. ListFollowed'
  <2> SUFFICES ASSUME mcImport' # NoImport, mcImport'.step = "update", NEW b \in mcImport'.left
               PROVE  /\ mcImport'.list[b] = NoSubscriber => b \in mcImport'.members
                      /\ mcImport'.list[b] # NoSubscriber =>
                           /\ audience'[b] # NoSubscriber
                           /\ Hidden(audience'[b]) = Hidden(mcImport'.list[b])
                           /\ b \notin raced' /\ Current \in mcImport'.list[b].interests =>
                                Ticked(audience'[b]) = Ticked(mcImport'.list[b])
    BY DEF ListFollowed, Was, Hidden, Ticked
  <2>1. /\ mcImport # NoImport /\ mcImport.step = "update" /\ b \in mcImport.left /\ b \in Addresses
        /\ mcImport'.members = mcImport.members /\ mcImport'.list = mcImport.list
    <3>1. mcImport # NoImport /\ mcImport \in ImportRecords
      BY <1>1 DEF Soiled, MailInv, MailChimpTypeOK
    <3> QED BY <1>1, <3>1 DEF Soiled, ImportRecords
  <2>2. /\ mcImport.list[b] = NoSubscriber => b \in mcImport.members
        /\ mcImport.list[b] # NoSubscriber =>
             /\ audience[b] # NoSubscriber
             /\ Hidden(audience[b]) = Hidden(mcImport.list[b])
             /\ b \notin raced /\ Current \in mcImport.list[b].interests =>
                  Ticked(audience[b]) = Ticked(mcImport.list[b])
    BY <2>1 DEF MailInv, ListFollowed, Was
  <2>3. CASE b # a
    BY <1>2, <2>1, <2>2, <2>3
  <2>4. CASE b = a
    <3>1. SUFFICES ASSUME mcImport.list[a] # NoSubscriber
                   PROVE  /\ Hidden(s) = Hidden(mcImport.list[a])
                          /\ a \notin raced' /\ Current \in mcImport.list[a].interests =>
                               Ticked(s) = Ticked(mcImport.list[a])
      BY <1>2, <2>1, <2>2, <2>4
    <3>2. Hidden(s) = Hidden(mcImport.list[a]) /\ audience[a] # NoSubscriber
      BY <2>2, <2>4, <3>1
    <3>3. Current \in mcImport.list[a].interests => Current \in s.interests
      BY <3>2, HiddenAlike
    <3>4. ToBeUpdated(a)
      BY <2>1, <2>4 DEF ToBeUpdated
    <3> QED BY <2>2, <2>4, <3>1, <3>2, <3>3, <3>4
  <2> QED BY <2>3, <2>4
<1>6. LeaversLeft' /\ MembersFirst'
  BY <1>1, <1>2 DEF MailInv, MailChimpTypeOK, LeaversLeft, MembersFirst, Soiled
<1>7. ListInStep' /\ CleanSoFar' /\ StillInStep'
  BY <1>1, <1>2 DEF ListInStep, CleanSoFar, StillInStep, Soiled
<1> QED BY <1>3, <1>4, <1>5, <1>6, <1>7 DEF MailInv

LEMMA ChooseStep ==
    ASSUME MailInv, NEW a \in Addresses, NEW n \in GroupNames, Choose(a, n)
    PROVE  MailInv'
<1> DEFINE was == audience[a]
           s == [was EXCEPT !.interests = (@ \ {Group(n)}) \union ({Group(n)} \ @)]
<1>1. was \in Subscriber /\ was # NoSubscriber /\ Altered(a, s) /\ UNCHANGED leavers
  BY DEF MailInv, MailChimpTypeOK, Audiences, Choose
<1>2. /\ s \in Subscriber /\ s.status = was.status
      /\ s.interests = (was.interests \ {Group(n)}) \union ({Group(n)} \ was.interests)
  BY <1>1, InterestsOf DEF Subscriber
<1>3. Hidden(s) = Hidden(was)
  BY <1>2 DEF Hidden, Groups
<1>4. Current \in s.interests <=> Current \in was.interests
  BY <1>3, HiddenAlike
<1>5. Past \in s.interests <=> Past \in was.interests
  BY <1>3, HiddenAlike
<1>6. Ticked(s) \subseteq ForMembers
  BY DEF Ticked
<1>7. IF Current \in was.interests
      THEN /\ choice' = [choice EXCEPT ![a] = Ticked(s)]
           /\ raced' = IF ToBeUpdated(a) THEN raced \union {a} ELSE raced \ {a}
      ELSE UNCHANGED <<choice, raced>>
  BY DEF Choose
<1> HIDE DEF s, was
<1>8. choice \in [Addresses -> SUBSET ForMembers] /\ raced \subseteq Addresses /\ leavers \subseteq Addresses
  BY DEF MailInv, MailChimpTypeOK
<1>9. a \in leavers => Past \in was.interests /\ was.status # "subscribed"
  BY DEF MailInv, LeaversLeft, was
<1>10. /\ choice' \in [Addresses -> SUBSET ForMembers] /\ raced' \subseteq Addresses
       /\ \A b \in Addresses \ {a} : choice'[b] = choice[b] /\ (b \in raced' <=> b \in raced)
       /\ \/ UNCHANGED <<choice, raced>> /\ Current \notin s.interests
          \/ choice'[a] = Ticked(s) /\ Current \in s.interests /\ (ToBeUpdated(a) => a \in raced')
  BY <1>4, <1>6, <1>7, <1>8
<1>11. \A b \in leavers' : \/ b \in leavers /\ b # a
                           \/ b = a /\ Past \in s.interests /\ s.status # "subscribed"
  BY <1>1, <1>2, <1>5, <1>9
<1> QED BY <1>1, <1>2, <1>3, <1>8, <1>10, <1>11, AlteredStep DEF was

LEMMA SignUpStep ==
    ASSUME MailInv, NEW a \in Addresses, NEW N \in SUBSET GroupNames, SignUp(a, N)
    PROVE  MailInv'
<1> DEFINE s == [status |-> "subscribed", interests |-> Groups(N)]
<1>1. s \in Subscriber
  BY InterestsOf DEF Subscriber, Statuses, Groups
<1>2. Past \notin s.interests /\ Current \notin s.interests
  BY InterestsApart DEF Groups
<1>3. a \notin leavers /\ audience[a] = NoSubscriber
  BY DEF SignUp, MailInv, LeaversLeft
<1>4. /\ choice \in [Addresses -> SUBSET ForMembers] /\ raced \subseteq Addresses /\ leavers \subseteq Addresses
      /\ UNCHANGED <<choice, raced, leavers>> /\ Altered(a, s)
  BY DEF MailInv, MailChimpTypeOK, SignUp
<1> HIDE DEF s
<1> QED BY <1>1, <1>2, <1>3, <1>4, AlteredStep

LEMMA ChangeStatusStep ==
    ASSUME MailInv, NEW a \in Addresses, NEW status \in Statuses, ChangeStatus(a, status)
    PROVE  MailInv'
<1> DEFINE was == audience[a]
           s == [was EXCEPT !.status = status]
<1>1. was \in Subscriber /\ was # NoSubscriber
  BY DEF MailInv, MailChimpTypeOK, Audiences, ChangeStatus
<1>2. s \in Subscriber /\ s.interests = was.interests /\ s.status = status
  BY <1>1 DEF Subscriber
<1>3. Hidden(s) = Hidden(was) /\ Ticked(s) = Ticked(was)
  BY <1>2 DEF Hidden, Ticked
<1>4. /\ choice \in [Addresses -> SUBSET ForMembers] /\ raced \subseteq Addresses /\ leavers \subseteq Addresses
      /\ UNCHANGED <<choice, raced>> /\ Altered(a, s)
      /\ leavers' = IF status = "unsubscribed" /\ Past \in was.interests
                    THEN leavers \union {a} ELSE leavers \ {a}
  BY DEF MailInv, MailChimpTypeOK, ChangeStatus
<1> HIDE DEF s, was
<1>5. leavers' \subseteq Addresses
  BY <1>4
<1>6. \A b \in leavers' : \/ b \in leavers /\ b # a
                          \/ b = a /\ Past \in s.interests /\ s.status # "subscribed"
  BY <1>2, <1>4
<1> QED BY <1>1, <1>2, <1>3, <1>4, <1>5, <1>6, AlteredStep DEF was

-----------------------------------------------------------------------------
(* The import *)

LEMMA Imports ==
    ASSUME MailChimpTypeOK, mcImport # NoImport
    PROVE  /\ mcImport \in ImportRecords
           /\ mcImport.members \subseteq Addresses /\ mcImport.left \subseteq Addresses
           /\ mcImport.list \in Audiences
           /\ mcImport.step \in {"list", "update"} /\ mcImport.clean \in BOOLEAN
BY DEF MailChimpTypeOK, ImportRecords

LEMMA StartImportStep ==
    ASSUME MailInv, StartImport
    PROVE  MailInv'
<1> DEFINE i == [members |-> clubMembers, list |-> [a \in Addresses |-> NoSubscriber],
                 step |-> "list", left |-> clubMembers, clean |-> TRUE]
<1>1. /\ mcImport' = i
      /\ UNCHANGED <<clubMembers, audience, choice, raced, leavers, inStep, turns>>
  BY DEF StartImport
<1>2. /\ i \in ImportRecords
      /\ i.members = clubMembers /\ i.left = clubMembers /\ i.step = "list"
  BY DEF MailInv, MailChimpTypeOK, ImportRecords, Audiences
<1> HIDE DEF i
<1>3. MailChimpTypeOK'
  BY <1>1, <1>2 DEF MailInv, MailChimpTypeOK
<1>4. ChoicesKept' /\ ListInStep' /\ LeaversLeft'
  BY <1>1 DEF MailInv, ChoicesKept, ListInStep, LeaversLeft, Ticked, Remembered
<1>5. MembersFirst' /\ ListFollowed' /\ CleanSoFar' /\ StillInStep'
  BY <1>1, <1>2 DEF MembersFirst, ListFollowed, CleanSoFar, StillInStep
<1> QED BY <1>3, <1>4, <1>5 DEF MailInv

LEMMA FetchListStep ==
    ASSUME MailInv, FetchList
    PROVE  MailInv'
<1>1. /\ mcImport # NoImport /\ mcImport.step = "list"
      /\ UNCHANGED <<clubMembers, audience, choice, raced, leavers, inStep, turns>>
  BY DEF FetchList
<1>2. /\ mcImport' \in ImportRecords
      /\ mcImport'.members = mcImport.members /\ mcImport'.clean = mcImport.clean
      /\ mcImport'.list = audience /\ mcImport'.step = "update"
      /\ mcImport'.left = mcImport.left \union {a \in Addresses : audience[a] # NoSubscriber}
  <2>1. mcImport \in ImportRecords /\ audience \in Audiences
    BY <1>1 DEF MailInv, MailChimpTypeOK
  <2> QED BY <2>1 DEF FetchList, ImportRecords
<1>3. MailChimpTypeOK'
  BY <1>1, <1>2 DEF MailInv, MailChimpTypeOK
<1>4. ChoicesKept' /\ ListInStep' /\ LeaversLeft' /\ MembersFirst'
  BY <1>1, <1>2 DEF MailInv, ChoicesKept, ListInStep, LeaversLeft, MembersFirst, Ticked, Remembered
<1>5. mcImport.left = mcImport.members
  BY <1>1 DEF MailInv, MembersFirst
<1>6. ListFollowed'
  BY <1>1, <1>2, <1>5 DEF ListFollowed, Was, Hidden, Ticked
<1>7. CleanSoFar'
  BY <1>1, <1>2, <1>5 DEF MailInv, CleanSoFar, IsCurrent
<1>8. StillInStep'
  BY <1>1, <1>2 DEF MailInv, StillInStep, ListInStep, Was
<1> QED BY <1>3, <1>4, <1>6, <1>7, <1>8 DEF MailInv

\* What is known of an address that the import updates.
LEMMA UpdatingKnows ==
    ASSUME MailInv, NEW a \in Addresses, Updating(a)
    PROVE  /\ mcImport # NoImport /\ mcImport.step = "update" /\ a \in mcImport.left
           /\ mcImport.list[a] # NoSubscriber =>
                /\ audience[a] \in Subscriber /\ mcImport.list[a] \in Subscriber
                /\ Was(a, Current) <=> Current \in audience[a].interests
                /\ Was(a, Past) <=> Past \in audience[a].interests
                /\ Remembered(audience[a]) = Remembered(mcImport.list[a])
                /\ a \notin raced /\ Was(a, Current) => Ticked(audience[a]) = Ticked(mcImport.list[a])
           /\ mcImport.list[a] = NoSubscriber => a \in mcImport.members
           /\ inStep => (a \in mcImport.members <=> Was(a, Current))
<1>1. mcImport # NoImport /\ mcImport.step = "update" /\ a \in mcImport.left
  BY DEF Updating
<1>2. /\ audience \in Audiences /\ mcImport.list \in Audiences
      /\ inStep => (a \in mcImport.members <=> Was(a, Current))
  BY <1>1, Imports DEF MailInv, MailChimpTypeOK, StillInStep
<1>3. /\ mcImport.list[a] = NoSubscriber => a \in mcImport.members
      /\ mcImport.list[a] # NoSubscriber =>
           /\ audience[a] # NoSubscriber
           /\ Hidden(audience[a]) = Hidden(mcImport.list[a])
           /\ a \notin raced /\ Was(a, Current) => Ticked(audience[a]) = Ticked(mcImport.list[a])
  BY <1>1 DEF MailInv, ListFollowed
<1>4. mcImport.list[a] # NoSubscriber => audience[a] \in Subscriber /\ mcImport.list[a] \in Subscriber
  BY <1>2, <1>3 DEF Audiences
<1> QED BY <1>1, <1>2, <1>3, <1>4, HiddenAlike DEF Was

LEMMA DoneWith ==
    ASSUME MailInv, NEW a \in Addresses, Updating(a), NEW clean \in BOOLEAN, Done(a, clean)
    PROVE  /\ mcImport' \in ImportRecords
           /\ mcImport'.members = mcImport.members /\ mcImport'.list = mcImport.list
           /\ mcImport'.step = "update" /\ mcImport.step = "update" /\ mcImport # NoImport
           /\ mcImport'.left = mcImport.left \ {a}
           /\ mcImport'.clean <=> mcImport.clean /\ clean
<1>1. mcImport # NoImport /\ mcImport.step = "update"
  BY DEF Updating
<1>2. mcImport \in ImportRecords
  BY <1>1 DEF MailInv, MailChimpTypeOK
<1> QED BY <1>1, <1>2 DEF Done, ImportRecords

\* The address is brought into step: it becomes s.
LEMMA UpdatedStep ==
    ASSUME MailInv, NEW a \in Addresses, Updating(a), NEW s \in Subscriber, Done(a, TRUE),
           audience' = [audience EXCEPT ![a] = s],
           UNCHANGED <<clubMembers, leavers, inStep, turns>>,
           choice' \in [Addresses -> SUBSET ForMembers], raced' \subseteq raced,
           \A b \in Addresses \ {a} : choice'[b] = choice[b] /\ (b \in raced => b \in raced'),
           ~ inStep,
           Current \in s.interests <=> a \in mcImport.members,
           a \notin raced' /\ Past \in s.interests =>
             choice'[a] = IF Current \in s.interests THEN Ticked(s) ELSE Remembered(s),
           a \in leavers => Past \in s.interests /\ s.status # "subscribed"
    PROVE  MailInv'
<1>1. /\ mcImport' \in ImportRecords
      /\ mcImport'.members = mcImport.members /\ mcImport'.list = mcImport.list
      /\ mcImport'.step = "update" /\ mcImport.step = "update" /\ mcImport # NoImport
      /\ mcImport'.left = mcImport.left \ {a}
      /\ mcImport'.clean <=> mcImport.clean
  BY DoneWith
<1>2. /\ audience' \in Audiences /\ audience'[a] = s /\ s # NoSubscriber
      /\ \A b \in Addresses \ {a} : audience'[b] = audience[b]
  BY SubscriberAssumption DEF MailInv, MailChimpTypeOK, Audiences
<1>3. MailChimpTypeOK'
  BY <1>1, <1>2 DEF MailInv, MailChimpTypeOK
<1>4. ChoicesKept'
  <2> SUFFICES ASSUME NEW b \in Addresses, b \notin raced', audience'[b] # NoSubscriber,
                      Past \in audience'[b].interests
               PROVE  choice'[b] = IF Current \in audience'[b].interests
                                   THEN Ticked(audience'[b]) ELSE Remembered(audience'[b])
    BY DEF ChoicesKept, Ticked, Remembered
  <2>1. CASE b = a
    BY <1>2, <2>1
  <2>2. CASE b # a
    BY <1>2, <2>2 DEF MailInv, ChoicesKept
  <2> QED BY <2>1, <2>2
<1>5. LeaversLeft'
  BY <1>2 DEF MailInv, MailChimpTypeOK, LeaversLeft
<1>6. ListFollowed'
  <2>1. \A b \in mcImport'.left : b \in mcImport.left /\ b \in Addresses \ {a}
    BY <1>1, Imports DEF MailInv
  <2> QED BY <1>1, <1>2, <2>1 DEF MailInv, ListFollowed, Was, Hidden, Ticked
<1>7. CleanSoFar'
  BY <1>1, <1>2 DEF MailInv, CleanSoFar, IsCurrent
<1>8. MembersFirst' /\ StillInStep' /\ ListInStep'
  BY <1>1 DEF MembersFirst, StillInStep, ListInStep
<1> QED BY <1>3, <1>4, <1>5, <1>6, <1>7, <1>8 DEF MailInv

\* The address is left as it is.
LEMMA PassByStep ==
    ASSUME MailInv, NEW a \in Addresses, Updating(a), NEW clean \in BOOLEAN, PassBy(a, clean),
           clean => (a \in mcImport.members <=> Was(a, Current))
    PROVE  MailInv'
<1>1. /\ mcImport' \in ImportRecords
      /\ mcImport'.members = mcImport.members /\ mcImport'.list = mcImport.list
      /\ mcImport'.step = "update" /\ mcImport.step = "update" /\ mcImport # NoImport
      /\ mcImport'.left = mcImport.left \ {a}
      /\ mcImport'.clean <=> mcImport.clean /\ clean
      /\ UNCHANGED <<clubMembers, audience, choice, raced, leavers, inStep, turns>>
  BY DoneWith DEF PassBy
<1>2. MailChimpTypeOK'
  BY <1>1 DEF MailInv, MailChimpTypeOK
<1>3. ChoicesKept' /\ LeaversLeft' /\ ListInStep' /\ MembersFirst'
  BY <1>1 DEF MailInv, ChoicesKept, LeaversLeft, ListInStep, MembersFirst, Ticked, Remembered
<1>4. ListFollowed'
  BY <1>1 DEF MailInv, ListFollowed, Was, Hidden, Ticked
<1>5. CleanSoFar'
  <2>1. mcImport.clean => mcImport.list[a] = audience[a]
    BY <1>1 DEF MailInv, CleanSoFar, Updating
  <2> QED BY <1>1, <2>1 DEF MailInv, CleanSoFar, IsCurrent, Was
<1>6. StillInStep'
  BY <1>1 DEF MailInv, StillInStep, Was
<1> QED BY <1>2, <1>3, <1>4, <1>5, <1>6 DEF MailInv

\* The address becomes s and gets all groups for members.
LEMMA EnrolledStep ==
    ASSUME MailInv, NEW a \in Addresses, Updating(a), NEW s \in Subscriber,
           Enrolled(a, s, ForMembers),
           ~ inStep, a \in mcImport.members, a \notin leavers,
           Interests \ Groups(GroupNames \ ForMembers) \subseteq s.interests
    PROVE  MailInv'
<1>1. choice \in [Addresses -> SUBSET ForMembers]
  BY DEF MailInv, MailChimpTypeOK
<1>2. \A n \in ForMembers : Group(n) \in s.interests
  BY InterestsOf, InterestsApart DEF Groups
<1>3. Ticked(s) = ForMembers
  BY <1>2 DEF Ticked
<1>4. Current \in s.interests
  BY InterestsOf, InterestsApart DEF Groups
<1> QED BY <1>1, <1>3, <1>4, UpdatedStep DEF Enrolled

LEMMA AddMemberStep ==
    ASSUME MailInv, NEW a \in Addresses, NEW accepted \in BOOLEAN, AddMember(a, accepted)
    PROVE  MailInv'
<1> DEFINE s == [status |-> "subscribed", interests |-> NewMember]
<1>1. Updating(a) /\ a \in mcImport.members /\ ~ Was(a, Current)
  BY DEF AddMember, Was
<1>2. CASE PassBy(a, FALSE)
  BY <1>1, <1>2, PassByStep
<1>3. CASE audience[a] = NoSubscriber /\ Enrolled(a, s, ForMembers)
  <2>1. s \in Subscriber /\ s.interests = Interests
    BY DEF Subscriber, Statuses, NewMember
  <2>2. ~ inStep
    BY <1>1, UpdatingKnows
  <2>3. a \notin leavers
    BY <1>3 DEF MailInv, LeaversLeft
  <2> HIDE DEF s
  <2> QED BY <1>1, <1>3, <2>1, <2>2, <2>3, EnrolledStep
<1> QED BY <1>2, <1>3 DEF AddMember

LEMMA EnrollSubscriberStep ==
    ASSUME MailInv, NEW a \in Addresses, NEW accepted \in BOOLEAN, EnrollSubscriber(a, accepted)
    PROVE  MailInv'
<1> DEFINE anew == Set(audience[a], NewMember, {})
           back == Set(audience[a], Member, Groups(GroupNames \ ForMembers))
           s == [back EXCEPT !.status = "subscribed"]
<1>1. /\ Updating(a) /\ a \in mcImport.members /\ mcImport.list[a] # NoSubscriber
      /\ ~ Was(a, Current) /\ ~ Was(a, Past)
  BY DEF EnrollSubscriber
<1>2. audience[a] \in Subscriber /\ Past \notin audience[a].interests /\ ~ inStep
  BY <1>1, UpdatingKnows
<1>3. a \notin leavers
  BY <1>2 DEF MailInv, LeaversLeft
<1>4. CASE PassBy(a, FALSE)
  BY <1>1, <1>4, PassByStep
<1>5. CASE Enrolled(a, anew, ForMembers)
  <2>1. NewMember \subseteq Interests
    BY DEF NewMember
  <2>2. anew \in Subscriber /\ anew.interests = (audience[a].interests \ {}) \union NewMember
    BY <1>2, <2>1, SetTo
  <2>3. Interests \subseteq anew.interests
    BY <2>2 DEF NewMember
  <2> HIDE DEF anew
  <2> QED BY <1>1, <1>2, <1>3, <1>5, <2>2, <2>3, EnrolledStep
<1>6. CASE Enrolled(a, s, ForMembers)
  <2>0. Member \subseteq Interests
    BY DEF Member
  <2>1. back \in Subscriber /\ Member \subseteq back.interests
    <3> DEFINE off == Groups(GroupNames \ ForMembers)
    <3>1. back = Set(audience[a], Member, off)
      OBVIOUS
    <3> HIDE DEF back, off
    <3>2. back \in Subscriber /\ back.interests = (audience[a].interests \ off) \union Member
      BY <1>2, <2>0, <3>1, SetTo
    <3> QED BY <3>2
  <2> HIDE DEF back
  <2>2. s \in Subscriber /\ s.interests = back.interests
    BY <2>1 DEF Subscriber, Statuses
  <2> HIDE DEF s
  <2>3. Interests \ Groups(GroupNames \ ForMembers) \subseteq s.interests
    BY <2>1, <2>2 DEF Member
  <2> QED BY <1>1, <1>2, <1>3, <1>6, <2>2, <2>3, EnrolledStep
<1> QED BY <1>4, <1>5, <1>6 DEF EnrollSubscriber

LEMMA RecallMemberStep ==
    ASSUME MailInv, NEW a \in Addresses, RecallMember(a)
    PROVE  MailInv'
<1> DEFINE kept == Remembered(mcImport.list[a])
           s == Recalled(a)
<1>1. /\ Updating(a) /\ a \in mcImport.members /\ ~ Was(a, Current) /\ Was(a, Past)
      /\ audience' = [audience EXCEPT ![a] = s] /\ Done(a, TRUE)
      /\ UNCHANGED <<clubMembers, choice, raced, leavers, inStep, turns>>
  BY DEF RecallMember
<1>2. mcImport.list[a] # NoSubscriber
  BY <1>1 DEF Was
<1>3. /\ audience[a] \in Subscriber /\ ~ inStep
      /\ Current \notin audience[a].interests /\ Past \in audience[a].interests
      /\ Remembered(audience[a]) = kept
  BY <1>1, <1>2, UpdatingKnows
<1>4. kept \subseteq ForMembers
  BY DEF Remembered
<1>5. Groups(kept) \union {Current} \subseteq Interests
  BY <1>4, InterestsOf DEF Groups
<1>6. /\ s \in Subscriber /\ s.status = audience[a].status
      /\ s.interests = (audience[a].interests \ Groups(ForMembers \ kept)) \union Groups(kept) \union {Current}
  <2>1. s = Set(audience[a], Groups(kept) \union {Current}, Groups(ForMembers \ kept))
    BY DEF Recalled
  <2> DEFINE on == Groups(kept) \union {Current}
             off == Groups(ForMembers \ kept)
  <2>2. s = Set(audience[a], on, off) /\ on \subseteq Interests
    BY <1>5, <2>1
  <2> HIDE DEF s, kept, on, off
  <2>3. audience[a] \in Subscriber
    BY <1>3
  <2>4. s \in Subscriber /\ s.status = audience[a].status /\ s.interests = (audience[a].interests \ off) \union on
    BY <2>2, <2>3, SetTo
  <2> QED BY <2>4 DEF on, off
<1>7. Past \in s.interests
  BY <1>3, <1>6, InterestsApart DEF Groups
<1> HIDE DEF s
<1>8. Ticked(s) = kept
  <2>1. \A n \in ForMembers : Group(n) \in Groups(kept) <=> n \in kept
    BY InterestsApart DEF Groups
  <2>2. \A n \in ForMembers : n \notin kept => Group(n) \in Groups(ForMembers \ kept)
    BY DEF Groups
  <2>3. \A n \in ForMembers : Group(n) \in s.interests <=> n \in kept
    BY <1>6, <2>1, <2>2, InterestsApart
  <2> QED BY <1>4, <2>3 DEF Ticked
<1>9. audience[a] # NoSubscriber
  BY <1>3, SubscriberAssumption
<1>10. a \notin raced => choice[a] = kept
  BY <1>3, <1>9 DEF MailInv, ChoicesKept
<1>11. a \in leavers => s.status # "subscribed"
  BY <1>6 DEF MailInv, LeaversLeft
<1>12. choice' \in [Addresses -> SUBSET ForMembers] /\ choice' = choice /\ raced' = raced
  BY <1>1 DEF MailInv, MailChimpTypeOK
<1>13. Current \in s.interests
  BY <1>6
<1> HIDE DEF kept
<1> QED BY <1>1, <1>3, <1>6, <1>7, <1>8, <1>10, <1>11, <1>12, <1>13, UpdatedStep

LEMMA LapseMemberStep ==
    ASSUME MailInv, NEW a \in Addresses, LapseMember(a)
    PROVE  MailInv'
<1> DEFINE had == Ticked(mcImport.list[a])
           off == Groups(ForMembers) \union {Current} \union Shadows(ForMembers \ had)
           s == Set(audience[a], Shadows(had), off)
<1>1. /\ Updating(a) /\ a \notin mcImport.members /\ Was(a, Current) /\ Done(a, TRUE)
      /\ audience' = [audience EXCEPT ![a] = Set(@, Shadows(had), off)]
      /\ UNCHANGED <<clubMembers, choice, raced, leavers, inStep, turns>>
  BY DEF LapseMember
<1>2. mcImport.list[a] # NoSubscriber
  BY <1>1 DEF Was
<1>3. /\ audience[a] \in Subscriber /\ ~ inStep
      /\ Current \in audience[a].interests
      /\ a \notin raced => Ticked(audience[a]) = had
  BY <1>1, <1>2, UpdatingKnows
<1>4. had \subseteq ForMembers
  BY DEF Ticked
<1>5. Shadows(had) \subseteq Interests
  BY <1>4, InterestsOf DEF Shadows
<1>6. /\ s \in Subscriber /\ s.status = audience[a].status
      /\ s.interests = (audience[a].interests \ off) \union Shadows(had)
  BY <1>3, <1>5, SetTo
<1>7. audience' = [audience EXCEPT ![a] = s]
  BY <1>1 DEF MailInv, MailChimpTypeOK, Audiences
<1> HIDE DEF s
<1>8. Past \in s.interests <=> Past \in audience[a].interests
  BY <1>6, InterestsApart DEF Groups, Shadows
<1>9. Current \notin s.interests
  BY <1>6, InterestsApart DEF Shadows
<1>10. Remembered(s) = had
  <2>1. \A n \in ForMembers : Shadow(n) \in Shadows(had) <=> n \in had
    BY InterestsApart DEF Shadows
  <2>2. \A n \in ForMembers : n \notin had => Shadow(n) \in off
    BY DEF Shadows
  <2>3. \A n \in ForMembers : Shadow(n) \in s.interests <=> n \in had
    BY <1>6, <2>1, <2>2
  <2> QED BY <1>4, <2>3 DEF Remembered
<1>11. audience[a] # NoSubscriber
  BY <1>3, SubscriberAssumption
<1>12. a \notin raced /\ Past \in s.interests => choice[a] = had
  BY <1>3, <1>8, <1>11 DEF MailInv, ChoicesKept
<1>13. a \in leavers => Past \in s.interests /\ s.status # "subscribed"
  BY <1>6, <1>8 DEF MailInv, LeaversLeft
<1>14. choice' \in [Addresses -> SUBSET ForMembers] /\ choice' = choice /\ raced' = raced
  BY <1>1 DEF MailInv, MailChimpTypeOK
<1> HIDE DEF had, off
<1> QED BY <1>1, <1>3, <1>6, <1>7, <1>9, <1>10, <1>12, <1>13, <1>14, UpdatedStep

LEMMA EndImportStep ==
    ASSUME MailInv, EndImport
    PROVE  MailInv'
<1>1. /\ mcImport # NoImport /\ mcImport.step = "update" /\ mcImport.left = {}
      /\ mcImport' = NoImport /\ inStep' = mcImport.clean
      /\ UNCHANGED <<clubMembers, audience, choice, raced, leavers, turns>>
  BY DEF EndImport
<1>2. MailChimpTypeOK'
  BY <1>1, Imports DEF MailInv, MailChimpTypeOK
<1>3. ChoicesKept' /\ LeaversLeft'
  BY <1>1 DEF MailInv, ChoicesKept, LeaversLeft, Ticked, Remembered
<1>4. ListInStep'
  BY <1>1 DEF MailInv, CleanSoFar, IsCurrent, ListInStep
<1>5. MembersFirst' /\ ListFollowed' /\ CleanSoFar' /\ StillInStep'
  BY <1>1 DEF MembersFirst, ListFollowed, CleanSoFar, StillInStep
<1> QED BY <1>2, <1>3, <1>4, <1>5 DEF MailInv

LEMMA AbortImportStep ==
    ASSUME MailInv, AbortImport
    PROVE  MailInv'
BY DEF AbortImport, MailInv, MailChimpTypeOK, ChoicesKept, LeaversLeft, ListInStep, MembersFirst,
       ListFollowed, CleanSoFar, StillInStep, Ticked, Remembered

LEMMA MailStutter == MailInv /\ UNCHANGED mailchimpVars => MailInv'
BY DEF mailchimpVars, MailInv, MailChimpTypeOK, ChoicesKept, LeaversLeft, ListInStep, MembersFirst,
       ListFollowed, CleanSoFar, StillInStep, Ticked, Remembered, IsCurrent, Was, Hidden

LEMMA MailInit == MailChimpInit => MailInv
<1> SUFFICES ASSUME MailChimpInit PROVE MailInv
  OBVIOUS
<1>1. audience \in Audiences
  <2>1. \A N \in SUBSET Groups(GroupNames) : [status |-> "subscribed", interests |-> N] \in Subscriber
    BY InterestsOf DEF Subscriber, Statuses, Groups
  <2>2. [status : {"subscribed"}, interests : SUBSET Groups(GroupNames)] \subseteq Subscriber
    BY DEF Subscriber, Statuses, Interests
  <2> QED BY <2>2 DEF MailChimpInit, Audiences
<1>2. MailChimpTypeOK
  <2>1. choice \in [Addresses -> SUBSET ForMembers]
    BY DEF MailChimpInit
  <2>2. turns \in 0 .. MaxTurns
    BY MailChimpAssumption DEF MailChimpInit
  <2> QED BY <1>1, <2>1, <2>2 DEF MailChimpInit, MailChimpTypeOK
<1>3. ChoicesKept
  <2>1. \A a \in Addresses : audience[a] # NoSubscriber => Past \notin audience[a].interests
    BY InterestsApart DEF MailChimpInit, Groups
  <2> QED BY <2>1 DEF ChoicesKept
<1> QED BY <1>2, <1>3 DEF MailChimpInit, MailInv, LeaversLeft, ListInStep, MembersFirst,
           ListFollowed, CleanSoFar, StillInStep

\* The invariant of the import: any changes of the club and by subscribers while it runs,
\* refusals and aborted imports included.
THEOREM MailInvariant == MailChimpSpec => []MailInv
<1>1. ASSUME MailInv, [MailChimpNext]_mailchimpVars PROVE MailInv'
  <2>1. CASE UNCHANGED mailchimpVars
    BY <1>1, <2>1, MailStutter
  <2>2. CASE MailChimpNext
    BY <1>1, <2>2, ChangeClubStep, ChooseStep, SignUpStep, ChangeStatusStep, StartImportStep,
       FetchListStep, AddMemberStep, EnrollSubscriberStep, RecallMemberStep, LapseMemberStep,
       PassByStep, EndImportStep, AbortImportStep DEF MailChimpNext, NothingToDo
  <2> QED BY <1>1, <2>1, <2>2
<1> QED BY <1>1, MailInit, PTL DEF MailChimpSpec

\* A member has the groups that were last chosen, through lapses and returns; whoever
\* unsubscribed stays so; and the list is in step after an import (import2mailchimp).
THEOREM MailingAlwaysFollows == MailChimpSpec => []MailingFollows
<1>1. MailInv => MailingFollows
  BY DEF MailInv, MailingFollows, LeaversLeft, LeaversStay
<1> QED BY <1>1, MailInvariant, PTL

-----------------------------------------------------------------------------
(* Local users: the inductive invariant *)

USE LocalAssumption

Row == [user : People, active : BOOLEAN]

Tables == UNION {[I -> Row] : I \in SUBSET RowIds}

Quiet == [stage : {"down", "waiting", "up"}]

Updaters == [stage : {"updating"}, users : [People -> BOOLEAN], rows : Tables, late : SUBSET People]

LocalTypeOK ==
    /\ account \in [People -> BOOLEAN] /\ localuser \in Tables
    /\ referenced \subseteq DOMAIN localuser
    /\ release \in {"old", "upgrading", "new"} /\ upgraded \in BOOLEAN
    /\ worker \in [Workers -> Quiet \union Updaters]
    /\ due \subseteq People

\* Only one worker updates the table, of the new release, and it still has the rows it read;
\* the users are as it read them, but for the late ones.
UpdatesAlone ==
    \A w \in Workers :
      /\ worker[w].stage # "down" => release = "new"
      /\ worker[w].stage = "updating" =>
           /\ \A v \in Workers : worker[v].stage = "updating" => v = w
           /\ worker[w].rows = localuser
           /\ \A u \in People \ worker[w].late : worker[w].users[u] = account[u]

\* After the migration a user has one row, and it is as active as the user.
UsersOnce ==
    upgraded =>
      /\ release # "old"
      /\ \A u \in People \ ambiguous :
           /\ \A i, j \in RowsOf(u) : i = j
           /\ u \notin due => \E i \in RowsOf(u) : localuser[i].active = account[u]

LocalInv == LocalTypeOK /\ UpdatesAlone /\ UsersOnce

-----------------------------------------------------------------------------
(* Tables *)

LEMMA TableRows ==
    ASSUME NEW t \in Tables
    PROVE  /\ DOMAIN t \subseteq RowIds
           /\ \A i \in DOMAIN t : t[i] \in Row /\ t[i].user \in People /\ t[i].active \in BOOLEAN
BY DEF Tables, Row

LEMMA IsTable ==
    ASSUME NEW I \in SUBSET RowIds, NEW t, t = [i \in I |-> t[i]], \A i \in I : t[i] \in Row
    PROVE  t \in Tables
BY DEF Tables

\* Table a is t with one row for each user of U.
Adds(a, t, U, new, active) ==
    /\ a \in Tables /\ DOMAIN t \subseteq DOMAIN a
    /\ \A i \in DOMAIN t : a[i] = t[i]
    /\ \A i \in DOMAIN a \ DOMAIN t :
         a[i].user \in U /\ i = new[a[i].user] /\ a[i].active = active[a[i].user]
    /\ \A u \in U : new[u] \in DOMAIN a \ DOMAIN t /\ a[new[u]].user = u

\* Insertion keeps the rows there are, and gives each new user one.
LEMMA Inserted ==
    ASSUME NEW t \in Tables, NEW U \in SUBSET People, NEW new \in [U -> RowIds \ DOMAIN t],
           IsInjective(new), NEW active \in [People -> BOOLEAN],
           NEW a, a = WithRows(t, new, active)
    PROVE  Adds(a, t, U, new, active)
<1> DEFINE I == DOMAIN t \union Range(new)
           who(i) == CHOOSE u \in DOMAIN new : new[u] = i
<1>1. /\ DOMAIN a = I /\ a = [i \in I |-> a[i]]
      /\ \A i \in DOMAIN t : a[i] = t[i]
      /\ \A i \in I \ DOMAIN t : a[i] = [user |-> who(i), active |-> active[who(i)]]
  BY DEF WithRows
<1>2. \A i \in I \ DOMAIN t : who(i) \in U /\ new[who(i)] = i
  BY DEF Range
<1>3. \A u \in U : new[u] \in I \ DOMAIN t /\ who(new[u]) = u
  <2>1. \A u \in U : new[u] \in I \ DOMAIN t
    BY DEF Range
  <2> QED BY <2>1, <1>2 DEF IsInjective
<1>4. I \subseteq RowIds
  BY TableRows DEF Range
<1> HIDE DEF who, I
<1>5. ASSUME NEW i \in I \ DOMAIN t
      PROVE  a[i] \in Row /\ a[i].user = who(i) /\ a[i].active = active[who(i)]
  <2>1. who(i) \in People /\ active[who(i)] \in BOOLEAN
    BY <1>2
  <2>2. a[i] = [user |-> who(i), active |-> active[who(i)]]
    BY <1>1
  <2> QED BY <2>1, <2>2 DEF Row
<1>6. \A i \in I : a[i] \in Row
  BY <1>1, <1>5, TableRows
<1>7. a \in Tables
  BY <1>1, <1>4, <1>6, IsTable
<1>8. DOMAIN t \subseteq DOMAIN a
  BY <1>1 DEF I
<1>9. \A i \in DOMAIN a \ DOMAIN t :
         a[i].user \in U /\ i = new[a[i].user] /\ a[i].active = active[a[i].user]
  BY <1>1, <1>2, <1>5
<1>10. \A u \in U : new[u] \in DOMAIN a \ DOMAIN t /\ a[new[u]].user = u
  BY <1>1, <1>3, <1>5
<1> QED BY <1>1, <1>7, <1>8, <1>9, <1>10 DEF Adds

\* An update of rows keeps their users.
LEMMA RefreshedRows ==
    ASSUME NEW t \in Tables, NEW I, NEW active \in [People -> BOOLEAN],
           NEW a, a = Refreshed(t, I, active)
    PROVE  /\ a \in Tables /\ DOMAIN a = DOMAIN t
           /\ \A i \in DOMAIN t :
                /\ a[i].user = t[i].user
                /\ i \in I => a[i].active = active[t[i].user]
                /\ i \notin I => a[i] = t[i]
<1>1. /\ DOMAIN a = DOMAIN t /\ a = [i \in DOMAIN t |-> a[i]]
      /\ \A i \in DOMAIN t :
           a[i] = IF i \in I THEN [t[i] EXCEPT !.active = active[t[i].user]] ELSE t[i]
  BY DEF Refreshed
<1>2. \A i \in DOMAIN t : /\ a[i] \in Row /\ a[i].user = t[i].user
                          /\ i \in I => a[i].active = active[t[i].user]
                          /\ i \notin I => a[i] = t[i]
  <2> TAKE i \in DOMAIN t
  <2>1. t[i] \in Row /\ active[t[i].user] \in BOOLEAN
    BY TableRows
  <2>2. CASE i \in I
    <3>1. a[i] = [t[i] EXCEPT !.active = active[t[i].user]]
      BY <1>1, <2>2
    <3>2. a[i] \in Row /\ a[i].user = t[i].user /\ a[i].active = active[t[i].user]
      <4> HIDE <1>1
      <4> QED BY <2>1, <3>1 DEF Row
    <3> QED BY <2>2, <3>2
  <2>3. CASE i \notin I
    BY <1>1, <2>1, <2>3
  <2> QED BY <2>2, <2>3
<1>3. a \in Tables
  BY <1>1, <1>2, TableRows, IsTable
<1> QED BY <1>1, <1>2, <1>3

\* Of two rows of a user one is kept rather than the other.
LEMMA RankedTotal ==
    ASSUME NEW i \in RowIds, NEW j \in RowIds, i # j,
           localuser[i].active \in BOOLEAN, localuser[j].active \in BOOLEAN
    PROVE  Ranked(i, j) \/ Ranked(j, i)
<1>1. i \in Nat /\ j \in Nat
  BY DEF RowIds
<1>2. i < j \/ j < i
  BY <1>1
<1> QED BY <1>2, Zenon DEF Ranked

LEMMA FreshOnes == localuser \in Tables => FreshIds \subseteq RowIds \ DOMAIN localuser
BY TableRows DEF FreshIds, RowIds

-----------------------------------------------------------------------------
(* Steps *)

LEMMA InitLocalInv == LocalInit => LocalInv
<1> SUFFICES ASSUME LocalInit PROVE LocalInv
  OBVIOUS
<1>1. localuser = [i \in {} |-> {}] /\ localuser \in [{} -> Row]
  BY DEF LocalInit
<1>2. localuser \in Tables
  BY <1>1 DEF Tables
<1>3. \A w \in Workers : worker[w].stage = "down"
  BY DEF LocalInit
<1>4. worker \in [Workers -> Quiet \union Updaters]
  BY DEF LocalInit, Quiet
<1> QED BY <1>2, <1>3, <1>4 DEF LocalInit, LocalInv, LocalTypeOK, UpdatesAlone, UsersOnce

\* Workers that are not updating do not matter, nor does whether one of them waits.
LEMMA QuietWorker ==
    ASSUME LocalInv, NEW w \in Workers, NEW s \in {"down", "waiting", "up"},
           worker' = [worker EXCEPT ![w] = [stage |-> s]], s # "down" => release = "new",
           UNCHANGED <<account, localuser, referenced, release, upgraded, ambiguous, due>>
    PROVE  LocalInv'
<1> USE DEF LocalInv, LocalTypeOK
<1>1. [stage |-> s] \in Quiet /\ s # "updating"
  BY DEF Quiet
<1>2. /\ worker' \in [Workers -> Quiet \union Updaters] /\ worker'[w].stage = s
      /\ \A v \in Workers : v # w => worker'[v] = worker[v]
  BY <1>1
<1>3. UpdatesAlone'
  BY <1>2 DEF UpdatesAlone
<1> QED BY <1>2, <1>3 DEF UsersOnce, RowsOf, RowOf

LEMMA EditStep ==
    ASSUME LocalInv, NEW u \in People, EditUser(u)
    PROVE  LocalInv'
<1> USE DEF LocalInv, LocalTypeOK
<1> DEFINE later(w) == IF worker[w].stage = "updating"
                       THEN [worker[w] EXCEPT !.late = @ \union {u}] ELSE worker[w]
<1>1. /\ account' = [account EXCEPT ![u] = ~@] /\ due' = due \union {u}
      /\ worker' = [w \in Workers |-> later(w)]
      /\ UNCHANGED <<localuser, referenced, release, upgraded, ambiguous>>
  BY DEF EditUser
<1>2. ASSUME NEW w \in Workers
      PROVE  /\ later(w) \in Quiet \union Updaters /\ later(w).stage = worker[w].stage
             /\ worker[w].stage = "updating" =>
                  /\ later(w).users = worker[w].users /\ later(w).rows = worker[w].rows
                  /\ later(w).late = worker[w].late \union {u}
  BY DEF Quiet, Updaters
<1> HIDE DEF later
<1>3. account' \in [People -> BOOLEAN] /\ \A v \in People \ {u} : account'[v] = account[v]
  BY <1>1
<1>4. UpdatesAlone'
  BY <1>1, <1>2, <1>3 DEF UpdatesAlone
<1>5. UsersOnce'
  BY <1>1, <1>3 DEF UsersOnce, RowsOf, RowOf
<1> QED BY <1>1, <1>2, <1>3, <1>4, <1>5

LEMMA ReferStep ==
    ASSUME LocalInv, NEW i \in DOMAIN localuser, Refer(i)
    PROVE  LocalInv'
BY DEF Refer, LocalInv, LocalTypeOK, UpdatesAlone, UsersOnce, RowsOf, RowOf

\* The earlier release: nothing is upgraded, and no worker of the new one runs.
LEMMA OldStep ==
    ASSUME LocalInv, NEW u \in People, UpdateOld(u)
    PROVE  LocalInv'
<1> USE DEF LocalInv, LocalTypeOK
<1>1. /\ release = "old" /\ ~ upgraded /\ \A w \in Workers : worker[w].stage # "updating"
      /\ UNCHANGED <<account, referenced, release, upgraded, worker, ambiguous, due>>
  BY DEF UpdateOld, UpdatesAlone, UsersOnce
<1>2. localuser' \in Tables /\ DOMAIN localuser \subseteq DOMAIN localuser'
  <2>1. ASSUME NEW i \in FreshIds
        PROVE  /\ [v \in {u} |-> i] \in [{u} -> RowIds \ DOMAIN localuser]
               /\ IsInjective([v \in {u} |-> i])
    <3>1. i \in RowIds \ DOMAIN localuser
      BY FreshOnes
    <3>2. \A a, b \in {u} : a = b
      OBVIOUS
    <3> QED BY <3>1, <3>2 DEF IsInjective
  <2>2. ASSUME NEW i \in FreshIds, localuser' = WithRows(localuser, [v \in {u} |-> i], account)
        PROVE  localuser' \in Tables /\ DOMAIN localuser \subseteq DOMAIN localuser'
    <3> DEFINE new == [v \in {u} |-> i]
               U == {u}
    <3>1. /\ U \in SUBSET People /\ new \in [U -> RowIds \ DOMAIN localuser] /\ IsInjective(new)
          /\ localuser' = WithRows(localuser, new, account)
      BY <2>1, <2>2
    <3> HIDE DEF new, U
    <3>2. Adds(localuser', localuser, U, new, account)
      BY <3>1, Inserted, Zenon
    <3> QED BY <3>2 DEF Adds
  <2>3. CASE localuser' = Refreshed(localuser, Active(u), account)
    BY <2>3, RefreshedRows
  <2> QED BY <2>2, <2>3 DEF UpdateOld
<1> QED BY <1>1, <1>2 DEF UpdatesAlone, UsersOnce

LEMMA StopStep ==
    ASSUME LocalInv, StopAll \/ StartAnyway
    PROVE  LocalInv'
<1> USE DEF LocalInv, LocalTypeOK
<1>1. /\ release' \in {"upgrading", "new"}
      /\ UNCHANGED <<account, localuser, referenced, upgraded, ambiguous, due>>
  BY DEF StopAll, StartAnyway
<1>2. worker' \in [Workers -> Quiet \union Updaters]
  BY DEF StopAll, StartAnyway, Quiet
<1>3. \A w \in Workers : worker'[w].stage = "down"
  <2>1. CASE StopAll
    BY <2>1 DEF StopAll
  <2>2. CASE StartAnyway
    BY <2>2 DEF StartAnyway, UpdatesAlone
  <2> QED BY <2>1, <2>2
<1> QED BY <1>1, <1>2, <1>3 DEF UpdatesAlone, UsersOnce, RowsOf, RowOf

\* The migration leaves a user one row, unless it leaves the user alone, and removes no row
\* that something refers to.
LEMMA DedupStep ==
    ASSUME LocalInv, Dedup
    PROVE  LocalInv'
<1> USE DEF LocalInv, LocalTypeOK
<1>1. /\ release = "upgrading" /\ release' = "new" /\ upgraded'
      /\ localuser' = Restrict(localuser, DOMAIN localuser \ ToDelete)
      /\ ambiguous' = {u \in People : Unclear(u)} /\ due' = People
      /\ UNCHANGED <<account, referenced, worker>>
  BY DEF Dedup
<1>2. /\ DOMAIN localuser' = DOMAIN localuser \ ToDelete
      /\ \A i \in DOMAIN localuser' : localuser'[i] = localuser[i]
      /\ localuser' = [i \in DOMAIN localuser' |-> localuser'[i]]
  BY <1>1 DEF Restrict
<1>3. localuser' \in Tables
  <2> DEFINE t == localuser'
             I == DOMAIN localuser \ ToDelete
  <2>1. I \in SUBSET RowIds /\ \A i \in I : t[i] \in Row
    BY <1>2, TableRows
  <2>2. t = [i \in I |-> t[i]]
    BY <1>2
  <2> HIDE DEF t, I
  <2>3. t \in Tables
    BY <2>1, <2>2, IsTable
  <2> QED BY <2>3 DEF t
<1>4. referenced \subseteq DOMAIN localuser'
  <2> SUFFICES ASSUME NEW i \in referenced, i \in ToDelete PROVE FALSE
    BY <1>2
  <2>1. PICK j \in RowsOf(localuser[i].user) \ {i} : Ranked(j, i)
    BY DEF ToDelete
  <2>2. j \in referenced
    BY <2>1 DEF Ranked
  <2>3. Several(Referenced(localuser[i].user))
    BY <2>1, <2>2 DEF Several, Referenced, RowsOf, RowOf
  <2> QED BY <2>3 DEF ToDelete, Unclear
<1>5. \A w \in Workers : worker[w].stage = "down"
  BY <1>1 DEF UpdatesAlone
<1>6. ASSUME NEW u \in People, ~ Unclear(u), NEW i \in RowsOf(u)', NEW j \in RowsOf(u)', i # j
      PROVE  FALSE
  <2>1. /\ i \in RowsOf(u) /\ j \in RowsOf(u) /\ i \notin ToDelete /\ j \notin ToDelete
        /\ localuser[i].user = u /\ localuser[j].user = u
    BY <1>2 DEF RowsOf, RowOf
  <2>2. Ranked(i, j) \/ Ranked(j, i)
    BY <1>6, <2>1, TableRows, RankedTotal DEF RowsOf, RowOf
  <2> QED BY <1>6, <2>1, <2>2 DEF ToDelete, RowsOf, RowOf
<1>7. UsersOnce'
  BY <1>1, <1>6 DEF UsersOnce
<1> QED BY <1>1, <1>3, <1>4, <1>5, <1>7 DEF UpdatesAlone

LEMMA BeginStep ==
    ASSUME LocalInv, NEW w \in Workers, StartUpdate(w)
    PROVE  LocalInv'
<1> USE DEF LocalInv, LocalTypeOK
<1> DEFINE begun == [stage |-> "updating", users |-> account, rows |-> localuser, late |-> {}]
<1>1. /\ worker[w].stage = "waiting" /\ \A v \in Workers : worker[v].stage # "updating"
      /\ worker' = [worker EXCEPT ![w] = begun]
      /\ UNCHANGED <<account, localuser, referenced, release, upgraded, ambiguous, due>>
  BY DEF StartUpdate, LockFree
<1>2. begun \in Updaters
  BY DEF Updaters
<1>3. /\ worker' \in [Workers -> Quiet \union Updaters] /\ worker'[w] = begun
      /\ \A v \in Workers : v # w => worker'[v] = worker[v]
  BY <1>1, <1>2
<1>4. release = "new"
  BY <1>1 DEF UpdatesAlone
<1>5. UpdatesAlone'
  BY <1>1, <1>3, <1>4 DEF UpdatesAlone
<1> QED BY <1>1, <1>3, <1>5 DEF UsersOnce, RowsOf, RowOf

\* The update of the one worker that updates: the rows are still as it read them, so that
\* nobody who has a row gets another one.
LEMMA UpdateStep ==
    ASSUME LocalInv, NEW w \in Workers, CommitUpdate(w)
    PROVE  LocalInv'
<1> USE DEF LocalInv, LocalTypeOK
<1> DEFINE now == worker[w].users
           t == Refreshed(localuser, Latest(localuser), now)
<1>1. /\ worker[w].stage = "updating" /\ worker[w].rows = localuser /\ release = "new"
      /\ \A v \in Workers : v # w => worker[v].stage # "updating"
      /\ \A u \in People \ worker[w].late : now[u] = account[u]
  BY DEF CommitUpdate, UpdatesAlone
<1>2. now \in [People -> BOOLEAN] /\ worker[w].late \subseteq People
  <2>1. worker[w] \in Updaters
    BY <1>1 DEF Quiet
  <2> QED BY <2>1 DEF Updaters
<1>3. /\ worker' = [worker EXCEPT ![w] = [stage |-> "up"]] /\ due' = worker[w].late
      /\ UNCHANGED <<account, referenced, release, upgraded, ambiguous>>
  BY DEF CommitUpdate
<1>4. PICK new \in [People \ Found(localuser) -> FreshIds] :
         IsInjective(new) /\ localuser' = WithRows(t, new, now)
  BY <1>1 DEF CommitUpdate
<1>5. /\ t \in Tables /\ DOMAIN t = DOMAIN localuser
      /\ \A i \in DOMAIN localuser :
           /\ t[i].user = localuser[i].user
           /\ i \in Latest(localuser) => t[i].active = now[localuser[i].user]
  BY <1>2, RefreshedRows
<1> HIDE DEF t, now
<1>6. new \in [People \ Found(localuser) -> RowIds \ DOMAIN t]
  BY <1>4, <1>5, FreshOnes
<1>7. /\ localuser' \in Tables /\ DOMAIN t \subseteq DOMAIN localuser'
      /\ \A i \in DOMAIN t : localuser'[i] = t[i]
      /\ \A i \in DOMAIN localuser' \ DOMAIN t :
           /\ localuser'[i].user \in People \ Found(localuser)
           /\ i = new[localuser'[i].user] /\ localuser'[i].active = now[localuser'[i].user]
      /\ \A u \in People \ Found(localuser) :
           new[u] \in DOMAIN localuser' \ DOMAIN t /\ localuser'[new[u]].user = u
  <2> DEFINE U == People \ Found(localuser)
  <2>1. U \in SUBSET People /\ new \in [U -> RowIds \ DOMAIN t]
    BY <1>6
  <2> HIDE DEF U
  <2>2. Adds(localuser', t, U, new, now)
    BY <1>2, <1>4, <1>5, <2>1, Inserted, Zenon
  <2> QED BY <2>2 DEF Adds, U
<1>8. worker' \in [Workers -> Quiet \union Updaters] /\ UpdatesAlone'
  <2>1. [stage |-> "up"] \in Quiet
    BY DEF Quiet
  <2>2. /\ worker' \in [Workers -> Quiet \union Updaters] /\ worker'[w].stage = "up"
        /\ \A v \in Workers : v # w => worker'[v] = worker[v]
    BY <1>3, <2>1
  <2> QED BY <1>1, <1>3, <2>2 DEF UpdatesAlone
<1>9. ASSUME upgraded, NEW u \in People \ ambiguous
      PROVE  /\ \A i, j \in RowsOf(u)' : i = j
             /\ u \notin due' => \E i \in RowsOf(u)' : localuser'[i].active = account[u]
  <2>1. \A i, j \in RowsOf(u) : i = j
    BY <1>9 DEF UsersOnce
  <2>2. u \notin due' => now[u] = account[u]
    BY <1>1, <1>3
  <2>3. CASE u \in Found(localuser)
    <3>1. PICK i : i \in RowsOf(u) /\ RowsOf(u) = RowOf(localuser, u)
      BY <2>3 DEF Found, RowOf, RowsOf
    <3>2. RowsOf(u) = {i} /\ i \in Nat
      BY <2>1, <3>1, TableRows DEF RowsOf, RowOf, RowIds
    <3>3. i = CHOOSE k \in RowOf(localuser, u) : \A j \in RowOf(localuser, u) : j <= k
      BY <3>1, <3>2
    <3>4. i \in Latest(localuser)
      BY <2>3, <3>3 DEF Latest
    <3>5. RowsOf(u)' = {i}
      <4>1. \A k \in RowsOf(u)' : k \in DOMAIN t
        BY <1>7, <2>3 DEF RowsOf, RowOf
      <4>2. \A k \in DOMAIN t : localuser'[k].user = localuser[k].user
        BY <1>5, <1>7
      <4> QED BY <1>5, <1>7, <3>2, <4>1, <4>2 DEF RowsOf, RowOf
    <3>6. localuser'[i].active = now[u]
      BY <1>5, <1>7, <3>1, <3>4 DEF RowsOf, RowOf
    <3> QED BY <2>2, <3>5, <3>6
  <2>4. CASE u \notin Found(localuser)
    <3>1. \A i \in DOMAIN t : localuser'[i].user # u
      BY <1>5, <1>7, <2>4 DEF Found, RowOf
    <3>2. \A i \in RowsOf(u)' : i = new[u] /\ localuser'[i].active = now[u]
      BY <1>7, <3>1 DEF RowsOf, RowOf
    <3>3. new[u] \in RowsOf(u)'
      BY <1>7, <2>4 DEF RowsOf, RowOf
    <3> QED BY <2>2, <3>2, <3>3
  <2> QED BY <2>3, <2>4
<1>10. UsersOnce'
  BY <1>1, <1>3, <1>9 DEF UsersOnce
<1>11. referenced' \subseteq DOMAIN localuser'
  BY <1>3, <1>5, <1>7
<1> QED BY <1>2, <1>3, <1>7, <1>8, <1>10, <1>11

-----------------------------------------------------------------------------
(* The theorems *)

LEMMA NextLocalInv == LocalInv /\ [LocalNext]_localVars => LocalInv'
<1> SUFFICES ASSUME LocalInv, [LocalNext]_localVars PROVE LocalInv'
  OBVIOUS
<1>1. ASSUME NEW w \in Workers, AskForUpdate(w) \/ WorkerEnds(w) PROVE LocalInv'
  BY <1>1, QuietWorker DEF AskForUpdate, WorkerEnds
<1>2. CASE UNCHANGED localVars
  BY <1>2 DEF localVars, LocalInv, LocalTypeOK, UpdatesAlone, UsersOnce, RowsOf, RowOf
<1> QED BY <1>1, <1>2, EditStep, ReferStep, OldStep, StopStep, DedupStep, BeginStep, UpdateStep
        DEF LocalNext

\* An update works on the rows there are, because nobody else has written since it read.
THEOREM LocalInvariant == LocalSpec => []LocalInv
BY InitLocalInv, NextLocalInv, PTL DEF LocalSpec

\* Once the migration is done a user whose rows it could tell apart has one row and never
\* two, however many workers update the table; and no row in use is ever removed.
THEOREM OneRowEach == LocalSpec => []OneLocalUser
<1>1. LocalInv => OneLocalUser
  BY DEF LocalInv, LocalTypeOK, UsersOnce, OneLocalUser, Several
<1> QED BY <1>1, LocalInvariant, PTL

-----------------------------------------------------------------------------
(* The migration of the tables of members *)

USE MigrationAssumption

Rows == Cardinality(MemberIds)

\* The order of the query: each row of MemberIds once
Queried == {q \in [1 .. Rows -> MemberIds] : IsQuery(q)}

MigratedDates == [from : MemberIds, member : MemberIds, days : Stretch]
MigratedShips == [ShipIds -> [member : MemberIds, dates : MemberIds \cup {NoTables}]]
MigrationTables ==
    [kept : MemberIds \cup {NoTables}, members : SUBSET MemberIds,
     dates : SUBSET MigratedDates, ships : MigratedShips]

\* The rows a and b are of the same person, as the migration knows persons.
SamePerson(a, b) == MemberDob(oldMembers[a]) = MemberDob(oldMembers[b])

\* The row a was read, among the first k, right after one of the same person.
Repeats(q, k, a) == \E j \in 2 .. k : q[j] = a /\ SamePerson(q[j - 1], a)

\* The membership s refers to a row read before, of its person, and to memberdates of that row
\* with the days it had.
Settles(q, k, t, s) ==
    /\ t.ships[s].member \in t.members
    /\ \E i \in 1 .. k : t.ships[s].member = q[i]
    /\ SamePerson(t.ships[s].member, oldShips[s])
    /\ \E d \in t.dates : /\ d.from = t.ships[s].dates /\ d.member = t.ships[s].member
                          /\ d.days = oldMembers[oldShips[s]].days

\* The tables t after the first k rows: the rows read right after one of their person are
\* gone; the memberships of all that were read are settled, the others still as they were.
MergedSoFar(q, k, t) ==
    /\ t \in MigrationTables
    /\ k = 0 => t.kept = NoTables
    /\ k > 0 => /\ t.kept \in t.members /\ SamePerson(q[k], t.kept)
                /\ \E i \in 1 .. k : t.kept = q[i]
    /\ \A a \in MemberIds : a \in t.members <=> ~ Repeats(q, k, a)
    /\ \A s \in ShipIds :
         IF \E i \in 1 .. k : q[i] = oldShips[s] THEN Settles(q, k, t, s)
                                               ELSE t.ships[s].member = oldShips[s]

MigrationTypes == oldMembers \in [MemberIds -> OldMember] /\ oldShips \in [ShipIds -> MemberIds]

LEMMA RowsIs == Rows \in Nat
BY FS_CardinalityType DEF Rows

\* As many places as rows: each row comes once.
LEMMA QueriedOnce ==
    ASSUME MigrationTypes, NEW q \in Queried
    PROVE  /\ \A i, j \in 1 .. Rows : q[i] = q[j] => i = j
           /\ \A a \in MemberIds : \E i \in 1 .. Rows : q[i] = a
<1>1. q \in [1 .. Rows -> MemberIds] /\ {q[k] : k \in 1 .. Rows} = MemberIds
  BY DEF Queried, IsQuery, MigrationTypes
<1>2. \A a \in MemberIds : \E i \in 1 .. Rows : q[i] = a
  BY <1>1
<1>3. q \in Surjection(1 .. Rows, MemberIds)
  BY <1>1, <1>2 DEF Surjection
<1>4. IsFiniteSet(1 .. Rows) /\ Cardinality(1 .. Rows) = Cardinality(MemberIds)
  <2>1. Cardinality(1 .. Rows) = IF 1 > Rows THEN 0 ELSE Rows - 1 + 1
    BY RowsIs, FS_Interval
  <2>2. (IF 1 > Rows THEN 0 ELSE Rows - 1 + 1) = Rows
    BY RowsIs
  <2> QED BY <2>1, <2>2, RowsIs, FS_Interval DEF Rows
<1>5. q \in Injection(1 .. Rows, MemberIds)
  BY <1>3, <1>4, FS_SurjCardinalityBound, FS_SurjSameCardinalityImpliesInj
<1> QED BY <1>2, <1>5 DEF Injection, IsInjective

\* The tables before the first row
LEMMA UnmigratedStarts ==
    ASSUME MigrationTypes, NEW q \in Queried
    PROVE  MergedSoFar(q, 0, Unmigrated)
<1> DEFINE t == Unmigrated
<1>1. /\ t.kept = NoTables /\ t.members = MemberIds /\ t.dates = {}
      /\ t.ships = [s \in ShipIds |-> [member |-> oldShips[s], dates |-> NoTables]]
      /\ t = [kept |-> t.kept, members |-> t.members, dates |-> t.dates, ships |-> t.ships]
  BY DEF Unmigrated, MigrationTypes
<1>2. t.ships \in MigratedShips /\ \A s \in ShipIds : t.ships[s].member = oldShips[s]
  BY <1>1 DEF MigrationTypes, MigratedShips
<1>3. t \in MigrationTables
  BY <1>1, <1>2 DEF MigrationTables
<1>4. \A a : ~ Repeats(q, 0, a)
  BY DEF Repeats
<1>5. \A i \in 1 .. 0 : FALSE
  OBVIOUS
<1> HIDE DEF t
<1>6. \A a \in MemberIds : a \in t.members <=> ~ Repeats(q, 0, a)
  BY <1>1, <1>4
<1>7. MergedSoFar(q, 0, t)
  BY <1>1, <1>2, <1>3, <1>5, <1>6 DEF MergedSoFar
<1> QED BY <1>7 DEF t

\* Who is settled stays so when a row that was not read before is read, whether it is kept
\* or merged.
LEMMA SettledStay ==
    ASSUME MigrationTypes, NEW q \in Queried, NEW k \in 1 .. Rows,
           NEW t \in MigrationTables, NEW u \in MigrationTables, NEW s \in ShipIds,
           oldShips[s] # q[k], Settles(q, k - 1, t, s),
           u.ships[s] = t.ships[s], t.dates \subseteq u.dates,
           t.members \ {q[k]} \subseteq u.members
    PROVE  Settles(q, k, u, s)
<1>1. PICK i \in 1 .. k - 1 : t.ships[s].member = q[i]
  BY DEF Settles
<1>2. i \in 1 .. k /\ i \in 1 .. Rows /\ i # k
  BY RowsIs
<1>3. q[i] # q[k]
  BY <1>2, QueriedOnce
<1>4. u.ships[s].member \in u.members
  BY <1>1, <1>3 DEF Settles
<1> QED BY <1>1, <1>2, <1>4 DEF Settles

\* Merging the next row, or keeping it, settles its memberships and leaves the others.
LEMMA RowMerges ==
    ASSUME MigrationTypes, NEW q \in Queried, NEW k \in 1 .. Rows, NEW t,
           MergedSoFar(q, k - 1, t)
    PROVE  MergedSoFar(q, k, NextRow(t, q[k]))
<1> DEFINE a == q[k]
<1>1. /\ k \in Nat /\ k - 1 \in Nat /\ a \in MemberIds
      /\ \A i \in 1 .. k - 1 : i \in 1 .. k /\ i \in 1 .. Rows /\ i # k
      /\ k \in 1 .. k
      /\ \A i \in 1 .. k : i \in 1 .. k - 1 \/ i = k
      /\ t \in MigrationTables
  BY RowsIs DEF Queried, MergedSoFar
<1>2. \A i \in 1 .. k - 1 : q[i] # a
  BY <1>1, QueriedOnce
<1> HIDE DEF a
<1>3. \A b \in MemberIds : Repeats(q, k, b) <=>
        (Repeats(q, k - 1, b) \/ (b = a /\ k > 1 /\ SamePerson(q[k - 1], a)))
  <2>1. \A j \in 2 .. k : j \in 2 .. k - 1 \/ j = k
    BY <1>1
  <2>2. \A j \in 2 .. k - 1 : j \in 2 .. k
    BY <1>1
  <2>3. k > 1 <=> k \in 2 .. k
    BY <1>1
  <2> QED BY <2>1, <2>2, <2>3 DEF Repeats, a
<1>4. ~ Repeats(q, k - 1, a)
  <2>1. \A j \in 2 .. k - 1 : j \in 1 .. k - 1
    OBVIOUS
  <2> QED BY <1>2, <2>1 DEF Repeats
<1>5. a \in t.members
  BY <1>1, <1>4 DEF MergedSoFar
<1>6. \A b \in MemberIds : oldMembers[b].days \in Stretch
  BY DEF MigrationTypes, OldMember
<1>7. /\ t.kept \in MemberIds \cup {NoTables} /\ t.members \in SUBSET MemberIds
      /\ t.dates \in SUBSET MigratedDates /\ t.ships \in MigratedShips
      /\ DOMAIN t.ships = ShipIds
  BY <1>1 DEF MigrationTables, MigratedShips
<1>8. \A s \in ShipIds : oldShips[s] = a => t.ships[s].member = a
  BY <1>2 DEF MergedSoFar
<1>9. \A s \in ShipIds : oldShips[s] # a =>
        ((\E i \in 1 .. k : q[i] = oldShips[s]) <=> \E i \in 1 .. k - 1 : q[i] = oldShips[s])
  BY <1>1 DEF a
<1>10. k > 1 => /\ t.kept \in t.members /\ SamePerson(q[k - 1], t.kept)
                /\ \E i \in 1 .. k - 1 : t.kept = q[i]
  BY <1>1 DEF MergedSoFar
<1>11. k = 1 => t.kept = NoTables
  BY DEF MergedSoFar
<1>12. ASSUME NEW u \in MigrationTables, NEW s \in ShipIds, oldShips[s] # a,
              u.ships[s] = t.ships[s], t.dates \subseteq u.dates,
              t.members \ {a} \subseteq u.members
       PROVE  IF \E i \in 1 .. k : q[i] = oldShips[s] THEN Settles(q, k, u, s)
                                                     ELSE u.ships[s].member = oldShips[s]
  <2>1. CASE \E i \in 1 .. k - 1 : q[i] = oldShips[s]
    <3>1. Settles(q, k - 1, t, s)
      BY <2>1 DEF MergedSoFar
    <3>2. Settles(q, k, u, s)
      BY <1>1, <1>12, <3>1, SettledStay DEF a
    <3> QED BY <1>9, <1>12, <2>1, <3>2
  <2>2. CASE ~ \E i \in 1 .. k - 1 : q[i] = oldShips[s]
    BY <1>9, <1>12, <2>2 DEF MergedSoFar
  <2> QED BY <2>1, <2>2
<1>13. CASE t.kept # NoTables /\ SamePerson(a, t.kept)
  <2> DEFINE u == Merged(t, a)
             new == [from |-> a, member |-> t.kept, days |-> oldMembers[a].days]
             ships == [s \in ShipIds |-> IF oldShips[s] = a
                                         THEN [member |-> t.kept, dates |-> a] ELSE t.ships[s]]
  <2>1. k > 1 /\ t.kept \in MemberIds
    BY <1>1, <1>7, <1>11, <1>13
  <2>2. /\ u.kept = t.kept /\ u.members = t.members \ {a} /\ u.dates = t.dates \cup {new}
        /\ u.ships = ships
        /\ u = [kept |-> u.kept, members |-> u.members, dates |-> u.dates, ships |-> u.ships]
    <3> DEFINE D == t.dates \cup {new}
               M == t.members \ {a}
               K == t.kept
    <3>1. [s \in DOMAIN t.ships |-> IF oldShips[s] = a THEN [member |-> t.kept, dates |-> a] ELSE t.ships[s]] = ships
      BY <1>7
    <3>2. u = [t EXCEPT !.dates = D, !.ships = ships, !.members = M]
      BY <3>1 DEF Merged
    <3>3. t = [kept |-> t.kept, members |-> t.members, dates |-> t.dates, ships |-> t.ships]
      BY <1>1 DEF MigrationTables
    <3> HIDE DEF u, D, new, ships
    <3>4. u = [kept |-> K, members |-> M, dates |-> D, ships |-> ships]
      BY <3>2, <3>3
    <3>5. u.kept = K /\ u.members = M /\ u.dates = D /\ u.ships = ships
      BY <3>4
    <3> QED BY <3>4, <3>5 DEF D
  <2>3. new \in MigratedDates
    BY <1>1, <1>6, <2>1 DEF MigratedDates
  <2>4. ships \in MigratedShips
    <3>1. \A s \in ShipIds : t.ships[s] \in [member : MemberIds, dates : MemberIds \cup {NoTables}]
      BY <1>7 DEF MigratedShips
    <3>2. [member |-> t.kept, dates |-> a] \in [member : MemberIds, dates : MemberIds \cup {NoTables}]
      BY <1>1, <2>1
    <3> QED BY <3>1, <3>2 DEF MigratedShips
  <2>5. new.from = a /\ new.member = t.kept /\ new.days = oldMembers[a].days
    OBVIOUS
  <2>6. \A s \in ShipIds : /\ oldShips[s] # a => ships[s] = t.ships[s]
                           /\ oldShips[s] = a => ships[s].member = t.kept /\ ships[s].dates = a
    OBVIOUS
  <2>7. NextRow(t, a) = u
    BY <1>13 DEF NextRow, SamePerson
  <2> HIDE DEF u, new, ships
  <2>8. u \in MigrationTables
    BY <1>7, <2>2, <2>3, <2>4 DEF MigrationTables
  <2>9. u.kept \in u.members /\ SamePerson(a, u.kept) /\ \E i \in 1 .. k : u.kept = q[i]
    BY <1>1, <1>2, <1>10, <1>13, <2>1, <2>2
  <2>10. SamePerson(q[k - 1], a)
    BY <1>10, <1>13, <2>1 DEF SamePerson
  <2>11. \A b \in MemberIds : b \in u.members <=> ~ Repeats(q, k, b)
    BY <1>3, <1>1, <2>1, <2>2, <2>10 DEF MergedSoFar
  <2>12. ASSUME NEW s \in ShipIds
         PROVE  IF \E i \in 1 .. k : q[i] = oldShips[s] THEN Settles(q, k, u, s)
                                                       ELSE u.ships[s].member = oldShips[s]
    <3>1. CASE oldShips[s] = a
      <4>1. u.ships[s].member = u.kept /\ u.ships[s].dates = a
        BY <2>2, <2>6, <3>1
      <4>2. new \in u.dates /\ new.days = oldMembers[oldShips[s]].days
        BY <2>2, <2>5, <3>1
      <4>3. SamePerson(u.ships[s].member, oldShips[s])
        BY <2>9, <3>1, <4>1 DEF SamePerson
      <4>4. Settles(q, k, u, s)
        BY <2>2, <2>5, <2>9, <4>1, <4>2, <4>3 DEF Settles
      <4> QED BY <1>1, <3>1, <4>4 DEF a
    <3>2. CASE oldShips[s] # a
      BY <1>12, <2>2, <2>6, <2>8, <3>2
    <3> QED BY <3>1, <3>2
  <2>13. MergedSoFar(q, k, u)
    BY <1>1, <2>8, <2>9, <2>11, <2>12 DEF MergedSoFar, a
  <2> QED BY <2>7, <2>13 DEF a
<1>14. CASE ~ (t.kept # NoTables /\ SamePerson(a, t.kept))
  <2> DEFINE u == Kept(t, a)
             new == [from |-> a, member |-> a, days |-> oldMembers[a].days]
             ships == [s \in ShipIds |-> IF oldShips[s] = a
                                         THEN [t.ships[s] EXCEPT !.dates = a] ELSE t.ships[s]]
  <2>1. k > 1 => ~ SamePerson(q[k - 1], a)
    <3>1. ASSUME k > 1 PROVE t.kept # NoTables /\ SamePerson(q[k - 1], t.kept)
      BY <1>7, <1>10, <3>1
    <3> QED BY <1>14, <3>1 DEF SamePerson
  <2>2. /\ u.kept = a /\ u.members = t.members /\ u.dates = t.dates \cup {new}
        /\ u.ships = ships
        /\ u = [kept |-> u.kept, members |-> u.members, dates |-> u.dates, ships |-> u.ships]
    <3> DEFINE D == t.dates \cup {new}
               M == t.members
               K == a
    <3>1. [s \in DOMAIN t.ships |-> IF oldShips[s] = a THEN [t.ships[s] EXCEPT !.dates = a] ELSE t.ships[s]] = ships
      BY <1>7
    <3>2. u = [t EXCEPT !.dates = D, !.ships = ships, !.kept = K]
      BY <3>1 DEF Kept
    <3>3. t = [kept |-> t.kept, members |-> t.members, dates |-> t.dates, ships |-> t.ships]
      BY <1>1 DEF MigrationTables
    <3> HIDE DEF u, D, new, ships
    <3>4. u = [kept |-> K, members |-> M, dates |-> D, ships |-> ships]
      BY <3>2, <3>3
    <3>5. u.kept = K /\ u.members = M /\ u.dates = D /\ u.ships = ships
      BY <3>4
    <3> QED BY <3>4, <3>5 DEF D
  <2>3. new \in MigratedDates
    BY <1>1, <1>6 DEF MigratedDates
  <2>4. \A s \in ShipIds : t.ships[s] \in [member : MemberIds, dates : MemberIds \cup {NoTables}]
    BY <1>7 DEF MigratedShips
  <2>5. ships \in MigratedShips
    BY <1>1, <2>4 DEF MigratedShips
  <2>6. new.from = a /\ new.member = a /\ new.days = oldMembers[a].days
    OBVIOUS
  <2>7. \A s \in ShipIds : /\ oldShips[s] # a => ships[s] = t.ships[s]
                           /\ oldShips[s] = a => ships[s].member = a /\ ships[s].dates = a
    BY <1>8, <2>4
  <2>8. NextRow(t, a) = u
    BY <1>14 DEF NextRow, SamePerson
  <2> HIDE DEF u, new, ships
  <2>9. u \in MigrationTables
    BY <1>1, <1>7, <2>2, <2>3, <2>5 DEF MigrationTables
  <2>10. u.kept \in u.members /\ SamePerson(a, u.kept) /\ \E i \in 1 .. k : u.kept = q[i]
    BY <1>1, <1>5, <2>2 DEF SamePerson, a
  <2>11. \A b \in MemberIds : b \in u.members <=> ~ Repeats(q, k, b)
    BY <1>3, <2>1, <2>2 DEF MergedSoFar
  <2>12. ASSUME NEW s \in ShipIds
         PROVE  IF \E i \in 1 .. k : q[i] = oldShips[s] THEN Settles(q, k, u, s)
                                                       ELSE u.ships[s].member = oldShips[s]
    <3>1. CASE oldShips[s] = a
      <4>1. u.ships[s].member = a /\ u.ships[s].dates = a
        BY <2>2, <2>7, <3>1
      <4>2. new \in u.dates /\ new.days = oldMembers[oldShips[s]].days
        BY <2>2, <2>6, <3>1
      <4>3. SamePerson(u.ships[s].member, oldShips[s]) /\ u.ships[s].member \in u.members
        BY <2>2, <2>10, <3>1, <4>1 DEF SamePerson
      <4>4. Settles(q, k, u, s)
        BY <2>2, <2>6, <2>10, <4>1, <4>2, <4>3 DEF Settles
      <4> QED BY <1>1, <3>1, <4>4 DEF a
    <3>2. CASE oldShips[s] # a
      BY <1>12, <2>2, <2>7, <2>9, <3>2
    <3> QED BY <3>1, <3>2
  <2>13. MergedSoFar(q, k, u)
    BY <1>1, <2>9, <2>10, <2>11, <2>12 DEF MergedSoFar, a
  <2> QED BY <2>8, <2>13 DEF a
<1> QED BY <1>13, <1>14

\* The tables l after each of the first k rows
StartsTables(q, k, l) ==
    /\ l = [n \in 0 .. k |-> l[n]]
    /\ l[0] = Unmigrated
    /\ \A n \in 1 .. k : l[n] = NextRow(l[n - 1], q[n])

\* All rows read
LEMMA AllMerged ==
    ASSUME MigrationTypes, NEW q \in Queried
    PROVE  MergedSoFar(q, Rows, AfterRows(q))
<1> DEFINE Start == {k \in Nat : \E l : StartsTables(q, k, l)}
           Rule(l) == [k \in 0 .. Rows |-> IF k = 0 THEN Unmigrated ELSE NextRow(l[k - 1], q[k])]
<1>1. 0 \in Start
  <2> DEFINE l == [n \in 0 .. 0 |-> Unmigrated]
  <2>1. l = [n \in 0 .. 0 |-> l[n]] /\ l[0] = Unmigrated /\ \A n \in 1 .. 0 : FALSE
    OBVIOUS
  <2> HIDE DEF l
  <2>2. StartsTables(q, 0, l)
    BY <2>1 DEF StartsTables
  <2> QED BY <2>2
<1>2. ASSUME NEW k \in 1 .. Rows, k - 1 \in Start PROVE k \in Start
  <2>1. PICK l : StartsTables(q, k - 1, l)
    BY <1>2
  <2> DEFINE m == [n \in 0 .. k |-> IF n = k THEN NextRow(l[k - 1], q[k]) ELSE l[n]]
  <2>2. /\ k \in Nat /\ k # 0 /\ 0 \in 0 .. k /\ k \in 0 .. k
        /\ \A n \in 1 .. k : n \in 0 .. k /\ n - 1 \in 0 .. k /\ n - 1 # k
        /\ \A n \in 1 .. k : n = k \/ n \in 1 .. k - 1
    BY RowsIs
  <2>3. m = [n \in 0 .. k |-> m[n]] /\ m[0] = Unmigrated
    BY <2>1, <2>2 DEF StartsTables
  <2>4. ASSUME NEW n \in 1 .. k PROVE m[n] = NextRow(m[n - 1], q[n])
    <3>1. m[n - 1] = l[n - 1]
      BY <2>2
    <3>2. CASE n = k
      BY <2>2, <3>1, <3>2
    <3>3. CASE n # k
      <4>1. m[n] = l[n] /\ l[n] = NextRow(l[n - 1], q[n])
        BY <2>1, <2>2, <3>3 DEF StartsTables
      <4> QED BY <3>1, <4>1
    <3> QED BY <3>2, <3>3
  <2> HIDE DEF m
  <2>5. StartsTables(q, k, m)
    BY <2>3, <2>4 DEF StartsTables
  <2> QED BY <2>2, <2>5
<1>3. PICK l : StartsTables(q, Rows, l)
  <2>1. 0 .. Rows \subseteq Start
    <3> HIDE DEF Start
    <3> QED BY <1>1, <1>2, RowsIs, BoundedInduction
  <2> QED BY <2>1, RowsIs
<1>4. l = Rule(l)
  <2>1. \A k \in 0 .. Rows : l[k] = IF k = 0 THEN Unmigrated ELSE NextRow(l[k - 1], q[k])
    <3>1. \A k \in 0 .. Rows : k = 0 \/ k \in 1 .. Rows
      BY RowsIs
    <3> QED BY <1>3, <3>1 DEF StartsTables
  <2>2. l = [k \in 0 .. Rows |-> l[k]]
    BY <1>3 DEF StartsTables
  <2> QED BY <2>1, <2>2
<1>5. \E f : f = Rule(f)
  BY <1>4
<1> DEFINE f == CHOOSE g : g = Rule(g)
<1>6. AfterRows(q) = f[Rows]
  BY DEF AfterRows, Rows
<1>7. f = Rule(f)
  <2> HIDE DEF Rule
  <2> QED BY <1>5
<1>8. f[0] = Unmigrated /\ \A k \in 1 .. Rows : f[k] = NextRow(f[k - 1], q[k])
  <2> HIDE DEF f
  <2>1. 0 \in 0 .. Rows /\ \A k \in 1 .. Rows : k \in 0 .. Rows /\ k # 0
    BY RowsIs
  <2>2. \A k \in 0 .. Rows : f[k] = IF k = 0 THEN Unmigrated ELSE NextRow(f[k - 1], q[k])
    BY <1>7
  <2> QED BY <2>1, <2>2
<1> HIDE DEF f
<1> DEFINE S == {k \in Nat : MergedSoFar(q, k, f[k])}
<1>9. 0 \in S
  BY <1>8, UnmigratedStarts
<1>10. ASSUME NEW k \in 1 .. Rows, k - 1 \in S PROVE k \in S
  <2>1. MergedSoFar(q, k - 1, f[k - 1]) /\ k \in Nat
    BY <1>10, RowsIs
  <2>2. MergedSoFar(q, k, NextRow(f[k - 1], q[k]))
    BY <2>1, RowMerges
  <2> QED BY <1>8, <2>1, <2>2
<1>11. 0 .. Rows \subseteq S
  <2> HIDE DEF S
  <2> QED BY <1>9, <1>10, RowsIs, BoundedInduction
<1> QED BY <1>6, <1>11, RowsIs

\* Names, gender and birth date of two rows are the same.
Alike(a, b) ==
    /\ oldMembers[a].name = oldMembers[b].name
    /\ oldMembers[a].gender = oldMembers[b].gender
    /\ oldMembers[a].dob = oldMembers[b].dob

LEMMA SamePersonIs ==
    ASSUME NEW a, NEW b
    PROVE  SamePerson(a, b) <=> /\ oldMembers[a].name = oldMembers[b].name
                                /\ oldMembers[a].dob = oldMembers[b].dob
BY DEF SamePerson, MemberDob

\* Between two rows of the query that are alike, all are.
LEMMA AlikeBetween ==
    ASSUME MigrationTypes, NEW q \in Queried, NEW i \in 1 .. Rows, NEW j \in 1 .. Rows, i < j,
           Alike(q[i], q[j])
    PROVE  j - 1 \in 1 .. Rows /\ j \in 2 .. Rows /\ SamePerson(q[j - 1], q[j])
<1>1. j - 1 \in 1 .. Rows /\ j \in 2 .. Rows /\ i <= j - 1 /\ j - 1 < j
  BY RowsIs
<1> DEFINE l == j - 1
           a == oldMembers[q[i]]
           b == oldMembers[q[l]]
           c == oldMembers[q[j]]
<1>2. DOMAIN q = 1 .. Rows /\ \A k \in 1 .. Rows : q[k] \in MemberIds
  BY DEF Queried
<1>3. a \in OldMember /\ b \in OldMember /\ c \in OldMember
  BY <1>1, <1>2 DEF MigrationTypes
<1>4. ~ Sorted(q[j], q[l])
  BY <1>1, <1>2 DEF Queried, IsQuery
<1>5. l = i \/ ~ Sorted(q[l], q[i])
  BY <1>1, <1>2 DEF Queried, IsQuery
<1>6. /\ {a.name, b.name, c.name, a.gender, b.gender, c.gender, a.dob, b.dob, c.dob} \subseteq Nat
      /\ a.name = c.name /\ a.gender = c.gender /\ a.dob = c.dob
  BY <1>3 DEF OldMember, Alike
<1>7. /\ ~ (c.name < b.name)
      /\ c.name = b.name => ~ (c.gender < b.gender)
      /\ c.name = b.name /\ c.gender = b.gender => ~ (c.dob < b.dob)
  BY <1>4 DEF Sorted
<1>8. \/ l = i
      \/ /\ ~ (b.name < a.name)
         /\ b.name = a.name => ~ (b.gender < a.gender)
         /\ b.name = a.name /\ b.gender = a.gender => ~ (b.dob < a.dob)
  BY <1>5 DEF Sorted
<1>9. b.name = c.name /\ b.dob = c.dob
  <2>1. CASE l = i
    BY <1>6, <2>1
  <2>2. CASE l # i
    <3> HIDE DEF a, b, c
    <3>1. b.name = c.name
      BY <1>6, <1>7, <1>8, <2>2
    <3>2. b.gender = c.gender
      BY <1>6, <1>7, <1>8, <2>2, <3>1
    <3> QED BY <1>6, <1>7, <1>8, <2>2, <3>1, <3>2
  <2> QED BY <2>1, <2>2
<1> QED BY <1>1, <1>9, SamePersonIs

LEMMA MigrationIsKept ==
    ASSUME MigrationTypes, NEW q \in Queried, migrated = AfterRows(q)
    PROVE  MigrationKeeps
<1> DEFINE t == migrated
<1>1. MergedSoFar(q, Rows, t)
  BY AllMerged
<1>2. /\ \A i, j \in 1 .. Rows : q[i] = q[j] => i = j
      /\ \A a \in MemberIds : \E i \in 1 .. Rows : q[i] = a
  BY QueriedOnce
<1>3. ASSUME NEW s \in ShipIds PROVE Settles(q, Rows, t, s)
  <2>1. oldShips[s] \in MemberIds
    BY DEF MigrationTypes
  <2>2. \E i \in 1 .. Rows : q[i] = oldShips[s]
    BY <1>2, <2>1
  <2> QED BY <1>1, <2>2 DEF MergedSoFar
<1>4. \A a \in MemberIds : a \in t.members <=> ~ Repeats(q, Rows, a)
  BY <1>1 DEF MergedSoFar
<1>5. t.members \subseteq MemberIds
  BY <1>1 DEF MergedSoFar, MigrationTables
<1>6. ASSUME NEW i \in 1 .. Rows, NEW j \in 1 .. Rows, i < j, Alike(q[i], q[j])
      PROVE  q[j] \notin t.members
  <2>1. Repeats(q, Rows, q[j])
    BY <1>6, AlikeBetween DEF Repeats
  <2>2. q[j] \in MemberIds
    BY DEF Queried
  <2> QED BY <1>4, <2>1, <2>2
<1>7. ASSUME NEW a \in t.members, NEW b \in MemberIds, SamePerson(a, b),
             oldMembers[a].gender = oldMembers[b].gender
      PROVE  /\ b = a \/ b \notin t.members
             /\ oldMembers[a].days.end >= oldMembers[b].days.end
  <2>1. PICK i \in 1 .. Rows, j \in 1 .. Rows : q[i] = a /\ q[j] = b
    BY <1>2, <1>5
  <2>2. Alike(a, b) /\ Alike(b, a)
    BY <1>7, SamePersonIs DEF Alike
  <2>3. ~ (j < i)
    BY <1>6, <2>1, <2>2
  <2>4. CASE i = j
    <3>1. oldMembers[a].days.end \in Nat
      BY <1>5 DEF MigrationTypes, OldMember
    <3> QED BY <2>1, <2>4, <3>1
  <2>5. CASE i < j
    <3>1. b \notin t.members
      BY <1>6, <2>1, <2>2, <2>5
    <3>2. ~ Sorted(b, a)
      <4>1. DOMAIN q = 1 .. Rows
        BY DEF Queried
      <4> QED BY <2>1, <2>5, <4>1 DEF Queried, IsQuery
    <3>3. ~ (oldMembers[b].days.end > oldMembers[a].days.end)
      BY <2>2, <3>2 DEF Sorted, Alike
    <3>4. oldMembers[a].days.end \in Nat /\ oldMembers[b].days.end \in Nat
      BY <1>5 DEF MigrationTypes, OldMember
    <3> QED BY <3>1, <3>3, <3>4
  <2>6. i = j \/ i < j \/ j < i
    BY RowsIs
  <2> QED BY <2>3, <2>4, <2>5, <2>6
<1> HIDE DEF t
<1>8. ASSUME NEW s \in ShipIds
      PROVE  /\ t.ships[s].member \in t.members
             /\ SamePerson(t.ships[s].member, oldShips[s])
             /\ \E d \in t.dates :
                  /\ d.from = t.ships[s].dates /\ d.member = t.ships[s].member
                  /\ d.days = oldMembers[oldShips[s]].days
  BY <1>3 DEF Settles
<1>9. ASSUME NEW a \in t.members, NEW b \in MemberIds, SamePerson(a, b)
      PROVE  /\ oldMembers[a].gender = oldMembers[b].gender => b = a \/ b \notin t.members
             /\ (\A c \in MemberIds : SamePerson(c, a) => oldMembers[c].gender = oldMembers[a].gender)
                  => oldMembers[a].days.end >= oldMembers[b].days.end
  <2>1. SamePerson(b, a)
    BY <1>9 DEF SamePerson
  <2> QED BY <1>7, <1>9, <2>1
<1> QED BY <1>8, <1>9 DEF MigrationKeeps, SamePerson, t

\* The rows and the memberships that the migration reads do not change, and it has made of
\* them what it makes of the rows in an order of the query.
MigrationInv ==
    MigrationTypes /\ (migrated = NoTables \/ \E q \in Queried : migrated = AfterRows(q))

\* For any rows of members, in whatever order the query gives equal ones: the migration leaves
\* every membership its person and its days, merges rows alike into one, and keeps the latest.
THEOREM MigrationAlwaysKeeps == MigrationSpec => []MigrationKeeps
<1>1. MigrationInit => MigrationInv
  BY DEF MigrationInit, MigrationInv, MigrationTypes
<1>2. MigrationInv /\ [MigrationNext]_migrationVars => MigrationInv'
  <2> SUFFICES ASSUME MigrationInv, [MigrationNext]_migrationVars PROVE MigrationInv'
    OBVIOUS
  <2>1. UNCHANGED <<oldMembers, oldShips>>
    BY DEF MigrationNext, Migrate, migrationVars
  <2>2. MigrationTypes'
    BY <2>1 DEF MigrationTypes, MigrationInv
  <2>3. \A q : AfterRows(q)' = AfterRows(q) /\ (q \in Queried)' = (q \in Queried)
    BY <2>1 DEF AfterRows, Unmigrated, NextRow, Merged, Kept, Queried, IsQuery, Sorted
  <2>4. CASE MigrationNext
    <3>1. PICK q \in [1 .. Rows -> MemberIds] : Migrate(q)
      BY <2>4 DEF MigrationNext, Rows
    <3>2. q \in Queried /\ migrated' = AfterRows(q)
      BY <3>1 DEF Migrate, Queried
    <3>3. (q \in Queried)' /\ migrated' = AfterRows(q)'
      BY <2>3, <3>2
    <3> QED BY <2>2, <3>3 DEF MigrationInv
  <2>5. CASE UNCHANGED migrationVars
    <3>1. migrated' = migrated
      BY <2>5 DEF migrationVars
    <3> QED BY <2>2, <2>3, <3>1 DEF MigrationInv
  <2> QED BY <2>4, <2>5
<1>3. MigrationInv => MigrationKeeps
  <2>1. CASE migrated = NoTables
    BY <2>1 DEF MigrationKeeps
  <2>2. ASSUME MigrationTypes, \E q \in Queried : migrated = AfterRows(q) PROVE MigrationKeeps
    BY <2>2, MigrationIsKept
  <2> QED BY <2>1, <2>2 DEF MigrationInv
<1> QED BY <1>1, <1>2, <1>3, PTL DEF MigrationSpec
=============================================================================
