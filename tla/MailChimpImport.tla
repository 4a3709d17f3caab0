--------------------------- MODULE MailChimpImport --------------------------
(***************************************************************************)
(* The import of club members into a MailChimp list (membership_cli.py,    *)
(* import2mailchimp).  The command reads the current members from          *)
(* RunSignup, then the whole list from MailChimp, and then updates one     *)
(* subscriber after the other, from what it read; subscribers tick and     *)
(* untick groups all the while, and any call may end the command.          *)
(*                                                                         *)
(* A list has groups that anyone may tick, and hidden ones: for each group *)
(* that is for members, one of the same name in the shadow category, which *)
(* keeps what a lapsed member had ticked; one for current members, and one *)
(* for all who ever were.  An e-mail address stands for its subscriber and *)
(* for the record that RunSignup has of it.                                *)
(***************************************************************************)
EXTENDS Naturals, FiniteSets

CONSTANTS
    Addresses,      \* e-mail addresses, in lower case
    GroupNames,     \* names of the groups that anyone sees
    ForMembers,     \* those with a group of the same name in MC_SHADOWCATEGORY
    NoSubscriber,   \* sentinel: not on the list
    NoImport,       \* sentinel: no import runs
    MaxTurns        \* bound: changes of clubs and subscribers

ASSUME MailChimpAssumption == ForMembers \subseteq GroupNames /\ MaxTurns \in Nat

VARIABLES
    clubMembers,    \* RunSignup: addresses of current members
    audience,       \* MailChimp: address -> NoSubscriber or its status and interests
    mcImport,       \* NoImport or the running import
    choice,         \* history: groups for members that a member last had ticked
    raced,          \* history: those who changed that while an import was to update them
    leavers,        \* history: those who unsubscribed after they had been members
    inStep,         \* history: an import went through and nothing changed since it began
    turns

mailchimpVars == <<clubMembers, audience, mcImport, choice, raced, leavers, inStep, turns>>

-----------------------------------------------------------------------------
Group(n) == <<"group", n>>
Shadow(n) == <<"shadow", n>>
Current == <<"current">>
Past == <<"past">>

Groups(N) == {Group(n) : n \in N}
Shadows(N) == {Shadow(n) : n \in N}
Interests == Groups(GroupNames) \union Shadows(ForMembers) \union {Current, Past}

Statuses == {"subscribed", "unsubscribed", "cleaned"}
Subscriber == [status : Statuses, interests : SUBSET Interests]

ASSUME SubscriberAssumption == NoSubscriber \notin Subscriber

Ticked(s) == {n \in ForMembers : Group(n) \in s.interests}
Remembered(s) == {n \in ForMembers : Shadow(n) \in s.interests}

(* An update sets the interests On, and clears Off. *)
Set(s, On, Off) == [s EXCEPT !.interests = (@ \ Off) \union On]

(* mcapi.newmember, mcapi.member *)
NewMember == Interests
Member == Interests \ Groups(GroupNames \ ForMembers)

MailChimpInit ==
    /\ clubMembers \in SUBSET Addresses
    /\ audience \in [Addresses -> {NoSubscriber} \union
                       [status : {"subscribed"}, interests : SUBSET Groups(GroupNames)]]
    /\ mcImport = NoImport
    /\ choice = [a \in Addresses |-> {}]
    /\ raced = {} /\ leavers = {} /\ inStep = FALSE /\ turns = 0

-----------------------------------------------------------------------------
(* The club and the subscribers. *)

Turn == turns < MaxTurns /\ turns' = turns + 1 /\ inStep' = FALSE

ToBeUpdated(a) == mcImport # NoImport /\ a \in mcImport.left

(* Someone joins the club, or a membership expires. *)
ChangeClub(a) ==
    /\ Turn
    /\ clubMembers' = (clubMembers \ {a}) \union ({a} \ clubMembers)
    /\ mcImport' = IF mcImport = NoImport THEN NoImport ELSE [mcImport EXCEPT !.clean = FALSE]
    /\ UNCHANGED <<audience, choice, raced, leavers>>

Altered(a, s) ==
    /\ Turn
    /\ audience' = [audience EXCEPT ![a] = s]
    /\ mcImport' = IF mcImport = NoImport THEN NoImport ELSE [mcImport EXCEPT !.clean = FALSE]
    /\ UNCHANGED clubMembers

(* A subscriber, by a link in a mail, ticks or unticks a group. *)
Choose(a, n) ==
    LET s == audience[a]
        chosen == [s EXCEPT !.interests = (@ \ {Group(n)}) \union ({Group(n)} \ @)]
    IN  /\ s # NoSubscriber /\ Altered(a, chosen)
        /\ IF Current \in s.interests
           THEN /\ choice' = [choice EXCEPT ![a] = Ticked(chosen)]
                /\ raced' = IF ToBeUpdated(a) THEN raced \union {a} ELSE raced \ {a}
           ELSE UNCHANGED <<choice, raced>>
        /\ UNCHANGED leavers

(* The sign-up form, with some groups ticked. *)
SignUp(a, N) ==
    /\ audience[a] = NoSubscriber
    /\ Altered(a, [status |-> "subscribed", interests |-> Groups(N)])
    /\ UNCHANGED <<choice, raced, leavers>>

(* A subscriber leaves, or comes back; a mail to the address bounces. *)
ChangeStatus(a, status) ==
    /\ audience[a] # NoSubscriber /\ audience[a].status \notin {"cleaned", status}
    /\ Altered(a, [audience[a] EXCEPT !.status = status])
    /\ leavers' = IF status = "unsubscribed" /\ Past \in audience[a].interests
                  THEN leavers \union {a} ELSE leavers \ {a}
    /\ UNCHANGED <<choice, raced>>

-----------------------------------------------------------------------------
(* The import. *)

(* rsu.members: one record for each address, of the primary member. *)
StartImport ==
    /\ mcImport = NoImport
    /\ mcImport' = [members |-> clubMembers, list |-> [a \in Addresses |-> NoSubscriber],
                    step |-> "list", left |-> clubMembers, clean |-> TRUE]
    /\ UNCHANGED <<clubMembers, audience, choice, raced, leavers, inStep, turns>>

(* The members first, and then those left of the list. *)
FetchList ==
    /\ mcImport # NoImport /\ mcImport.step = "list"
    /\ mcImport' = [mcImport EXCEPT !.list = audience, !.step = "update",
                      !.left = @ \union {a \in Addresses : audience[a] # NoSubscriber}]
    /\ UNCHANGED <<clubMembers, audience, choice, raced, leavers, inStep, turns>>

Updating(a) ==
    /\ mcImport # NoImport /\ mcImport.step = "update" /\ a \in mcImport.left
    /\ a \notin mcImport.members => mcImport.left \intersect mcImport.members = {}

(* The address is done: it is "clean" unless it was not brought into step. *)
Done(a, clean) ==
    mcImport' = [mcImport EXCEPT !.left = @ \ {a}, !.clean = @ /\ clean]

(* The member is updated and has the groups N for members from now on. *)
Enrolled(a, s, N) ==
    /\ audience' = [audience EXCEPT ![a] = s] /\ Done(a, TRUE)
    /\ choice' = [choice EXCEPT ![a] = N] /\ raced' = raced \ {a}
    /\ UNCHANGED <<clubMembers, leavers, inStep, turns>>

PassBy(a, clean) ==
    /\ Done(a, clean)
    /\ UNCHANGED <<clubMembers, audience, choice, raced, leavers, inStep, turns>>

(* What was read of the address. *)
Was(a, i) == mcImport.list[a] # NoSubscriber /\ i \in mcImport.list[a].interests

(* A member who is not on the list is added, or there is an error, as when  *)
(* the address has signed up meanwhile.                                     *)
AddMember(a, accepted) ==
    /\ Updating(a) /\ a \in mcImport.members /\ mcImport.list[a] = NoSubscriber
    /\ IF accepted /\ audience[a] = NoSubscriber
       THEN Enrolled(a, [status |-> "subscribed", interests |-> NewMember], ForMembers)
       ELSE PassBy(a, FALSE)

(* A subscriber who never was a member gets all groups, or, once            *)
(* unsubscribed, those for members only, if MailChimp allows.               *)
EnrollSubscriber(a, accepted) ==
    LET status == mcImport.list[a].status IN
    /\ Updating(a) /\ a \in mcImport.members /\ mcImport.list[a] # NoSubscriber
    /\ ~Was(a, Current) /\ ~Was(a, Past)
    /\ \/ status = "subscribed" /\ Enrolled(a, Set(audience[a], NewMember, {}), ForMembers)
       \/ /\ status = "unsubscribed" /\ accepted
          /\ Enrolled(a, [Set(audience[a], Member, Groups(GroupNames \ ForMembers))
                          EXCEPT !.status = "subscribed"], ForMembers)
       \/ /\ status = "cleaned" \/ (status = "unsubscribed" /\ ~accepted)
          /\ PassBy(a, FALSE)

(* Mutation: who comes back gets all groups for members. *)
RecalledAll(a) == Set(audience[a], Groups(ForMembers) \union {Current}, {})

(* The groups that a past member had are ticked, the others cleared. *)
Recalled(a) ==
    LET kept == Remembered(mcImport.list[a])
    IN  Set(audience[a], Groups(kept) \union {Current}, Groups(ForMembers \ kept))

RecallMember(a) ==
    /\ Updating(a) /\ a \in mcImport.members /\ ~Was(a, Current) /\ Was(a, Past)
    /\ audience' = [audience EXCEPT ![a] = Recalled(a)] /\ Done(a, TRUE)
    /\ UNCHANGED <<clubMembers, choice, raced, leavers, inStep, turns>>

(* Who is no member any more keeps a memory of the groups that were ticked. *)
LapseMember(a) ==
    LET had == Ticked(mcImport.list[a]) IN
    /\ Updating(a) /\ a \notin mcImport.members /\ Was(a, Current)
    /\ audience' = [audience EXCEPT ![a] =
         Set(@, Shadows(had), Groups(ForMembers) \union {Current} \union Shadows(ForMembers \ had))]
    /\ Done(a, TRUE)
    /\ UNCHANGED <<clubMembers, choice, raced, leavers, inStep, turns>>

(* No change for current members, and for those who never were. *)
NothingToDo(a) == Updating(a) /\ (a \in mcImport.members <=> Was(a, Current)) /\ PassBy(a, TRUE)

EndImport ==
    /\ mcImport # NoImport /\ mcImport.step = "update" /\ mcImport.left = {}
    /\ mcImport' = NoImport /\ inStep' = mcImport.clean
    /\ UNCHANGED <<clubMembers, audience, choice, raced, leavers, turns>>

(* Any other error of a call ends the command. *)
AbortImport ==
    /\ mcImport # NoImport
    /\ mcImport' = NoImport
    /\ UNCHANGED <<clubMembers, audience, choice, raced, leavers, inStep, turns>>

MailChimpNext ==
    \/ \E a \in Addresses : ChangeClub(a)
    \/ \E a \in Addresses, n \in GroupNames : Choose(a, n)
    \/ \E a \in Addresses, N \in SUBSET GroupNames : SignUp(a, N)
    \/ \E a \in Addresses, status \in Statuses : ChangeStatus(a, status)
    \/ StartImport
    \/ FetchList
    \/ \E a \in Addresses, accepted \in BOOLEAN : AddMember(a, accepted)
    \/ \E a \in Addresses, accepted \in BOOLEAN : EnrollSubscriber(a, accepted)
    \/ \E a \in Addresses : RecallMember(a)
    \/ \E a \in Addresses : LapseMember(a)
    \/ \E a \in Addresses : NothingToDo(a)
    \/ EndImport
    \/ AbortImport

MailChimpSpec == MailChimpInit /\ [][MailChimpNext]_mailchimpVars

-----------------------------------------------------------------------------
Audiences == [Addresses -> Subscriber \union {NoSubscriber}]

ImportRecords ==
    [members : SUBSET Addresses, list : Audiences, step : {"list", "update"},
     left : SUBSET Addresses, clean : BOOLEAN]

MailChimpTypeOK ==
    /\ clubMembers \subseteq Addresses
    /\ audience \in Audiences
    /\ mcImport # NoImport => mcImport \in ImportRecords
    /\ choice \in [Addresses -> SUBSET ForMembers]
    /\ raced \subseteq Addresses /\ leavers \subseteq Addresses
    /\ inStep \in BOOLEAN /\ turns \in 0 .. MaxTurns

(* "It's important not to add someone back to a group which they've decided *)
(* not to receive emails from": over any lapses, returns and aborted        *)
(* imports, a member has the groups for members that were last chosen, and  *)
(* a lapsed one those in memory, unless the choice fell into an import.     *)
ChoicesKept ==
    \A a \in Addresses \ raced :
      LET s == audience[a] IN
      s # NoSubscriber /\ Past \in s.interests =>
        choice[a] = IF Current \in s.interests THEN Ticked(s) ELSE Remembered(s)

(* Whoever unsubscribed after having been a member is never subscribed by   *)
(* the import, not even by one that read the list before.                   *)
LeaversStay == \A a \in leavers : audience[a].status # "subscribed"

(* After an import that went through, the list has the members as current   *)
(* members, and nobody else.                                                *)
ListInStep ==
    inStep => \A a \in Addresses :
      LET current == audience[a] # NoSubscriber /\ Current \in audience[a].interests
      IN  current <=> a \in clubMembers

MailingFollows == ChoicesKept /\ LeaversStay /\ ListInStep
=============================================================================
