--------------------------- MODULE CommunitySync ---------------------------
(***************************************************************************)
(* The commands syncrace, syncclub and synctag put the people a service    *)
(* lists (RunSignup, or a position tag) into a Discourse group, and take   *)
(* the others out: SyncManager.import_group with CommunitySyncManager.     *)
(* Who has no Discourse account yet is invited, to all the groups they     *)
(* are to join; the invitation of an address is one record that the        *)
(* commands of several groups change.                                      *)
(*                                                                         *)
(* Cron runs one command for each group, again and again, in any order.    *)
(* A run reads Discourse in several calls, between which people sign up,   *)
(* join and leave, works out the difference, and writes it call by call.   *)
(* A person stands for their email address and for their account.          *)
(***************************************************************************)
EXTENDS Naturals

CONSTANTS
    Persons,     \* email addresses, and the accounts of these
    Groups,      \* Discourse groups, each with its command
    NoInvite,    \* there is no pending invitation
    NoOne,       \* the lock is free
    MaxChanges,  \* bound of the model: changes made outside the commands
    MaxTrouble   \* bound of the model: failing calls and dying commands

ASSUME NamesAssumption == NoOne \notin Groups /\ \A s \in SUBSET Groups : s # NoInvite
ASSUME BoundsAssumption == MaxChanges \in Nat /\ MaxTrouble \in Nat

VARIABLES
    registered,  \* who has a Discourse account
    members,     \* the members of each Discourse group
    invite,      \* the groups of each pending invitation
    entitled,    \* whom the service lists for each group
    lock,        \* which command holds COMMUNITY_LOCKFILE
    sync,        \* what the command of each group has read and has still to do
    changes,     \* how many changes were made outside the commands
    trouble      \* how many calls failed and commands died

discourse == <<registered, members, invite>>

vars == <<discourse, entitled, lock, sync, changes, trouble>>

-----------------------------------------------------------------------------
Invites == {NoInvite} \union SUBSET Groups

Steps == {"idle", "invites", "service", "emails", "members", "adding", "removing", "dropping"}

Run == [step : Steps,
        users : SUBSET Persons,              \* id2users
        invites : [Persons -> Invites],      \* invites, invitegroups
        wanted : SUBSET Persons,             \* svcusers
        emails : SUBSET Persons,             \* email2user
        inviting : SUBSET Persons,           \* to be invited, in the loop over svcusers
        adding : SUBSET Persons,             \* add_userids
        removing : SUBSET Persons,           \* remove_userids
        dropping : SUBSET Persons]           \* remove_group_invites

Idle == [step |-> "idle", users |-> {}, invites |-> [p \in Persons |-> NoInvite],
         wanted |-> {}, emails |-> {}, inviting |-> {}, adding |-> {},
         removing |-> {}, dropping |-> {}]

\* The groups a pending invitation is for
GroupsOf(i) == IF i = NoInvite THEN {} ELSE i

(* Definitions whose names say what a bug would make of the one below are mutants of it. *)

\* No lock
FreeAlways == TRUE

\* lock.acquire() returns.
Free == lock = NoOne

\* The accounts the run knows of, listed before the group's members
Known(g) == sync[g].users

\* An invitation is no part of the group.
InvitedNobody(g) == {}

\* The pending invitations to the group, which get_users_from_group() counts as members
Invited(g) == {p \in Persons : g \in GroupsOf(sync[g].invites[p])}

\* The accounts in the group; one the run does not know of is skipped.
Joined(g) == members[g] \intersect Known(g)

-----------------------------------------------------------------------------
Init ==
    /\ registered \in SUBSET Persons
    /\ entitled \in [Groups -> SUBSET Persons]
    /\ members = [g \in Groups |-> {}]
    /\ invite = [p \in Persons |-> NoInvite]
    /\ lock = NoOne
    /\ sync = [g \in Groups |-> Idle]
    /\ changes = 0
    /\ trouble = 0

-----------------------------------------------------------------------------
(* What others do *)

Change == changes < MaxChanges /\ changes' = changes + 1

\* A person signs up; the account of an invited address joins the groups of the
\* invitation, unless it is not redeemed.
Register(p) ==
    /\ Change
    /\ p \notin registered
    /\ registered' = registered \union {p}
    /\ \/ /\ members' = [g \in Groups |->
                IF g \in GroupsOf(invite[p]) THEN members[g] \union {p} ELSE members[g]]
          /\ invite' = [invite EXCEPT ![p] = NoInvite]
       \/ UNCHANGED <<members, invite>>
    /\ UNCHANGED <<entitled, lock, sync, trouble>>

\* A person comes to be listed by the service, or is no longer.
Entitle(g, p) ==
    /\ Change
    /\ \/ p \notin entitled[g] /\ entitled' = [entitled EXCEPT ![g] = @ \union {p}]
       \/ p \in entitled[g] /\ entitled' = [entitled EXCEPT ![g] = @ \ {p}]
    /\ UNCHANGED <<discourse, lock, sync, trouble>>

\* In Discourse a moderator puts somebody into a group, or takes them out.
EditGroup(g, p) ==
    /\ Change
    /\ \/ p \in registered \ members[g] /\ members' = [members EXCEPT ![g] = @ \union {p}]
       \/ p \in members[g] /\ members' = [members EXCEPT ![g] = @ \ {p}]
    /\ UNCHANGED <<registered, invite, entitled, lock, sync, trouble>>

\* In Discourse somebody invites a person, to no group.
InviteByHand(p) ==
    /\ Change
    /\ p \notin registered
    /\ invite[p] = NoInvite
    /\ invite' = [invite EXCEPT ![p] = {}]
    /\ UNCHANGED <<registered, members, entitled, lock, sync, trouble>>

Outside ==
    \/ \E p \in Persons : Register(p) \/ InviteByHand(p)
    \/ \E g \in Groups, p \in Persons : Entitle(g, p) \/ EditGroup(g, p)

-----------------------------------------------------------------------------
(* A run of the command of group g *)

At(g, step) == sync[g].step = step

Trouble == trouble < MaxTrouble /\ trouble' = trouble + 1

\* The command goes on holding the lock.
EndHolding(g) ==
    /\ sync' = [sync EXCEPT ![g] = Idle]
    /\ UNCHANGED lock

\* The run ends, and with it the hold on the lock.
End(g) ==
    /\ sync' = [sync EXCEPT ![g] = Idle]
    /\ lock' = NoOne

\* start_import() takes the lock and lists all users ...
Start(g) ==
    /\ At(g, "idle")
    /\ Free
    /\ lock' = g
    /\ sync' = [sync EXCEPT ![g].step = "invites", ![g].users = registered]
    /\ UNCHANGED <<discourse, entitled, changes, trouble>>

\* ... and the pending invitations with their groups.
ReadInvites(g) ==
    /\ At(g, "invites")
    /\ sync' = [sync EXCEPT ![g].step = "service", ![g].invites = invite]
    /\ UNCHANGED <<discourse, entitled, lock, changes, trouble>>

\* get_users_from_service()
ReadService(g) ==
    /\ At(g, "service")
    /\ sync' = [sync EXCEPT ![g].step = "emails", ![g].wanted = entitled[g]]
    /\ UNCHANGED <<discourse, entitled, lock, changes, trouble>>

\* get_users_from_group() lists the email addresses of all accounts ...
ReadEmails(g) ==
    /\ At(g, "emails")
    /\ sync' = [sync EXCEPT ![g].step = "members", ![g].emails = registered]
    /\ UNCHANGED <<discourse, entitled, lock, changes, trouble>>

(***************************************************************************)
(* ... and the group's members; import_group() then goes through the       *)
(* people listed by the service and through who is left in the group.  The *)
(* key of a person is their account if they have one, their address if     *)
(* they have none.                                                         *)
(***************************************************************************)
ReadMembers(g) ==
    LET run == sync[g]
        accounts == run.wanted \intersect run.emails
        addresses == run.wanted \ run.emails
    IN
    /\ At(g, "members")
    /\ sync' = [sync EXCEPT ![g].step = "adding",
                            ![g].inviting = addresses \ Invited(g),
                            ![g].adding = accounts \ Joined(g),
                            ![g].removing = Joined(g) \ accounts,
                            ![g].dropping = Invited(g) \ addresses]
    /\ UNCHANGED <<discourse, entitled, lock, changes, trouble>>

\* An invitation is given these groups; the call fails if there is none any more.
SetGroups(p, groups) ==
    invite' = IF invite[p] = NoInvite THEN invite ELSE [invite EXCEPT ![p] = groups]

\* A new invitation; of a person who has one the groups are added, of a person with
\* an account the call fails.
CreateInvite(g, p) ==
    invite' = IF p \in registered THEN invite
              ELSE [invite EXCEPT ![p] = GroupsOf(@) \union {g}]

\* add_user_to_group() of who has no account: one call for each, whose error is logged
Invite(g, p) ==
    /\ At(g, "adding")
    /\ p \in sync[g].inviting
    /\ sync' = [sync EXCEPT ![g].inviting = @ \ {p}]
    /\ \/ /\ IF sync[g].invites[p] = NoInvite
               THEN CreateInvite(g, p)
               ELSE SetGroups(p, sync[g].invites[p] \union {g})
          /\ UNCHANGED trouble
       \/ Trouble /\ UNCHANGED invite
    /\ UNCHANGED <<registered, members, entitled, lock, changes>>

\* finish_import() adds the accounts by their user names, in one call whose error is logged.
Add(g) ==
    /\ At(g, "adding")
    /\ sync[g].inviting = {}
    /\ sync[g].adding \subseteq sync[g].users
    /\ sync' = [sync EXCEPT ![g].step = "removing"]
    /\ \/ members' = [members EXCEPT ![g] = @ \union sync[g].adding] /\ UNCHANGED trouble
       \/ sync[g].adding # {} /\ Trouble /\ UNCHANGED members
    /\ UNCHANGED <<registered, invite, entitled, lock, changes>>

\* The user name of an account that is not in id2users: a KeyError ends the run.
AddUnknown(g) ==
    /\ At(g, "adding")
    /\ sync[g].inviting = {}
    /\ ~(sync[g].adding \subseteq sync[g].users)
    /\ End(g)
    /\ UNCHANGED <<discourse, entitled, changes, trouble>>

\* finish_import() removes accounts, in one call whose error is logged.
Remove(g) ==
    /\ At(g, "removing")
    /\ sync' = [sync EXCEPT ![g].step = "dropping"]
    /\ \/ members' = [members EXCEPT ![g] = @ \ sync[g].removing] /\ UNCHANGED trouble
       \/ sync[g].removing # {} /\ Trouble /\ UNCHANGED members
    /\ UNCHANGED <<registered, invite, entitled, lock, changes>>

\* finish_import() takes the group off an invitation, or deletes one that is for no other group.
Drop(g, p) ==
    LET others == sync[g].invites[p] \ {g} IN
    /\ At(g, "dropping")
    /\ p \in sync[g].dropping
    /\ sync' = [sync EXCEPT ![g].dropping = @ \ {p}]
    /\ \/ /\ SetGroups(p, IF others = {} THEN NoInvite ELSE others)
          /\ UNCHANGED trouble
       \/ Trouble /\ UNCHANGED invite
    /\ UNCHANGED <<registered, members, entitled, lock, changes>>

Finish(g) ==
    /\ At(g, "dropping")
    /\ sync[g].dropping = {}
    /\ End(g)
    /\ UNCHANGED <<discourse, entitled, changes, trouble>>

\* A read that fails, or the end of the process
Die(g) ==
    /\ ~At(g, "idle")
    /\ Trouble
    /\ End(g)
    /\ UNCHANGED <<discourse, entitled, changes>>

Reads(g) == ReadInvites(g) \/ ReadService(g) \/ ReadEmails(g) \/ ReadMembers(g)

Writes(g) ==
    \/ Add(g) \/ Remove(g)
    \/ \E p \in Persons : Invite(g, p) \/ Drop(g, p)

GoesOn(g) == Reads(g) \/ Writes(g) \/ AddUnknown(g) \/ Finish(g)

Next == Outside \/ \E g \in Groups : Start(g) \/ GoesOn(g) \/ Die(g)

Spec == Init /\ [][Next]_vars

(***************************************************************************)
(* A command that runs goes on.  Cron starts each of them again and again, *)
(* and InterProcessLock polls: it is free again and again when it looks.   *)
(***************************************************************************)
Fairness == \A g \in Groups : WF_vars(GoesOn(g)) /\ SF_vars(Start(g))

FairSpec == Spec /\ Fairness

-----------------------------------------------------------------------------
(* Properties *)

\* Type correctness; a command runs as long as it holds the lock, and the members of a
\* group have accounts.
TypeOK ==
    /\ registered \in SUBSET Persons
    /\ members \in [Groups -> SUBSET registered]
    /\ invite \in [Persons -> Invites]
    /\ entitled \in [Groups -> SUBSET Persons]
    /\ lock \in Groups \union {NoOne}
    /\ sync \in [Groups -> Run]
    /\ \A g \in Groups : At(g, "idle") <=> lock # g
    /\ changes \in 0..MaxChanges /\ trouble \in 0..MaxTrouble

(***************************************************************************)
(* The command of one group never takes an invitation out of another group *)
(* nor puts it into one: it writes back all the groups of an invitation as *)
(* it read them, so nobody may change these in between.                    *)
(***************************************************************************)
OtherGroupsKept ==
    [][\A g \in Groups : Writes(g) =>
          \A p \in Persons, h \in Groups \ {g} :
              h \in GroupsOf(invite[p]) <=> h \in GroupsOf(invite'[p])]_vars

(***************************************************************************)
(* A run takes nobody out of the group whom the service listed when it was *)
(* asked, though they may have signed up while Discourse was being read.   *)
(***************************************************************************)
ListedAreKept ==
    [][\A g \in Groups : Writes(g) =>
          \A p \in members[g] \ members'[g] : p \notin sync[g].wanted]_vars

\* Accounts that the service lists are members and no others are, and the people listed
\* who have no account are invited to the group and no others are.
InSync ==
    \A g \in Groups :
        /\ members[g] = entitled[g] \intersect registered
        /\ {p \in Persons : g \in GroupsOf(invite[p])} = entitled[g] \ registered

(***************************************************************************)
(* When nothing is changed outside and no call fails any more, every group *)
(* comes to agree with its service and stays so, whatever the runs before  *)
(* read too late, left half done or logged as failed.                      *)
(***************************************************************************)
Converges == <>[]InSync
=============================================================================
