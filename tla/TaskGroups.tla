----------------------------- MODULE TaskGroups -----------------------------
(***************************************************************************)
(* Task groups: which tasks a member has because of a position or by name, *)
(* and the form that edits a group (leadership_tasks_admin.py, taskgroup_  *)
(* view and _validate_taskgroup; the walks of viewhelpers.py).             *)
(*                                                                         *)
(* A group is a record of its own tasks, the positions and users it is     *)
(* assigned to, and the groups it contains.  The form writes the record as *)
(* a whole.  It is refused if a group would be repeated on a branch below  *)
(* the edited one, judged by the table as the request reads it: nothing    *)
(* stops two requests from closing a loop between them, and the walks do   *)
(* not end on a loop.  A request whose group was changed since fails on    *)
(* its version, so two running requests edit different groups.             *)
(***************************************************************************)
EXTENDS Naturals, FiniteSets, Functions

CONSTANTS
    Groups, Tasks, Positions, Members,
    Requests,      \* web requests that edit groups
    Idle,          \* sentinel: the request does not run
    Forms,         \* the records the form is submitted with
    MaxSaves       \* bound: saved forms

GroupRecords ==
    [tasks : SUBSET Tasks, positions : SUBSET Positions,
     users : SUBSET Members, groups : SUBSET Groups]

ASSUME FormsAssumption ==
    IsFiniteSet(Groups) /\ Forms \subseteq GroupRecords /\ MaxSaves \in Nat

VARIABLES
    groups,     \* table taskgroup with its association tables
    editing,    \* the request's validated form, or Idle
    saves,
    raced       \* history: a form was saved over another that was saved while it ran

groupVars == <<groups, editing, saves, raced>>

-----------------------------------------------------------------------------
(* The groups n levels below those in G, one level at a time; a level is    *)
(* empty when there are none so deep.                                       *)
Levels(gs, G) ==
    LET level[n \in 0 .. Cardinality(Groups)] ==
          IF n = 0 THEN G ELSE UNION {gs[h].groups : h \in level[n - 1]}
    IN  level

Below(gs, G) == UNION Range(Levels(gs, G))

(* Each of the groups D is above itself, in n levels for some n. *)
OnLoop(gs, g) == g \in Below(gs, gs[g].groups)

HasLoop(gs) == \E g \in Groups : OnLoop(gs, g)

(* get_taskgroup_tasks, for each group of G. *)
TasksOf(gs, G) == UNION {gs[h].tasks : h \in Below(gs, G)}

(* get_taskgroup_taskgroups: one level only. *)
OwnAndNext(gs, G) == G \union UNION {gs[h].groups : h \in G}

GroupsOfPositions(gs, P) == {g \in Groups : gs[g].positions \cap P # {}}
GroupsOfUser(gs, u) == {g \in Groups : u \in gs[g].users}

(* Mutation: the branch starts below the edited group. *)
RepeatedBelow(gs, g, f) == \E h \in Below(gs, f.groups) : OnLoop(gs, h)

(* A group repeated on a branch of the edited group g. *)
Repeated(gs, g, f) ==
    \/ g \in Below(gs, f.groups)
    \/ \E h \in Below(gs, f.groups) : OnLoop(gs, h)

-----------------------------------------------------------------------------
Running == {r \in Requests : editing[r] # Idle}

NoGroup == [tasks |-> {}, positions |-> {}, users |-> {}, groups |-> {}]

GroupsInit ==
    /\ groups \in [Groups -> Forms \union {NoGroup}] /\ ~HasLoop(groups)
    /\ editing = [r \in Requests |-> Idle]
    /\ saves = 0
    /\ raced = FALSE

(* create or edit: validate the form f for group g. *)
BeginEdit(r, g, f) ==
    /\ editing[r] = Idle /\ saves < MaxSaves
    /\ \A q \in Running : editing[q].group # g
    /\ ~Repeated(groups, g, f)
    /\ editing' = [editing EXCEPT ![r] = [group |-> g, form |-> f, read |-> groups]]
    /\ UNCHANGED <<groups, saves, raced>>

(* Write the form and commit. *)
SaveGroup(r) ==
    /\ editing[r] # Idle
    /\ groups' = [groups EXCEPT ![editing[r].group] = editing[r].form]
    /\ raced' = (raced \/ editing[r].read # groups)
    /\ editing' = [editing EXCEPT ![r] = Idle]
    /\ saves' = saves + 1

(* Rolled back. *)
FailEdit(r) ==
    /\ editing[r] # Idle
    /\ editing' = [editing EXCEPT ![r] = Idle]
    /\ UNCHANGED <<groups, saves, raced>>

(* Delete a group: refused by its foreign key while a group contains it.   *)
(* Bound: no running form names it.                                         *)
DeleteGroup(g) ==
    /\ saves < MaxSaves
    /\ groups[g] # NoGroup
    /\ \A q \in Running : editing[q].group # g /\ g \notin editing[q].form.groups
    /\ \A h \in Groups : g \notin groups[h].groups
    /\ groups' = [groups EXCEPT ![g] = NoGroup]
    /\ saves' = saves + 1
    /\ UNCHANGED <<editing, raced>>

GroupsNext ==
    \/ \E r \in Requests, g \in Groups, f \in Forms : BeginEdit(r, g, f)
    \/ \E r \in Requests : SaveGroup(r)
    \/ \E r \in Requests : FailEdit(r)
    \/ \E g \in Groups : DeleteGroup(g)

GroupsSpec == GroupsInit /\ [][GroupsNext]_groupVars

-----------------------------------------------------------------------------
GroupsTypeOK ==
    /\ groups \in [Groups -> GroupRecords]
    /\ \A r \in Running : editing[r] \in
         [group : Groups, form : Forms, read : [Groups -> GroupRecords]]
    /\ saves \in Nat /\ raced \in BOOLEAN

(* No chain of task groups returns to its start, as long as no two forms   *)
(* were validated and saved at the same time: the recursive walks of the   *)
(* checklist, the tracker and the reminders end.                           *)
NoLoops == ~raced => ~HasLoop(groups)
=============================================================================
