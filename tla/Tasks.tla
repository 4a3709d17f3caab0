-------------------------------- MODULE Tasks -------------------------------
(***************************************************************************)
(* Leadership tasks: who has which task, marking a task complete, and what *)
(* the checklist, the tracker and the reminders show.                      *)
(*                                                                         *)
(*   Mark    a member clicks "Mark Complete" on the checklist, or an admin *)
(*           gives a date on the tracker (create_taskcompletion): the task *)
(*           is read, a row is inserted, the request commits               *)
(*   Save    an admin saves the form of a task: its completions get the    *)
(*           task's position (TaskView.editor_method_posthook)             *)
(*                                                                         *)
(* Each is a request of two steps: what it read, and its commit.  A Save   *)
(* does not see the rows inserted since it began, and a Mark inserts the   *)
(* position that the task had when it began.                               *)
(*                                                                         *)
(* A task by position is done for all who hold the position; any other     *)
(* task by each member.  The groups are those of TaskGroups.               *)
(***************************************************************************)
EXTENDS TaskGroups, TaskStatus

CONSTANTS
    NoPosition,     \* sentinel: the task has no position
    Configs,        \* the task records the form is submitted with
    MarkRequests,   \* web requests that mark or save tasks
    LastDay,        \* bound: the days are 0 .. LastDay
    MaxMarks,       \* bound: completions
    MaxTaskSaves    \* bound: saves of each task

Days == 0..LastDay

TaskRecords ==
    [kind : Kinds, byposition : BOOLEAN, position : Positions \union {NoPosition},
     period : Nat, soon : Nat, doy : 0 .. Year - 1, starts : 0 .. Year - 1]

CompletionRecords ==
    [task : Tasks, user : Members, position : Positions \union {NoPosition},
     day : Days, dated : BOOLEAN, num : 1..MaxMarks]

(* task_validate: a position is supplied for a task by position. *)
ASSUME ConfigsAssumption ==
    /\ NoPosition \notin Positions /\ Never \notin CompletionRecords
    /\ Configs \subseteq TaskRecords
    /\ \A f \in Configs : f.byposition => f.position # NoPosition
    /\ LastDay \in Nat /\ MaxMarks \in Nat /\ MaxTaskSaves \in Nat

VARIABLES
    tasks,          \* table task: task -> record
    completions,    \* table taskcompletion
    holders,        \* who holds a position today: a set of <<member, position>>
    today,
    request,        \* what each request read, or Idle
    marks,          \* Mark requests so far: the order of update_time
    versions,       \* version_id of each task
    strayed         \* history: marks that a save of the task overlapped

taskVars == <<tasks, completions, holders, today, request, marks, versions, strayed>>
vars == <<groupVars, taskVars>>

-----------------------------------------------------------------------------
(* Who sees what.                                                          *)

Held(u) == {p \in Positions : <<u, p>> \in holders}

TasksByPosition(u) == TasksOf(groups, GroupsOfPositions(groups, Held(u)))

(* get_tasks_for_localuser *)
TasksOfMember(u) == TasksByPosition(u) \union TasksOf(groups, GroupsOfUser(groups, u))

(* The completions of task t that the checklist of u loads: those of u's    *)
(* positions if the task is by position, otherwise u's own.                 *)
Visible(u, t) ==
    {c \in completions :
       /\ c.task = t
       /\ IF tasks[t].byposition
          THEN c.position = tasks[t].position /\ tasks[t].position \in Held(u)
          ELSE c.user = u}

Latest(C) == IF C = {} THEN Never ELSE CHOOSE c \in C : \A d \in C : d.num <= c.num

(* get_task_completion_cached on the checklist of u. *)
Seen(u, t) == Latest(Visible(u, t))

(* Mutation: the tracker shows each member's own completions. *)
SeenOfRow(u, t) == Latest({c \in completions : c.task = t /\ c.user = u})

(* On the tracker the positions of every member are loaded. *)
SeenByAdmin(u, t) == Latest(UNION {Visible(v, t) : v \in IF tasks[t].byposition THEN Members ELSE {u}})

(* The expiration of a task that was never completed and has no date of     *)
(* year is the start of the first position the member has it from: there is *)
(* none for a task that only comes with a group of the member's own.        *)
Shown(u, t, c) ==
    tasks[t].kind \in {"periodic", "once"} /\ c = Never => t \in TasksByPosition(u)

(* The tracker, the member summary and the reminders read all rows. *)
TrackerShown == \A u \in Members : \A t \in TasksOfMember(u) : Shown(u, t, SeenByAdmin(u, t))

(* sendreminders: who gets a mail. *)
Reminded ==
    {u \in Members : \E t \in TasksOfMember(u) : Due(Status(tasks[t], SeenByAdmin(u, t), today))}

(* checkpositionconfig prints nothing about task t. *)
WellConfigured(t) ==
    tasks[t].byposition =>
      \E g \in Groups :
        /\ {h \in Groups : t \in groups[h].tasks} = {g}
        /\ OwnAndNext(groups, {g}) = {g}
        /\ groups[g].positions = {tasks[t].position}

-----------------------------------------------------------------------------
TasksInit ==
    /\ GroupsInit
    /\ tasks \in [Tasks -> {f \in Configs : f.byposition <=> f.position # NoPosition}]
    /\ completions = {}
    /\ holders \in SUBSET (Members \X Positions)
    /\ today = 0
    /\ request = [r \in MarkRequests |-> Idle]
    /\ marks = 0
    /\ versions = [t \in Tasks |-> 0]
    /\ strayed = {}

Busy == {r \in MarkRequests : request[r] # Idle}
Marking == {r \in Busy : request[r].op = "mark"}
Saving == {r \in Busy : request[r].op = "save"}

(* Member u, or an admin for u, marks t: now, or with a date (dated) that   *)
(* is not later than today.                                                 *)
BeginMark(r, u, t, d, dated) ==
    /\ request[r] = Idle /\ marks < MaxMarks
    /\ d <= today /\ (~dated => d = today)
    /\ marks' = marks + 1
    /\ request' = [request EXCEPT ![r] =
         [op |-> "mark", task |-> t, reads |-> versions[t],
          row |-> [task |-> t, user |-> u, position |-> tasks[t].position,
                   day |-> d, dated |-> dated, num |-> marks + 1]]]
    /\ UNCHANGED <<tasks, completions, holders, today, versions, strayed>>

CommitMark(r) ==
    /\ r \in Marking
    /\ completions' = completions \union {request[r].row}
    /\ strayed' =
         IF \/ request[r].reads # versions[request[r].task]
            \/ \E q \in Saving : request[q].task = request[r].task
         THEN strayed \union {request[r].row.num} ELSE strayed
    /\ request' = [request EXCEPT ![r] = Idle]
    /\ UNCHANGED <<tasks, holders, today, marks, versions>>

(* The form f of task t; the position goes if the task is not by position. *)
Posthooked(f) == IF f.byposition THEN f ELSE [f EXCEPT !.position = NoPosition]

(* Mutation: completions keep the position of another task record. *)
Unmoved(c, f) == c

(* update any affected taskcompletions *)
Moved(c, f) == [c EXCEPT !.position = f.position]

BeginSave(r, t, f) ==
    /\ request[r] = Idle /\ versions[t] < MaxTaskSaves
    /\ request' = [request EXCEPT ![r] =
         [op |-> "save", task |-> t, form |-> Posthooked(f), reads |-> versions[t],
          rows |-> {c \in completions : c.task = t}]]
    /\ UNCHANGED <<tasks, completions, holders, today, marks, versions, strayed>>

(* Refused if the task was saved since (its version_id). *)
CommitSave(r) ==
    LET q == request[r] IN
    /\ r \in Saving /\ q.reads = versions[q.task]
    /\ tasks' = [tasks EXCEPT ![q.task] = q.form]
    /\ completions' = (completions \ q.rows) \union {Moved(c, q.form) : c \in q.rows}
    /\ strayed' = strayed \ {c.num : c \in q.rows}
    /\ versions' = [versions EXCEPT ![q.task] = @ + 1]
    /\ request' = [request EXCEPT ![r] = Idle]
    /\ UNCHANGED <<holders, today, marks>>

(* The request fails and is rolled back. *)
FailRequest(r) ==
    /\ r \in Busy
    /\ request' = [request EXCEPT ![r] = Idle]
    /\ UNCHANGED <<tasks, completions, holders, today, marks, versions, strayed>>

(* Terms of office start and end. *)
ChangeHolders(H) ==
    /\ holders' = H
    /\ UNCHANGED <<tasks, completions, today, request, marks, versions, strayed>>

(* Midnight, between requests. *)
NextDay ==
    /\ Busy = {} /\ today < LastDay
    /\ today' = today + 1
    /\ UNCHANGED <<tasks, completions, holders, request, marks, versions, strayed>>

TasksNext ==
    \/ \E r \in MarkRequests, u \in Members, t \in Tasks, d \in Days, dated \in BOOLEAN :
         BeginMark(r, u, t, d, dated)
    \/ \E r \in MarkRequests : CommitMark(r)
    \/ \E r \in MarkRequests, t \in Tasks, f \in Configs : BeginSave(r, t, f)
    \/ \E r \in MarkRequests : CommitSave(r)
    \/ \E r \in MarkRequests : FailRequest(r)
    \/ \E H \in SUBSET (Members \X Positions) : ChangeHolders(H)
    \/ NextDay

Next ==
    \/ TasksNext /\ UNCHANGED groupVars
    \/ GroupsNext /\ UNCHANGED taskVars

Spec == TasksInit /\ [][Next]_vars
-----------------------------------------------------------------------------
TasksTypeOK ==
    /\ tasks \in [Tasks -> TaskRecords]
    /\ \A t \in Tasks : tasks[t].byposition <=> tasks[t].position # NoPosition
    /\ completions \subseteq CompletionRecords
    /\ holders \subseteq Members \X Positions
    /\ today \in Days
    /\ \A r \in Busy :
         /\ request[r].op \in {"mark", "save"} /\ request[r].task \in Tasks
         /\ request[r].op = "mark" => request[r].row.num \in 1..marks
         /\ request[r].op = "save" => request[r].form \in TaskRecords
    /\ marks \in 0..MaxMarks
    /\ versions \in [Tasks -> 0..MaxTaskSaves]
    /\ strayed \subseteq 1..marks

(* When a task is by position, a completion by anybody is on the checklist *)
(* of all who hold the position, and otherwise on that of the member who   *)
(* completed it: through any changes of the task's position, of byposition *)
(* and of the holders.  Completions that a save of the task overlapped are *)
(* left out until the next save.                                           *)
DoneForThePosition ==
    \A c \in completions : c.num \notin strayed =>
      \A u \in Members :
        (IF tasks[c.task].byposition THEN tasks[c.task].position \in Held(u) ELSE c.user = u)
          => c \in Visible(u, c.task) /\ Seen(u, c.task).num >= c.num

(* What a step completes is not overdue afterwards on any checklist that   *)
(* shows it.                                                               *)
Completes ==
    \A c \in completions' \ completions :
      ~c.dated /\ {d \in completions : d.num = c.num} = {} =>
        \A u \in Members :
          Seen(u, c.task)' = c => Status(tasks[c.task], c, today) # "overdue"

(* Marking a task complete now helps, in whatever order its requests end.  *)
MarkHelps == [][Completes]_vars

(* A completion of a yearly task is for the date of year X that it follows *)
(* by at most starts days or precedes by less than the rest of the year,   *)
(* and lasts until the date a year after X.                                *)
CountsForItsDate ==
    \A c \in completions :
      LET t == tasks[c.task]
          x == NextExpiry(t, c.day) - Year
      IN  t.kind = "yearly" =>
            /\ DayOfYear(x) = t.doy
            /\ x - Year + t.starts < c.day /\ c.day <= x + t.starts

(* A task whose one group has nothing else, is in no other group and is    *)
(* assigned to no member by name, and to the task's position alone.        *)
Alone(t) ==
    /\ WellConfigured(t)
    /\ \A g \in Groups : t \in groups[g].tasks /\ tasks[t].byposition =>
         groups[g].users = {} /\ \A h \in Groups : g \notin groups[h].groups

(* With such tasks, mails go to those whose checklists show something due: *)
(* the tracker reads completions of all positions and the checklist those  *)
(* of its member.                                                          *)
RemindersAgree ==
    (\A t \in Tasks : Alone(t)) =>
      Reminded = {u \in Members :
                    \E t \in TasksOfMember(u) : Due(Status(tasks[t], Seen(u, t), today))}

(* A completion counts, for its date and for the reminders. *)
CompletionsCount == CountsForItsDate /\ RemindersAgree

(* The tracker can be read, also when a member has a task by name only.    *)
TrackerOpens == TrackerShown
=============================================================================
