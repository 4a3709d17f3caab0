------------------------------ MODULE MCTasks -------------------------------
(***************************************************************************)
(* Small instances of Tasks and TaskFields for TLC.  Each behaviour        *)
(* exercises one of them.                                                  *)
(***************************************************************************)
EXTENDS Tasks, TaskFields, TLC

CONSTANTS g1, g2, t1, p1, p2, u1, u2, k1, k2

VARIABLE part   \* which module the behaviour exercises

Config(kind, p) ==
    [kind |-> kind, byposition |-> p # NoPosition, position |-> p,
     period |-> 2, soon |-> 1, doy |-> 1, starts |-> 1]

MCConfigs ==
    {Config("periodic", p2), Config("yearly", p1),
     [Config("once", p1) EXCEPT !.byposition = FALSE], Config("optional", NoPosition)}

Form(T, P, U, G) == [tasks |-> T, positions |-> P, users |-> U, groups |-> G]

MCForms ==
    {Form({t1}, {p1}, {}, {}), Form({t1}, {p1}, {}, {g2}), Form({}, {p2}, {}, {g1}), Form({t1}, {}, {u2}, {})}

\* Terms of office in the instance.
Terms == {{<<u1, p1>>}, {<<u1, p1>>, <<u2, p1>>}, {<<u1, p2>>, <<u2, p1>>}}

\* Bound: groups change at first, and the tasks are used after one change at most, then with
\* one completion and the same terms; terms change between requests; a date given is today's
\* or the first day; at most one request marks and at most one saves.
BoundedNext ==
    \/ /\ TasksNext /\ Running = {} /\ saves < MaxSaves /\ UNCHANGED groupVars
       /\ holders' \in Terms /\ (holders' # holders => Busy = {})
       /\ \A r \in Marking' \ Marking : request'[r].row.day \in {0, today}
       /\ Cardinality(Saving') <= 1 /\ Cardinality(Marking') <= 1
       /\ saves > 0 => marks' <= 1 /\ holders' = holders
    \/ /\ GroupsNext /\ UNCHANGED taskVars
       /\ Busy = {} /\ marks = 0 /\ today = 0 /\ \A t \in Tasks : versions[t] = 0

SameRequests == Permutations(Requests) \union Permutations(MarkRequests)

\* At first a group of one position.
OneGroup ==
    /\ TasksInit
    /\ groups = [g \in Groups |-> IF g = g1 THEN Form({t1}, {p1}, {}, {}) ELSE NoGroup]
    /\ holders = {<<u1, p1>>}

\* An upload, and a text, a date, a description or none, required.
TwoFields ==
    /\ \E row \in {Field(type, TRUE) : type \in {"text", "datetime", "display"}} \union {NoRow} :
         /\ fields = (k1 :> row) @@ (k2 :> Field("upload", FALSE))
         /\ needs = [f \in {g \in FieldIds : fields[g] # NoRow} |-> "required"]
    /\ entries = {} /\ inputs = {} /\ files = <<>>
    /\ formOpen = [o \in OpenForms |-> NoRow] /\ formDay = 0 /\ changed = {}

\* Bound: the configuration changes on the first day, before the second completion, and no
\* more once a field was deleted, became an upload or was one; an open form is not opened again.
ConfigStep ==
    /\ formDay = 0 /\ Cardinality(entries) <= 1 /\ changed = {}
    /\ \/ changed' # {}
       \/ needs' # needs /\ DOMAIN needs' \in {{k2}, FieldIds}
          /\ \A f \in DOMAIN needs' : needs'[f] = IF DOMAIN needs' = {k2} THEN "optional" ELSE "oneof"
       \/ entries = {} /\ \E f \in FieldIds : fields[f] = NoRow /\ fields'[f] # NoRow

FieldsBounded ==
    /\ FieldsNext
    /\ <<fields, needs>>' # <<fields, needs>> => ConfigStep
    /\ formOpen' # formOpen /\ files' = files =>
         \E o \in OpenForms : formOpen[o] = NoRow \/ formOpen'[o] = NoRow

PartsInit ==
    /\ TwoFields
    /\ OneGroup
    /\ part # "fields" => fields[k1] = NoRow
    /\ part # "tasks" => tasks = CHOOSE f \in [Tasks -> Configs] : TRUE

MCInit == part \in {"tasks", "fields"} /\ PartsInit

MCNext ==
    /\ part' = part
    /\ \/ part = "tasks" /\ BoundedNext /\ UNCHANGED fieldVars
       \/ part = "fields" /\ FieldsBounded /\ UNCHANGED vars

BoundedSpec == MCInit /\ [][MCNext]_<<vars, fieldVars, part>>
=============================================================================
