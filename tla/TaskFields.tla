----------------------------- MODULE TaskFields -----------------------------
(***************************************************************************)
(* The additional fields of a leadership task: their configuration, what   *)
(* members give with a completion, and the files they upload               *)
(* (leadership_tasks_admin.py, leadership_tasks_member.py, viewhelpers.py, *)
(* files.py).  One task is modelled.                                       *)
(*                                                                         *)
(*   member   opens the task on the checklist, uploads files while the     *)
(*            form is open, and marks the task complete                    *)
(*   admin    does the same on the tracker, with a day of completion       *)
(*                                                                         *)
(* A form has the fields the task had when it was opened; it is validated  *)
(* and stored with those it has when it is sent.  A field, a file or a     *)
(* type that went away in between lets the request fail, or the pages that *)
(* show the completion.                                                    *)
(***************************************************************************)
EXTENDS Naturals, FiniteSets, FiniteSetsExt

CONSTANTS
    FieldIds,
    FieldTypes,        \* inputs: "text" stands for all those kept as they are
    OpenForms,         \* forms that are open in browsers
    NoRow,             \* sentinel: no such row, no open form
    FinalDay,          \* bound: the days are 0 .. FinalDay
    MaxEntries,        \* bound: completions
    MaxFiles           \* bound: uploaded files

(* A row of taskfield. *)
FieldRows == [type : FieldTypes, url : BOOLEAN, override : BOOLEAN]

ASSUME FieldsAssumption ==
    /\ FieldTypes \subseteq {"text", "datetime", "upload", "display"}
    /\ FinalDay \in Nat /\ MaxEntries \in Nat /\ MaxFiles \in Nat
    /\ NoRow \notin FieldIds /\ NoRow \notin FieldRows

FormDays == 0 .. FinalDay
FileIds == 1 .. MaxFiles
Needs == {"required", "oneof", "optional"}

(* What is entered in a field: nothing, a day, a file, or any text. *)
Nothing == <<"nothing">>
AText == <<"text">>
Day(d) == <<"day", d>>
File(i) == <<"file", i>>

(* What a form of a field stores; bound: only dates override the completion's date. *)
Field(type, override) == [type |-> type, url |-> type = "upload", override |-> override /\ type = "datetime"]

VARIABLES
    fields,        \* table taskfield: field -> NoRow or its row
    needs,         \* table task_taskfield: field -> need
    entries,       \* table taskcompletion: [num, at, day], at the day of the request
    inputs,        \* table inputfielddata: [entry, field, value]
    files,         \* table files: file -> NoRow or the number of its completion, 0 at first
    formOpen,      \* form -> NoRow or [types, uploaded]: its fields and what was uploaded
    formDay,       \* today
    changed        \* history: fields deleted, or whose type changed to or from upload

fieldVars == <<fields, needs, entries, inputs, files, formOpen, formDay, changed>>
dataVars == <<entries, inputs, files>>

Used == DOMAIN needs

FieldsInit ==
    /\ fields = [f \in FieldIds |-> NoRow] /\ needs = <<>>
    /\ entries = {} /\ inputs = {} /\ files = <<>>
    /\ formOpen = [o \in OpenForms |-> NoRow]
    /\ formDay = 0 /\ changed = {}

-----------------------------------------------------------------------------
(* TaskFieldCrud.createrow: only a new field of type upload gets a url.     *)
CreateField(f, type, override) ==
    /\ fields[f] = NoRow /\ f \notin changed
    /\ fields' = [fields EXCEPT ![f] = Field(type, override)]
    /\ UNCHANGED <<needs, dataVars, formOpen, formDay, changed>>

EditField(f, type, override) ==
    /\ fields[f] # NoRow
    /\ fields' = [fields EXCEPT ![f] = [Field(type, override) EXCEPT !.url = fields[f].url]]
    /\ fields' # fields
    /\ changed' = IF type # fields[f].type /\ "upload" \in {type, fields[f].type}
                  THEN changed \union {f} ELSE changed
    /\ UNCHANGED <<needs, dataVars, formOpen, formDay>>

(* The field of a task cannot be deleted: the row that associates them      *)
(* would lose its key.  What was entered in a deleted field loses it.       *)
DeleteField(f) ==
    /\ fields[f] # NoRow /\ f \notin Used
    /\ fields' = [fields EXCEPT ![f] = NoRow]
    /\ changed' = changed \union {f}
    /\ inputs' = {IF i.field = f THEN [i EXCEPT !.field = NoRow] ELSE i : i \in inputs}
    /\ UNCHANGED <<needs, entries, files, formOpen, formDay>>

(* The form of the task gives pairs of a field and a need; a field that is  *)
(* given twice is refused.                                                  *)
AssignFields(given) ==
    LET F == {p[1] : p \in given} IN
    /\ \A f \in F : fields[f] # NoRow
    /\ Cardinality(given) = Cardinality(F)
    /\ needs' = [f \in F |-> (CHOOSE p \in given : p[1] = f)[2]]
    /\ needs' # needs
    /\ UNCHANGED <<fields, dataVars, formOpen, formDay, changed>>

(* The files page only removes rows. *)
RemoveFile(i) ==
    /\ i \in DOMAIN files /\ files[i] # NoRow
    /\ files' = [files EXCEPT ![i] = NoRow]
    /\ UNCHANGED <<fields, needs, entries, inputs, formOpen, formDay, changed>>

NextFormDay ==
    /\ formDay < FinalDay
    /\ formDay' = formDay + 1
    /\ UNCHANGED <<fields, needs, dataVars, formOpen, changed>>

-----------------------------------------------------------------------------
Entered(e, f) == {i \in inputs : i.entry = e.num /\ i.field = f}

(* addlfields, get_taskfields: the value of an upload is the file's name. *)
Showable(e) ==
    \A f \in Used : \A i \in Entered(e, f) :
      fields[f].type = "upload" => \E n \in DOMAIN files : i.value = File(n) /\ files[n] # NoRow

Newest == CHOOSE e \in entries : \A d \in entries : d.num <= e.num

(* Open the task's form; the tracker's has the values of the last time.     *)
(* There is none if the last completion cannot be shown.                    *)
OpenForm(o, byAdmin) ==
    /\ entries # {} => Showable(Newest)
    /\ formOpen' = [formOpen EXCEPT ![o] =
         [types |-> [f \in Used |-> fields[f].type], byAdmin |-> byAdmin,
          uploaded |-> IF byAdmin /\ entries # {}
                       THEN {<<i.field, i.value>> : i \in {j \in inputs : j.entry = Newest.num /\ j.field \in Used}}
                       ELSE {}]]
    /\ UNCHANGED <<fields, needs, dataVars, formDay, changed>>

(* A file is uploaded and stored while the form is open. *)
UploadFile(o, f) ==
    /\ formOpen[o] # NoRow /\ f \in DOMAIN formOpen[o].types /\ formOpen[o].types[f] = "upload"
    /\ fields[f] # NoRow /\ fields[f].url /\ Cardinality(DOMAIN files) < MaxFiles
    /\ LET i == Cardinality(DOMAIN files) + 1 IN
       /\ files' = [n \in DOMAIN files \union {i} |-> IF n = i THEN 0 ELSE files[n]]
       /\ formOpen' = [formOpen EXCEPT ![o].uploaded = {p \in @ : p[1] # f} \union {<<f, File(i)>>}]
    /\ UNCHANGED <<fields, needs, entries, inputs, formDay, changed>>

(* What a form may have in field f when it is sent. *)
CanBe(o, f) ==
    CASE formOpen[o].types[f] = "datetime" -> {Nothing} \union {Day(d) : d \in FormDays}
      [] formOpen[o].types[f] = "upload" ->
           IF \E p \in formOpen[o].uploaded : p[1] = f
           THEN {p[2] : p \in {q \in formOpen[o].uploaded : q[1] = f}} ELSE {Nothing}
      [] formOpen[o].types[f] = "text" -> {Nothing, AText}
      [] formOpen[o].types[f] = "display" -> {AText}

Overriding == {f \in Used : fields[f].override}
Asked(need) == {f \in Used : needs[f] = need /\ fields[f].type # "display"}

NotLater(value) == \A d \in FormDays : value = Day(d) => d <= formDay

(* _validate of the checklist. *)
MemberValid(given) ==
    /\ \A f \in Asked("required") : given[f] # Nothing
    /\ Asked("oneof") # {} => \E f \in Asked("oneof") : given[f] # Nothing
    /\ \A f \in Overriding : NotLater(given[f])

(* taskdetails_validate: no need is checked, and dates must be given. *)
AdminValid(given, day) ==
    /\ day <= formDay
    /\ \A f \in Overriding : \E d \in FormDays : given[f] = Day(d) /\ d <= formDay

\* As if a field could always be left empty.
StorableOrNone(given) ==
    \A f \in Used : given[f] # Nothing =>
      /\ fields[f].type = "upload" => \E i \in DOMAIN files : given[f] = File(i) /\ files[i] # NoRow
      /\ fields[f].override => \E d \in FormDays : given[f] = Day(d)

(* create_taskcompletion can store the value of each field: an upload has   *)
(* its file, and a date that overrides the completion's is one.             *)
Storable(given) ==
    \A f \in Used :
      /\ fields[f].type = "upload" => \E i \in DOMAIN files : given[f] = File(i) /\ files[i] # NoRow
      /\ fields[f].override => \E d \in FormDays : given[f] = Day(d)

(* Store a completion on the day, with what was given. *)
Store(given, day) ==
    LET num == Cardinality(entries) + 1 IN
    /\ entries' = entries \union {[num |-> num, at |-> formDay, day |-> day]}
    /\ inputs' = inputs \union {[entry |-> num, field |-> f, value |-> given[f]] : f \in Used}
    /\ files' = [i \in DOMAIN files |->
                   IF \E f \in Used : fields[f].type = "upload" /\ given[f] = File(i) THEN num ELSE files[i]]

(* The form is sent: a request with a field that the form did not have, or  *)
(* that is not valid or cannot be stored, changes nothing.                  *)
SendForm(o, given, day) ==
    /\ Cardinality(entries) < MaxEntries
    /\ formOpen[o] # NoRow
    /\ Used \subseteq DOMAIN given /\ \A f \in DOMAIN given : given[f] \in CanBe(o, f)
    /\ Storable(given)
    /\ IF formOpen[o].byAdmin
       THEN AdminValid(given, day) /\ Store(given, day)
       ELSE /\ MemberValid(given)
            /\ IF Overriding = {} THEN day = formDay ELSE \E f \in Overriding : given[f] = Day(day)
            /\ Store(given, day)
    /\ formOpen' = [formOpen EXCEPT ![o] = NoRow]
    /\ UNCHANGED <<fields, needs, formDay, changed>>

Givens(o) ==
    IF formOpen[o] = NoRow THEN {}
    ELSE {g \in [DOMAIN formOpen[o].types ->
                   UNION {CanBe(o, f) : f \in DOMAIN formOpen[o].types}] :
            \A f \in DOMAIN g : g[f] \in CanBe(o, f)}

FieldsNext ==
    \/ \E f \in FieldIds, type \in FieldTypes, override \in BOOLEAN : CreateField(f, type, override)
    \/ \E f \in FieldIds, type \in FieldTypes, override \in BOOLEAN : EditField(f, type, override)
    \/ \E f \in FieldIds : DeleteField(f)
    \/ \E given \in SUBSET (FieldIds \X Needs) : AssignFields(given)
    \/ \E i \in FileIds : RemoveFile(i)
    \/ NextFormDay
    \/ \E o \in OpenForms, byAdmin \in BOOLEAN : OpenForm(o, byAdmin)
    \/ \E o \in OpenForms, f \in FieldIds : UploadFile(o, f)
    \/ \E o \in OpenForms : \E given \in Givens(o), day \in FormDays : SendForm(o, given, day)

FieldsSpec == FieldsInit /\ [][FieldsNext]_fieldVars

-----------------------------------------------------------------------------
FieldsTypeOK ==
    /\ fields \in [FieldIds -> FieldRows \union {NoRow}]
    /\ Used \subseteq {f \in FieldIds : fields[f] # NoRow} /\ \A f \in Used : needs[f] \in Needs
    /\ entries \subseteq [num : 1 .. MaxEntries, at : FormDays, day : FormDays]
    /\ \A i \in inputs : (\E e \in entries : e.num = i.entry) /\ i.field \in FieldIds \union {NoRow}
    /\ DOMAIN files \subseteq FileIds /\ \A i \in DOMAIN files : files[i] \in 0 .. MaxEntries \union {NoRow}
    /\ \A o \in OpenForms : formOpen[o] # NoRow => DOMAIN formOpen[o].types \subseteq FieldIds
    /\ formDay \in FormDays /\ changed \subseteq FieldIds

(* A completion can be shown as long as its files are there and no field    *)
(* became an upload; it has one value of a field at most; its day is not    *)
(* later than the day it was marked.                                        *)
EntriesShown ==
    \A e \in entries :
      /\ e.day <= e.at
      /\ \A f \in Used : Cardinality(Entered(e, f)) <= 1
      /\ (\A i \in DOMAIN files : files[i] # NoRow) /\ Used \intersect changed = {} => Showable(e)

(* A file belongs to the last completion it was given with, if no field     *)
(* became an upload or was one.                                             *)
FilesBelong ==
    changed = {} => \A i \in DOMAIN files : files[i] # NoRow =>
      files[i] = Max({n.entry : n \in {m \in inputs : m.value = File(i)}} \union {0})

(* Whatever the fields of the task, it can be completed, and its pages can  *)
(* be opened.                                                               *)
Completable ==
    Used \intersect changed = {} => \A f \in Used : fields[f].type = "upload" => fields[f].url

FieldsHold == EntriesShown /\ FilesBelong /\ Completable
=============================================================================
