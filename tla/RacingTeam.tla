---------------------------- MODULE RacingTeam ----------------------------
(***************************************************************************)
(* The racing team module (src/.../racingteam_admin.py, the public pages   *)
(* in racingteam_frontend.py and their tables).  Admins keep the team's    *)
(* members, the configuration and the date ranges in which applications    *)
(* are open; members report races and volunteering, runners apply with two *)
(* races.  A form is stored in one transaction, with the age grades of     *)
(* scoretility.com asked for while it is open, and confirmed by a mail     *)
(* after the commit.  A form stands for its contents.                      *)
(***************************************************************************)
EXTENDS Naturals, FiniteSets, FiniteSetsExt, Sequences

CONSTANTS Users,       \* local users (one for each name and address)
          BirthDates,
          Forms,       \* forms that are filled in and sent, once or again
          Months,      \* 1 .. the last month
          Days,        \* days an admin may enter
          LastDay,     \* days of a month
          Years,
          MaxRows      \* bound of the rows of a table

ASSUME RacingAssumption ==
    /\ Months \subseteq Nat /\ Days \subseteq Nat /\ Years \subseteq Nat
    /\ LastDay \in Nat /\ MaxRows \in Nat

VARIABLES active,      \* the local users that are active
          racers,      \* rt_member
          configs,     \* rt_config
          ranges,      \* rt_daterange
          infos,       \* rt_info
          applications,\* rt_application
          results,     \* rt_result
          volunteered, \* rt_volunteer
          request,     \* per form: the request that carries it
          unmailed     \* forms stored without a confirmation

racingVars == <<active, racers, configs, ranges, infos, applications, results, volunteered,
                request, unmailed>>
teamVars == <<active, racers>>
configVars == <<configs, ranges>>
rowVars == <<infos, applications, results, volunteered>>

None == 0
Kinds == {"raceresult", "volunteer", "application"}
Behaviors == {"auto", "open", "closed"}
DateOfYear == Months \X Days

Racer == [num : Nat, user : Users, born : BirthDates, active : BOOLEAN]
Config == [num : Nat, openbehavior : Behaviors]
DateRange == [num : Nat, start : DateOfYear, end : DateOfYear, config : Nat]
Info == [num : Nat, racer : Nat, form : Forms]
Application == [num : Nat, form : Forms]
Result == [info : Nat, application : Nat, race : {1, 2}]
Volunteer == [info : Nat]

NoRequest == [stage |-> "none", kind |-> "volunteer", racer |-> None, graded |-> 0]

RacingInit ==
    /\ active = Users /\ racers = {} /\ configs = {} /\ ranges = {}
    /\ infos = {} /\ applications = {} /\ results = {} /\ volunteered = {}
    /\ request = [f \in Forms |-> NoRequest] /\ unmailed = {}

FreeNum(rows) == Max({r.num : r \in rows} \cup {None}) + 1

(***************************************************************************)
(* Admin pages                                                             *)
(***************************************************************************)
SetActive(u) ==
    /\ active' = IF u \in active THEN active \ {u} ELSE active \cup {u}
    /\ UNCHANGED <<racers, configVars, rowVars, request, unmailed>>

(* A member is new unless a row has the same user and the same birth date. *)
IsDuplicate(u, b) == \E r \in racers : r.user = u /\ r.born = b

CreateRacer(u, b) ==
    /\ u \in active /\ ~IsDuplicate(u, b) /\ Cardinality(racers) < MaxRows
    /\ racers' = racers \cup {[num |-> FreeNum(racers), user |-> u, born |-> b, active |-> TRUE]}
    /\ UNCHANGED <<active, configVars, rowVars, request, unmailed>>

(* Any field of a row can be edited, unchecked. *)
EditRacer(r, u, b, on) ==
    /\ r \in racers /\ u \in active \cup {r.user}
    /\ racers' = (racers \ {r}) \cup {[r EXCEPT !.user = u, !.born = b, !.active = on]}
    /\ UNCHANGED <<active, configVars, rowVars, request, unmailed>>

(* A configuration takes the ranges picked for it away from others. *)
SaveConfig(num, behavior, picked) ==
    /\ num \in {c.num : c \in configs} \cup {FreeNum(configs)} /\ num <= MaxRows
    /\ configs' = {c \in configs : c.num # num} \cup {[num |-> num, openbehavior |-> behavior]}
    /\ ranges' = {[r EXCEPT !.config = IF r \in picked THEN num
                                       ELSE IF @ = num THEN None ELSE @] : r \in ranges}
    /\ UNCHANGED <<teamVars, rowVars, request, unmailed>>

DeleteConfig(c) ==
    /\ c \in configs
    /\ configs' = configs \ {c}
    /\ ranges' = {[r EXCEPT !.config = IF @ = c.num THEN None ELSE @] : r \in ranges}
    /\ UNCHANGED <<teamVars, rowVars, request, unmailed>>

SaveRange(num, start, end) ==
    /\ num \in {r.num : r \in ranges} \cup {FreeNum(ranges)} /\ num <= MaxRows
    /\ ranges' = {r \in ranges : r.num # num} \cup
                 {[num |-> num, start |-> start, end |-> end,
                   config |-> IF \E r \in ranges : r.num = num
                              THEN (CHOOSE r \in ranges : r.num = num).config ELSE None]}
    /\ UNCHANGED <<teamVars, configs, rowVars, request, unmailed>>

DeleteRange(r) ==
    /\ r \in ranges /\ ranges' = ranges \ {r}
    /\ UNCHANGED <<teamVars, configs, rowVars, request, unmailed>>

(***************************************************************************)
(* Are applications open?                                                  *)
(***************************************************************************)
NotAfter(d, e) == d[1] < e[1] \/ (d[1] = e[1] /\ d[2] <= e[2])

\* A day of a year as a date; the pages fail on a day that the month does not have.
Exists(d) == d[2] \in 1 .. LastDay
DateIn(year, d) == <<year, d[1], d[2]>>
Upto(x, y) == \/ x[1] < y[1]
              \/ x[1] = y[1] /\ NotAfter(<<x[2], x[3]>>, <<y[2], y[3]>>)

InRange(r, year, day) ==
    LET today == DateIn(year, day)
        Between(first, last) == /\ Upto(DateIn(first, r.start), today)
                                /\ Upto(today, DateIn(last, r.end))
    IN IF NotAfter(r.start, r.end)
       THEN Between(year, year)
       ELSE Between(year - 1, year) \/ Between(year, year + 1)

\* The configuration; the pages fail without one and with several.
Configured == Cardinality(configs) = 1
TheConfig == CHOOSE c \in configs : TRUE

ConfiguredRanges == {r \in ranges : r.config = TheConfig.num}

ApplicationsOpen(year, day) ==
    \/ TheConfig.openbehavior = "open"
    \/ TheConfig.openbehavior = "auto" /\ \E r \in ConfiguredRanges : InRange(r, year, day)

(***************************************************************************)
(* Public pages                                                            *)
(***************************************************************************)
SetRequest(f, stage) == request' = [request EXCEPT ![f].stage = stage]

RowsOf(u) == {r \in racers : r.user = u}

\* Forms find a racer by an active user with one row, be the row active or not.
Found(u) == u \in active /\ Cardinality(RowsOf(u)) = 1

(* A member reports a race or volunteering. *)
SubmitInfo(f, u, kind) ==
    /\ request[f].stage \in {"none", "error"} /\ kind \in {"raceresult", "volunteer"}
    /\ request[f].stage = "error" => request[f].kind = kind
    /\ IF Found(u) /\ Configured
       THEN request' = [request EXCEPT ![f] =
                          [stage |-> IF kind = "volunteer" THEN "store" ELSE "grade", kind |-> kind,
                           racer |-> (CHOOSE r \in RowsOf(u) : TRUE).num, graded |-> 0]]
       ELSE request' = [request EXCEPT ![f] = [NoRequest EXCEPT !.stage = "error", !.kind = kind]]
    /\ UNCHANGED <<teamVars, configVars, rowVars, unmailed>>

(* An application: accepted whether applications are open or not. *)
SubmitApplication(f) ==
    /\ request[f].stage \in {"none", "error"}
    /\ request[f].stage = "error" => request[f].kind = "application"
    /\ request' = [request EXCEPT ![f] = [stage |-> IF Configured THEN "grade" ELSE "error",
                                          kind |-> "application", racer |-> None,
                                          graded |-> 0]]
    /\ UNCHANGED <<teamVars, configVars, rowVars, unmailed>>

Races(kind) == CASE kind = "application" -> 2 [] kind = "raceresult" -> 1 [] OTHER -> 0

(* The age grade of the next race is asked for; a bad answer leaves the form's own. *)
GradeRace(f) ==
    /\ request[f].stage = "grade"
    /\ LET graded == request[f].graded + 1
       IN request' = [request EXCEPT ![f].graded = graded,
                        ![f].stage = IF graded = Races(request[f].kind) THEN "store" ELSE @]
    /\ UNCHANGED <<teamVars, configVars, rowVars, unmailed>>

StoreInfo(f) ==
    LET num == FreeNum(infos)
    IN /\ infos' = infos \cup {[num |-> num, racer |-> request[f].racer, form |-> f]}
       /\ IF request[f].kind = "volunteer"
          THEN volunteered' = volunteered \cup {[info |-> num]} /\ UNCHANGED results
          ELSE /\ results' = results \cup {[info |-> num, application |-> None, race |-> 1]}
               /\ UNCHANGED volunteered
       /\ UNCHANGED applications

StoreApplication(f) ==
    LET num == FreeNum(applications)
    IN /\ applications' = applications \cup {[num |-> num, form |-> f]}
       /\ results' = results \cup {[info |-> None, application |-> num, race |-> n] : n \in {1, 2}}
       /\ UNCHANGED <<infos, volunteered>>

(* The transaction is committed. *)
Store(f) ==
    /\ request[f].stage = "store"
    /\ IF request[f].kind = "application" THEN StoreApplication(f) ELSE StoreInfo(f)
    /\ SetRequest(f, "mail")
    /\ UNCHANGED <<teamVars, configVars, unmailed>>

FailKeepsRows(f) ==
    /\ request[f].stage \in {"grade", "store"}
    /\ SetRequest(f, "error")
    /\ IF request[f].kind = "application" THEN StoreApplication(f) ELSE StoreInfo(f)
    /\ UNCHANGED <<teamVars, configVars, unmailed>>

(* An error before the commit: everything is rolled back. *)
FailRequest(f) ==
    /\ request[f].stage \in {"grade", "store"}
    /\ SetRequest(f, "error")
    /\ UNCHANGED <<teamVars, configVars, rowVars, unmailed>>

Confirm(f) ==
    /\ request[f].stage = "mail"
    /\ SetRequest(f, "ok")
    /\ UNCHANGED <<teamVars, configVars, rowVars, unmailed>>

(* The mail fails: the answer is an error, and there is nothing left to roll back. *)
MailFails(f) ==
    /\ request[f].stage = "mail"
    /\ SetRequest(f, "error")
    /\ unmailed' = unmailed \cup {f}
    /\ UNCHANGED <<teamVars, configVars, rowVars>>

\* The admin's tables of the members' races and of the applicants', and an application's row.
InfoResults == {r \in results : r.info # None}
ApplicationResults == {r \in results : r.application # None}
RacesShown(a) == {r.race : r \in {r \in results : r.application = a.num}}

AdminStep ==
    \/ \E u \in Users : SetActive(u)
    \/ \E u \in Users, b \in BirthDates :
         \/ CreateRacer(u, b)
         \/ \E r \in racers, on \in BOOLEAN : EditRacer(r, u, b, on)
    \/ \E num \in 1 .. MaxRows, behavior \in Behaviors, picked \in SUBSET ranges :
         SaveConfig(num, behavior, picked)
    \/ \E c \in configs : DeleteConfig(c)
    \/ \E num \in 1 .. MaxRows, start, end \in DateOfYear : SaveRange(num, start, end)
    \/ \E r \in ranges : DeleteRange(r)

FormStep ==
    \E f \in Forms :
      \/ \E u \in Users, kind \in Kinds : SubmitInfo(f, u, kind)
      \/ SubmitApplication(f)
      \/ GradeRace(f) \/ FailRequest(f) \/ Store(f) \/ Confirm(f) \/ MailFails(f)

RacingNext == AdminStep \/ FormStep

RacingSpec == RacingInit /\ [][RacingNext]_racingVars

RacingTypeOK ==
    /\ active \subseteq Users /\ racers \subseteq Racer
    /\ configs \subseteq Config /\ ranges \subseteq DateRange
    /\ infos \subseteq Info /\ applications \subseteq Application
    /\ results \subseteq Result /\ volunteered \subseteq Volunteer
    /\ DOMAIN request = Forms /\ unmailed \subseteq Forms

-----------------------------------------------------------------------------
(***************************************************************************)
(* The answer to a form tells what became of it: after "OK" it is stored   *)
(* once, with all its races or its volunteering, more often only if an     *)
(* earlier confirmation failed; after an error it is not stored at all,    *)
(* unless that was it.  Each race is in one of the admin's tables.         *)
(***************************************************************************)
InfosOf(f) == {i \in infos : i.form = f}
ApplicationsOf(f) == {a \in applications : a.form = f}

Whole(f) ==
    /\ \A i \in InfosOf(f) :
         Cardinality({r \in InfoResults : r.info = i.num})
           + Cardinality({v \in volunteered : v.info = i.num}) = 1
    /\ \A a \in ApplicationsOf(f) : RacesShown(a) = {1, 2}

Copies(f) == Cardinality(InfosOf(f)) + Cardinality(ApplicationsOf(f))

AnswersTell ==
    /\ InfoResults \cup ApplicationResults = results
    /\ InfoResults \cap ApplicationResults = {}
    /\ \A f \in Forms :
         /\ Whole(f)
         /\ f \notin unmailed => Copies(f) = IF request[f].stage \in {"mail", "ok"} THEN 1 ELSE 0
         /\ request[f].stage = "ok" => Copies(f) >= 1

(***************************************************************************)
(* In "auto" the application page is open on exactly the days of the year  *)
(* from a range's start to its end, over New Year if the end comes first.  *)
(***************************************************************************)
DaysFrom(r, d) ==
    IF NotAfter(r.start, r.end) THEN NotAfter(r.start, d) /\ NotAfter(d, r.end)
    ELSE NotAfter(r.start, d) \/ NotAfter(d, r.end)

OpensInRanges ==
    Configured /\ (\A r \in ConfiguredRanges : Exists(r.start) /\ Exists(r.end)) =>
      \A year \in Years, d \in {d \in DateOfYear : Exists(d)} :
        ApplicationsOpen(year, d) <=>
          \/ TheConfig.openbehavior = "open"
          \/ TheConfig.openbehavior = "auto" /\ \E r \in ConfiguredRanges : DaysFrom(r, d)

(* The answers to the forms tell what became of them, and the application   *)
(* page is open on the days it should be (forms and dates of the racing     *)
(* team).                                                                   *)
FormsAndDays == AnswersTell /\ OpensInRanges
=============================================================================
