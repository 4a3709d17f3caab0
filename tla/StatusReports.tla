--------------------------- MODULE StatusReports ---------------------------
(***************************************************************************)
(* Status reports of one meeting: the pages My Status Report and Their     *)
(* Status Report, the Meeting Status view with its reminders, and the      *)
(* status report document.                                                 *)
(*                                                                         *)
(* Opening the page creates what is missing: a report (StatusReport) for   *)
(* each position of the member that has one, shared by all who hold the    *)
(* position, and a row of the member (MemberStatusReport) that points to   *)
(* it.  Every insert is committed at once, and the unique constraints of   *)
(* the tables turn a lost race into an error that open() recovers from:    *)
(* an open is a request of several steps here, each with the snapshot of   *)
(* the transaction it runs in.                                             *)
(***************************************************************************)
EXTENDS Integers, FiniteSets, FiniteSetsExt

CONSTANTS
    Members,        \* members of the interest
    Positions,      \* their positions
    NoPosition,     \* sentinel: an ad hoc report
    OpenRequests,   \* web requests that open a status report page
    Closed,         \* sentinel: the request is not in use
    MaxAdHoc        \* bound: ad hoc reports

ASSUME StatusReportsAssumption ==
    NoPosition \notin Positions /\ MaxAdHoc \in Nat

VARIABLES
    reports,    \* table statusreport
    rows,       \* table memberstatusreport
    held,       \* member -> positions on the date of the meeting
    tagged,     \* the positions of the meeting's status report tags
    invited,    \* members with an invitation
    opening     \* request -> what it is doing, or Closed

reportVars == <<reports, rows, held, tagged, invited, opening>>

Reports == [num : Nat \ {0}, position : Positions \union {NoPosition}, text : BOOLEAN]
Rows == [member : Members, report : Nat \ {0}, order : Nat \ {0}]

-----------------------------------------------------------------------------
(* What a transaction reads: d is its snapshot, as far as an open for u     *)
(* looks at it.                                                            *)

Snapshot(u) ==
    [reports |-> {<<s.num, s.position>> : s \in {x \in reports : x.position # NoPosition}},
     rows |-> {w \in rows : w.member = u}]

RowsFor(d, p) == {w \in d.rows : <<w.report, p>> \in d.reports}

\* The number of the report of p, 0 if there is none.
ReportOf(R, p) == Max({0} \union {s.num : s \in {x \in R : x.position = p}})

NextOrder(u) == 1 + Max({0} \union {w.order : w \in {x \in rows : x.member = u}})

\* The snapshot of request o: its own, or that of the transaction it is about to begin.
ViewOf(o) == IF o.view = {} THEN Snapshot(o.member) ELSE CHOOSE d \in o.view : TRUE

NewNum == Cardinality(reports) + 1

-----------------------------------------------------------------------------
StatusReportsInit ==
    /\ reports = {} /\ rows = {}
    /\ held \in [Members -> SUBSET Positions]
    /\ tagged \in SUBSET Positions
    /\ invited \in SUBSET Members
    /\ opening = [r \in OpenRequests |-> Closed]

\* The request finds the invitation, the highest order and the positions of the member.
StartOpen(r, u) ==
    /\ opening[r] = Closed
    /\ u \in invited
    /\ opening' = [opening EXCEPT ![r] =
         [member |-> u, asked |-> held[u] \intersect tagged, todo |-> held[u] \intersect tagged,
          order |-> NextOrder(u), view |-> {Snapshot(u)}, at |-> NoPosition, report |-> 0]]
    /\ UNCHANGED <<reports, rows, held, tagged, invited>>

\* It looks for the row and the report of its next position.
Look(r, p) ==
    /\ opening[r] # Closed
    /\ LET o == opening[r]
           d == ViewOf(o)
       IN /\ o.at = NoPosition /\ p \in o.todo
          /\ opening' = [opening EXCEPT ![r] =
               IF RowsFor(d, p) # {}
               THEN [o EXCEPT !.todo = @ \ {p}, !.view = {d}]
               ELSE [o EXCEPT !.at = p, !.view = {d},
                               !.report = Max({0} \union {n \in {s.num : s \in reports} : <<n, p>> \in d.reports})]]
    /\ UNCHANGED <<reports, rows, held, tagged, invited>>

\* The insert of a report for p, in the tables as they are now.
InsertUnique(R, p) ==
    IF \E s \in R : s.position = p
    THEN R
    ELSE R \union {[num |-> Cardinality(R) + 1, position |-> p, text |-> FALSE]}

\* The report was not there: insert it and commit, or pick up the one that is there by now.
InsertReport(r) ==
    /\ opening[r] # Closed
    /\ opening[r].at # NoPosition /\ opening[r].report = 0
    /\ reports' = InsertUnique(reports, opening[r].at)
    /\ opening' = [opening EXCEPT ![r].view = {},
                                  ![r].report = ReportOf(reports', opening[r].at)]
    /\ UNCHANGED <<rows, held, tagged, invited>>

\* Mutation: the row of whoever came first is enough.
FirstRow(R, w) == IF \E x \in R : x.report = w.report THEN R ELSE R \union {w}

\* The insert of a row, in the tables as they are now: a second one is ignored.
AddRow(R, w) ==
    IF \E x \in R : x.member = w.member /\ x.report = w.report THEN R ELSE R \union {w}

InsertRow(r) ==
    /\ opening[r] # Closed
    /\ opening[r].report # 0
    /\ LET o == opening[r]
       IN /\ rows' = AddRow(rows, [member |-> o.member, report |-> o.report, order |-> o.order])
          /\ opening' = [opening EXCEPT ![r] =
               [o EXCEPT !.todo = @ \ {o.at}, !.at = NoPosition, !.report = 0,
                         !.order = @ + 1, !.view = {}]]
    /\ UNCHANGED <<reports, held, tagged, invited>>

Opened(r) == opening[r] # Closed /\ opening[r].todo = {} /\ opening[r].at = NoPosition

\* The page is shown.
EndOpen(r) ==
    /\ Opened(r)
    /\ opening' = [opening EXCEPT ![r] = Closed]
    /\ UNCHANGED <<reports, rows, held, tagged, invited>>

\* The request dies between two commits.
FailOpen(r) ==
    /\ opening[r] # Closed
    /\ opening' = [opening EXCEPT ![r] = Closed]
    /\ UNCHANGED <<reports, rows, held, tagged, invited>>

\* The New button: a report without a position, and the row of the member.
CreateAdHoc(u, t) ==
    /\ u \in invited
    /\ Cardinality({s \in reports : s.position = NoPosition}) < MaxAdHoc
    /\ reports' = reports \union {[num |-> NewNum, position |-> NoPosition, text |-> t]}
    /\ rows' = rows \union {[member |-> u, report |-> NewNum, order |-> NextOrder(u)]}
    /\ UNCHANGED <<held, tagged, invited, opening>>

\* The member (or an admin for the member) edits a row, which writes to the shared report.
WriteReport(w, t) ==
    /\ w \in rows
    /\ reports' = {IF s.num = w.report THEN [s EXCEPT !.text = t] ELSE s : s \in reports}
    /\ reports' # reports
    /\ UNCHANGED <<rows, held, tagged, invited, opening>>

\* Reminders for the positions P picked in the Meeting Status view: who holds one of
\* them and has no invitation gets one (generatereminder).
Remind(P) ==
    /\ P # {} /\ P \subseteq tagged
    /\ invited' = invited \union {u \in Members : held[u] \intersect P # {}}
    /\ UNCHANGED <<reports, rows, held, tagged, opening>>

\* Positions are assigned, and the tags of the meeting or of a position edited.
Reassign(u, P) ==
    /\ held' = [held EXCEPT ![u] = P]
    /\ UNCHANGED <<reports, rows, tagged, invited, opening>>

Retag(P) ==
    /\ tagged' = P
    /\ UNCHANGED <<reports, rows, held, invited, opening>>

StatusReportsNext ==
    \/ \E r \in OpenRequests :
         \/ \E u \in Members : StartOpen(r, u)
         \/ \E p \in Positions : Look(r, p)
         \/ InsertReport(r) \/ InsertRow(r) \/ EndOpen(r) \/ FailOpen(r)
    \/ \E u \in Members, t \in BOOLEAN : CreateAdHoc(u, t)
    \/ \E w \in rows, t \in BOOLEAN : WriteReport(w, t)
    \/ \E P \in SUBSET Positions : Remind(P) \/ Retag(P)
    \/ \E u \in Members, P \in SUBSET Positions : Reassign(u, P)

-----------------------------------------------------------------------------
(* The document, with noted the reports that have discussion items.        *)

\* Reports that go below those by position: the ones with something in them.
Remaining(noted) ==
    {s \in reports : s.position = NoPosition /\ (s.text \/ s.num \in noted)}

\* One entry for each position of the tags, then the remaining reports.
Document(noted) ==
    {[position |-> p, report |-> ReportOf(reports, p)] : p \in tagged}
      \union {[position |-> NoPosition, report |-> s.num] : s \in Remaining(noted)}

-----------------------------------------------------------------------------
StatusReportsTypeOK ==
    /\ reports \subseteq Reports /\ rows \subseteq Rows
    /\ Cardinality({s.num : s \in reports}) = Cardinality(reports)
    /\ held \in [Members -> SUBSET Positions]
    /\ tagged \subseteq Positions /\ invited \subseteq Members
    /\ \A r \in OpenRequests : opening[r] # Closed =>
         /\ opening[r].member \in Members
         /\ opening[r].todo \subseteq opening[r].asked
         /\ opening[r].at \in opening[r].todo \union {NoPosition}
         /\ opening[r].report # 0 => opening[r].at # NoPosition

(* When a page is shown it has exactly one row for each position that the  *)
(* member had when it was opened, whoever else was creating reports or     *)
(* rows for these positions, or died half way (open, meetings_common.py).  *)
OpenedShowsAll ==
    \A r \in OpenRequests : Opened(r) =>
      \A p \in opening[r].asked :
        Cardinality(RowsFor(ViewOf(opening[r]), p)) = 1

(* What somebody wrote is in the document once, unless its position lost   *)
(* the tag, and a report without a position has the one member who is      *)
(* named beside it (meeting_statusreport_context, reports.py).             *)
WrittenIsPrinted ==
    \A s \in reports : s.text /\ s.position \in tagged \union {NoPosition} =>
      /\ Cardinality({e \in Document({}) : e.report = s.num}) = 1
      /\ s.position = NoPosition => Cardinality({w \in rows : w.report = s.num}) = 1

(* What is written is shown to its writers and printed. *)
ReportsShown == OpenedShowsAll /\ WrittenIsPrinted
=============================================================================
