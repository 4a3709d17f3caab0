--------------------------- MODULE PositionWizard ---------------------------
(***************************************************************************)
(* The terms of office of one position (rows of UserPosition) and the two  *)
(* ways the administrator changes them: the Position Wizard, whose POST    *)
(* handler rewrites the terms around an effective date, and the Position   *)
(* Dates table, which creates, edits and deletes single rows.              *)
(*                                                                         *)
(* A wizard request is two steps.  It reads its rows in one transaction    *)
(* (Read), so it computes from the rows as they were then; its writes meet *)
(* the committed rows later (Update).  Every row has a version_id, so an   *)
(* UPDATE or DELETE of a row somebody else wrote in between fails and the  *)
(* whole request is rolled back (UpdateStale).  An INSERT has no such      *)
(* check.                                                                  *)
(*                                                                         *)
(* The position is in service (is_active) throughout, and the start date,  *)
(* which the form requires, is never empty.                                *)
(***************************************************************************)
EXTENDS Integers

CONSTANTS
  Users,      \* members of the organization (LocalUser)
  Quals,      \* qualifiers of a term, e.g. none and interim
  LastDate,   \* the dates are 1 .. LastDate
  MaxSlots,   \* bound: rows a user may have for this position
  WizardRequests  \* wizard requests that may run at the same time

ASSUME LastDateAssumption == LastDate \in Nat \ {0}
ASSUME MaxSlotsAssumption == MaxSlots \in Nat \ {0}

VARIABLES
  rows,       \* the committed rows
  running     \* the wizard requests between their first query and their end

termVars == <<rows, running>>

-----------------------------------------------------------------------------
Dates == 1 .. LastDate

\* A row without a finish date is open ended.
Forever == LastDate + 1

Slots == 1 .. MaxSlots

Row == [user : Users, slot : Slots, start : Dates,
        finish : Dates \union {Forever}, qualifier : Quals]

\* A request: its form (the members to be in the position from the effective
\* date on, with their qualifier), the rows it has read, and the keys of the
\* rows that others wrote since.
Request == [id : WizardRequests, effective : Dates, members : SUBSET Users,
            qualifier : Quals, read : SUBSET Row, stale : SUBSET (Users \X Slots)]

\* The primary key: no two rows share it.
Key(x) == <<x.user, x.slot>>

Keys(R) == {Key(x) : x \in R}

\* is_userposition_active
ActiveOn(x, d) == x.start <= d /\ d <= x.finish

\* members_active
MembersActive(R, d) == {x.user : x \in {y \in R : ActiveOn(y, d)}}

\* member_positions: a member's rows that have not finished before d
MemberPositions(R, u, d) == {x \in R : x.user = u /\ d <= x.finish}

\* A member's rows that start after d and have not finished before d.
MembersFuture(R, d) == {x \in R : d < x.start /\ d <= x.finish}

\* member_position_active finds more than one row for a member
Overlapping(R, d) ==
  \E x, y \in R : x # y /\ x.user = y.user /\ ActiveOn(x, d) /\ ActiveOn(y, d)

FreeSlots(R, u) == {s \in Slots : <<u, s>> \notin Keys(R)}

FreeSlot(R, u) == CHOOSE s \in FreeSlots(R, u) : TRUE

-----------------------------------------------------------------------------
(***************************************************************************)
(* What a request r does with the rows it has read.                        *)
(***************************************************************************)

\* Mutant: later rows of members who are not in the position go, too.
PurgedOfAll(r) == MembersFuture(r.read, r.effective)

\* Rows strictly in the future of the members in the position on the
\* effective date.
Purged(r) ==
  {x \in MembersFuture(r.read, r.effective) :
     x.user \in MembersActive(r.read, r.effective)}

\* Mutant: a change of qualifier is not noticed.
EndingLeavers(r) ==
  {x \in r.read : ActiveOn(x, r.effective) /\ x.user \notin r.members}

\* Rows that finish on the day before: of the members who leave, and of those
\* who stay with another qualifier.
Ending(r) ==
  {x \in r.read : /\ ActiveOn(x, r.effective)
                  /\ x.user \notin r.members \/ x.qualifier # r.qualifier}

\* The ended row is kept only if it still has a day.
Ended(r) ==
  {[x EXCEPT !.finish = r.effective - 1] :
     x \in {y \in Ending(r) : y.start < r.effective}}

\* Mutant: a member not in the position gets a row whatever comes later.
StartingAnyway(r) ==
  {u \in r.members :
     IF u \in MembersActive(r.read, r.effective)
     THEN \E x \in Ending(r) : x.user = u
     ELSE TRUE}

\* Members who get a new row: a member not in the position who has no later
\* row, or one in it whose qualifier changes.
Starting(r) ==
  {u \in r.members :
     IF u \in MembersActive(r.read, r.effective)
     THEN \E x \in Ending(r) : x.user = u
     ELSE MemberPositions(r.read, u, r.effective) = {}}

\* Rows the request updates or deletes.
Written(r) == Purged(r) \union Ending(r)

\* The rows the request inserts, open ended, with keys that are free.
Inserted(r) ==
  {[user |-> u, slot |-> FreeSlot(rows, u), start |-> r.effective,
    finish |-> Forever, qualifier |-> r.qualifier] : u \in Starting(r)}

\* Mutant: no version_id on the rows.
ConflictIgnored(r) == FALSE

\* Some row to update or delete has another version_id by now.
Conflict(r) == Keys(Written(r)) \intersect r.stale # {}

-----------------------------------------------------------------------------
TermsInit == rows = {} /\ running = {}

\* The requests R after somebody wrote the rows with the keys K.
Outdated(R, K) == {[r EXCEPT !.stale = @ \union K] : r \in R}

\* A POST to the wizard reads the rows of the position.
Read(i, e, M, q) ==
  /\ \A r \in running : r.id # i
  /\ running' = running \union
       {[id |-> i, effective |-> e, members |-> M, qualifier |-> q,
         read |-> rows, stale |-> {}]}
  /\ UNCHANGED rows

\* The request writes its changes and commits.
Update(r) ==
  /\ ~ Overlapping(r.read, r.effective)
  /\ ~ Conflict(r)
  /\ \A u \in Starting(r) : FreeSlots(rows, u) # {}
  /\ rows' = (rows \ Written(r)) \union Ended(r) \union Inserted(r)
  /\ running' = Outdated(running \ {r}, Keys(Written(r)))

\* The request finds two rows of one member active on the effective date and
\* reports it.
UpdateOverlap(r) ==
  /\ Overlapping(r.read, r.effective)
  /\ running' = running \ {r}
  /\ UNCHANGED rows

\* A row the request writes was written meanwhile: all is rolled back.
UpdateStale(r) ==
  /\ ~ Overlapping(r.read, r.effective)
  /\ Conflict(r)
  /\ running' = running \ {r}
  /\ UNCHANGED rows

\* Position Dates: a new row, with any dates.
CreateDates(u, b, f, q) ==
  /\ FreeSlots(rows, u) # {}
  /\ rows' = rows \union
               {[user |-> u, slot |-> FreeSlot(rows, u), start |-> b,
                 finish |-> f, qualifier |-> q]}
  /\ UNCHANGED running

\* Position Dates: new dates and qualifier for a row.
EditDates(x, b, f, q) ==
  /\ rows' = (rows \ {x}) \union
               {[x EXCEPT !.start = b, !.finish = f, !.qualifier = q]}
  /\ running' = Outdated(running, {Key(x)})

\* Position Dates: a row is removed.
DeleteDates(x) ==
  /\ rows' = rows \ {x}
  /\ running' = Outdated(running, {Key(x)})

WizardNext ==
  \/ \E i \in WizardRequests, e \in Dates, M \in SUBSET Users, q \in Quals :
       Read(i, e, M, q)
  \/ \E r \in running : Update(r) \/ UpdateOverlap(r) \/ UpdateStale(r)

DatesNext ==
  \/ \E u \in Users, b \in Dates, f \in Dates \union {Forever}, q \in Quals :
       CreateDates(u, b, f, q)
  \/ \E x \in rows, b \in Dates, f \in Dates \union {Forever}, q \in Quals :
       EditDates(x, b, f, q)
  \/ \E x \in rows : DeleteDates(x)

TermsNext == WizardNext \/ DatesNext

TermsSpec == TermsInit /\ [][TermsNext]_termVars

\* Nobody edits single rows.
WizardSpec == TermsInit /\ [][WizardNext]_termVars

-----------------------------------------------------------------------------
(* Properties *)

\* Rows and requests are well formed, and a request runs once at a time.
TypeOK ==
  /\ rows \subseteq Row
  /\ running \subseteq Request
  /\ \A r, o \in running : r.id = o.id => r = o

\* Row keys are unique, in the table and in what a request has read, and a
\* row that a request has read and nobody wrote since is still in the table as
\* it was read: what version_id guarantees to the request that writes it.
SnapshotCurrent ==
  /\ \A x, y \in rows : Key(x) = Key(y) => x = y
  /\ \A r \in running :
       /\ \A x, y \in r.read : Key(x) = Key(y) => x = y
       /\ \A x \in r.read : Key(x) \in r.stale \/ x \in rows

\* Who holds the position with which qualifier on d.
Holders(R, d) == {<<x.user, x.qualifier>> : x \in {y \in R : ActiveOn(y, d)}}

\* No member has two rows that share a day.
Disjoint(R) == \A d \in Dates : ~ Overlapping(R, d)

\* An update never rewrites history: who held the position, and with which
\* qualifier, on a day before the effective date stays as it is, whatever
\* other requests and the Position Dates table did since the rows were read.
HistoryKept ==
  [][\A r \in running : Update(r) =>
       \A d \in Dates : d < r.effective => Holders(rows', d) = Holders(rows, d)]_termVars

\* An update of the table as it was read leaves no member with overlapping
\* rows who had none before.
DisjointKept ==
  [][\A r \in running : Update(r) /\ r.read = rows =>
       (Disjoint(rows) => Disjoint(rows'))]_termVars

\* An update of the table as it was read removes those not selected, from the
\* effective date on if they are in the position on it, and leaves every
\* selected member who was in the position, or had no later row, in it with
\* the selected qualifier.
SelectionApplied ==
  [][\A r \in running : Update(r) /\ r.read = rows =>
       /\ \A u \in MembersActive(rows, r.effective) \ r.members :
            \A d \in Dates : r.effective <= d => u \notin MembersActive(rows', d)
       /\ \A u \in r.members :
            \/ u \in MembersActive(rows, r.effective)
            \/ MemberPositions(rows, u, r.effective) = {}
            => <<u, r.qualifier>> \in Holders(rows', r.effective)]_termVars

\* An update of the table as it was read touches no row of a member who is
\* not selected and only to come into the position after the effective date:
\* the wizard does not show such members, and may not delete them.
FutureMembersKept ==
  [][\A r \in running : Update(r) /\ r.read = rows =>
       \A x \in rows :
         x.user \notin r.members \union MembersActive(rows, r.effective) => x \in rows']_termVars

\* After an update of the table as it was read the selected members are in the
\* position on the effective date, also one who was to come into it later:
\* what the form asks for, and what a comment in the handler says is done to
\* the later row.
SelectedServe ==
  [][\A r \in running : Update(r) /\ r.read = rows =>
       r.members \subseteq MembersActive(rows', r.effective)]_termVars

=============================================================================
