--------------------------- MODULE MeetingAgenda ---------------------------
(***************************************************************************)
(* The agenda of a meeting: the Meeting view of the meeting admin, the     *)
(* discussion items that members add below their status reports, the       *)
(* renewal of a meeting, and the agenda part of the minutes.               *)
(*                                                                         *)
(* A discussion item has an agenda item of its own, with the text of the   *)
(* discussion; the admin must not delete it.  A renewal builds the agenda  *)
(* of the next meeting, which then takes the place of this one here.       *)
(*                                                                         *)
(* Requests on the agenda are atomic here: two that add items at the same  *)
(* moment can give them the same order, which the code accepts.            *)
(***************************************************************************)
EXTENDS StatusReports, SequencesExt

CONSTANTS
    Headings,       \* agenda headings
    NoHeading,      \* sentinel
    HeadingOf,      \* position -> its agenda heading or NoHeading
    Notes,          \* texts of summaries and discussions
    HasActions,     \* meeting type: Show Action Items
    HasAutoItem,    \* meeting type: an Automatic Agenda Item Title is given
    MaxItems        \* bound: agenda items of a meeting

ASSUME MeetingAgendaAssumption ==
    /\ NoHeading \notin Headings
    /\ HeadingOf \in [Positions -> Headings \union {NoHeading}]
    /\ HasActions \in BOOLEAN /\ HasAutoItem \in BOOLEAN /\ MaxItems \in Nat

VARIABLES
    items,          \* table agendaitem
    discussions,    \* table discussionitem
    over,           \* the date of the meeting has passed
    renewed         \* history: the options of the last renewal

agendaVars == <<items, discussions, over, renewed>>

Special == {"no", "actions", "attendees"}

Items ==
    [num : Nat \ {0}, order : Nat \ {0}, special : Special, hidden : BOOLEAN,
     report : Nat, heading : Headings \union {NoHeading},
     summary : SUBSET Notes, discussion : SUBSET Notes]

Discussions == [report : Nat \ {0}, item : Nat \ {0}]

-----------------------------------------------------------------------------
\* An id that is not in use.
NextNum(S) == Min((1 .. MaxItems + 1) \ {x.num : x \in S})

\* order of a new item after the items I: the highest plus one.
OrderAfter(I) == 1 + Max({0} \union {i.order : i \in I})

NewItem(order, special) ==
    [num |-> order, order |-> order, special |-> special, hidden |-> FALSE, report |-> 0,
     heading |-> NoHeading, summary |-> {}, discussion |-> {}]

Visible(I) == {i \in I : ~ i.hidden}

\* ORDER BY order; items of the same order come in any, here by their ids.
Precedes(i, j) == i.order < j.order \/ (i.order = j.order /\ i.num < j.num)

\* The items I in their order: so many come before each.
Sorted(I) ==
    [k \in 1 .. Cardinality(I) |->
       CHOOSE i \in I : Cardinality({j \in I : Precedes(j, i)}) = k - 1]

\* What createrow puts on the agenda of every new meeting.
AutoItems ==
    (IF HasActions THEN {NewItem(2, "actions")} ELSE {})
      \union (IF HasAutoItem THEN {NewItem(3, "no")} ELSE {})

-----------------------------------------------------------------------------
(* Renewal: MeetingsView.createrow with the Renew Options.                 *)

\* Mutation: only the special items are skipped.
SkippedSpecial(i) == i.special # "no"

Skipped(i) == i.report # 0 \/ i.special # "no"

OldItems(I) == {i \in I : ~ Skipped(i)}

\* The order of the item made for the old item i, from 4 on.
NewOrder(I, i) == 4 + Cardinality({j \in OldItems(I) : Precedes(j, i)})

\* The first loop, with agendamap: titles and summaries.
Copied(I) == [i \in OldItems(I) |-> [NewItem(NewOrder(I, i), "no") EXCEPT !.summary = i.summary]]

\* The second loop: the discussion goes to the end of the summary, on the item made by the
\* first loop if there was one.
WithDiscussion(I, made) ==
    LET target(i) == IF i \in DOMAIN made THEN made[i] ELSE NewItem(NewOrder(I, i), "no")
    IN [i \in OldItems(I) |-> [target(i) EXCEPT !.summary = @ \union i.discussion]]

Renewed(I, copySummary, copyDiscussion) ==
    LET made == Copied(IF copySummary THEN I ELSE {})
    IN AutoItems \union Range(IF copyDiscussion THEN WithDiscussion(I, made) ELSE made)

-----------------------------------------------------------------------------
AgendaInit ==
    /\ items = AutoItems
    /\ discussions = {} /\ over = FALSE /\ renewed = <<>>

Room == Cardinality(items) < MaxItems

\* New on the Meeting view, which shows the hidden items or not.
AddItem(all, h, S) ==
    /\ Room
    /\ items' = items \union
         {[NewItem(OrderAfter(IF all THEN items ELSE Visible(items)), "no")
             EXCEPT !.num = NextNum(items), !.heading = h, !.summary = S]}
    /\ UNCHANGED <<reportVars, discussions, over, renewed>>

\* generateinvites adds the item that lists the attendees.
AddAttendees ==
    /\ Room
    /\ \A i \in items : i.special # "attendees"
    /\ items' = items \union {[NewItem(1, "attendees") EXCEPT !.num = NextNum(items)]}
    /\ UNCHANGED <<reportVars, discussions, over, renewed>>

\* Edit: hide (with a reason) or show an item, write what was discussed.
EditItem(i, hide, S) ==
    /\ i \in items
    /\ items' = (items \ {i}) \union {[i EXCEPT !.hidden = hide, !.discussion = S]}
    /\ items' # items
    /\ UNCHANGED <<reportVars, discussions, over, renewed>>

\* Mutation: items of discussions can be deleted.
MayDeleteAny(i) == ~ over

MayDelete(i) == ~ over /\ i.report = 0

DeleteItem(i) ==
    /\ i \in items /\ MayDelete(i)
    /\ items' = items \ {i}
    /\ UNCHANGED <<reportVars, discussions, over, renewed>>

\* Two visible items change places.
Reorder(i, j) ==
    /\ i \in Visible(items) /\ j \in Visible(items) /\ i.order < j.order
    /\ items' = (items \ {i, j}) \union {[i EXCEPT !.order = j.order], [j EXCEPT !.order = i.order]}
    /\ UNCHANGED <<reportVars, discussions, over, renewed>>

\* New below a status report: a discussion item with its agenda item, under the heading
\* of the position.
AddDiscussion(s, S) ==
    /\ Room
    /\ s \in reports /\ \E w \in rows : w.report = s.num
    /\ LET h == IF s.position = NoPosition THEN NoHeading ELSE HeadingOf[s.position]
       IN items' = items \union
            {[NewItem(OrderAfter(items), "no")
                EXCEPT !.num = NextNum(items), !.report = s.num, !.heading = h, !.summary = S]}
    /\ discussions' = discussions \union {[report |-> s.num, item |-> NextNum(items)]}
    /\ UNCHANGED <<reportVars, over, renewed>>

DeleteDiscussion(d) ==
    /\ d \in discussions /\ ~ over
    /\ discussions' = discussions \ {d}
    /\ items' = {i \in items : i.num # d.item}
    /\ UNCHANGED <<reportVars, over, renewed>>

MeetingDayPasses ==
    /\ ~ over
    /\ over' = TRUE
    /\ UNCHANGED <<reportVars, items, discussions, renewed>>

\* The next meeting: its agenda, and no invitations, reports and discussions yet.
RenewMeeting(copySummary, copyDiscussion) ==
    /\ \A r \in OpenRequests : opening[r] = Closed
    /\ items' = Renewed(items, copySummary, copyDiscussion)
    /\ renewed' = <<copySummary, copyDiscussion>>
    /\ discussions' = {} /\ over' = FALSE
    /\ reports' = {} /\ rows' = {} /\ invited' = {}
    /\ UNCHANGED <<held, tagged, opening>>

AgendaNext ==
    \/ \E all \in BOOLEAN, h \in Headings \union {NoHeading}, S \in SUBSET Notes : AddItem(all, h, S)
    \/ AddAttendees
    \/ \E i \in items, hide \in BOOLEAN, S \in SUBSET Notes : EditItem(i, hide, S)
    \/ \E i \in items : DeleteItem(i)
    \/ \E i, j \in items : Reorder(i, j)
    \/ \E s \in reports, S \in SUBSET Notes : AddDiscussion(s, S)
    \/ \E d \in discussions : DeleteDiscussion(d)
    \/ MeetingDayPasses
    \/ \E a, b \in BOOLEAN : RenewMeeting(a, b)

\* Status reports and agenda of a meeting.
MeetingSpec ==
    /\ StatusReportsInit /\ AgendaInit
    /\ [][(StatusReportsNext /\ UNCHANGED agendaVars) \/ AgendaNext]_<<reportVars, agendaVars>>

-----------------------------------------------------------------------------
(* The agenda part of the minutes: items under the same heading that       *)
(* follow one another become one group.                                    *)

MinuteItems == {i \in Visible(items) : i.special = "no"}

LastGroupWith(groups, h) ==
    {g \in DOMAIN groups : g = Len(groups) /\ groups[g].heading = h}

\* The next item: into the group before, or the first of a group.
Extended(groups, i) ==
    LET g == LastGroupWith(groups, i.heading)
    IN IF i.heading # NoHeading /\ g # {}
       THEN [groups EXCEPT ![Max(g)].items = Append(@, i)]
       ELSE Append(groups, [heading |-> i.heading, items |-> <<i>>])

Grouped(seq) ==
    LET groups[n \in 0 .. Len(seq)] ==
          IF n = 0 THEN <<>> ELSE Extended(groups[n - 1], seq[n])
    IN groups[Len(seq)]

\* With no visible ordinary item the code makes no minutes: next() raises StopIteration at
\* once.  They are empty here, and MinutesFollowAgenda is about minutes that are made.
Minutes == Grouped(Sorted(MinuteItems))

-----------------------------------------------------------------------------
AgendaTypeOK ==
    /\ items \subseteq Items /\ discussions \subseteq Discussions
    /\ Cardinality({i.num : i \in items}) = Cardinality(items)
    /\ over \in BOOLEAN

(* Every discussion has its agenda item, under the same status report, and *)
(* an agenda item that came from a report has its discussion: whatever     *)
(* members and the admin add, delete, hide or renew (the memberdiscussions *)
(* table reads the item of each of its rows with one()).                   *)
DiscussionsOnAgenda ==
    /\ \A d \in discussions : \E i \in items : i.num = d.item /\ i.report = d.report
    /\ \A i \in items : i.report # 0 => \E d \in discussions : d.item = i.num

\* The minutes, read from the top.
Places(groups) == UNION {{<<g, k>> : k \in DOMAIN groups[g].items} : g \in DOMAIN groups}
Above(p, q) == p[1] < q[1] \/ (p[1] = q[1] /\ p[2] < q[2])
ItemAt(groups, p) == groups[p[1]].items[p[2]]

(* The minutes have the visible ordinary items, each once and in order and *)
(* under its own heading, alone if it has none, and two groups with the    *)
(* same heading never follow one another (meeting_minutes_context).        *)
MinutesFollowAgenda ==
    /\ {ItemAt(Minutes, p) : p \in Places(Minutes)} = MinuteItems
    /\ \A p, q \in Places(Minutes) :
         Above(p, q) => Precedes(ItemAt(Minutes, p), ItemAt(Minutes, q))
    /\ \A p \in Places(Minutes) : ItemAt(Minutes, p).heading = Minutes[p[1]].heading
    /\ \A g \in DOMAIN Minutes :
         IF Minutes[g].heading = NoHeading THEN Len(Minutes[g].items) = 1
         ELSE g < Len(Minutes) => Minutes[g].heading # Minutes[g + 1].heading

(* The agenda is whole, and so are the minutes made from it (agenda,        *)
(* discussions and minutes of a meeting).                                   *)
AgendaWhole == DiscussionsOnAgenda /\ MinutesFollowAgenda

\* The new agenda has one item for each ordinary item of the old agenda.
Carries(copySummary, copyDiscussion) ==
    LET old == {i \in items : i.report = 0 /\ i.special = "no"}
        new == {i \in items' : i.order > 3}
    IN /\ IF copySummary \/ copyDiscussion
          THEN \E f \in [old -> new] :
                 /\ \A n \in new : \E i \in old : n = f[i]
                 /\ \A i, j \in old : Precedes(i, j) => f[i].order < f[j].order
                 /\ \A i \in old :
                      f[i].summary = (IF copySummary THEN i.summary ELSE {})
                                     \union (IF copyDiscussion THEN i.discussion ELSE {})
          ELSE new = {}
       /\ items' \ new = AutoItems

RenewedWell ==
    \A copySummary, copyDiscussion \in BOOLEAN :
      RenewMeeting(copySummary, copyDiscussion) =>
        /\ Carries(copySummary, copyDiscussion)
        /\ \A i, j \in items' : i.order = j.order => i = j
        /\ \A i \in items' : i.report = 0

(* The agenda of a renewed meeting is what was made for every meeting,     *)
(* then one item for each ordinary item of the old agenda, in its order    *)
(* and with the summary, the discussion or both, as chosen; no two items   *)
(* have the same order, and nothing that came from a status report is on   *)
(* it.                                                                     *)
RenewalCarries == [][RenewedWell]_<<reportVars, agendaVars>>
=============================================================================
