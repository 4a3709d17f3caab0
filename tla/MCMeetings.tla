----------------------------- MODULE MCMeetings -----------------------------
(***************************************************************************)
(* Small instances of MeetingAgenda (with StatusReports), MeetingSeries    *)
(* and Awards for TLC.  Each behaviour exercises one part, the others      *)
(* stand still.                                                            *)
(***************************************************************************)
EXTENDS MeetingAgenda, MeetingSeries, MCAwards

CONSTANTS p1, p2, h1, m1, m2, t1, t2

VARIABLE part   \* which part the behaviour exercises

MCHeadings == p1 :> h1 @@ p2 :> NoHeading

meetingVars == <<reportVars, agendaVars, seriesVars>>

\* Two requests that open, two positions: m1 holds both, or the second after a change.
ReportsInit ==
    /\ StatusReportsInit
    /\ held = (m1 :> {p1, p2} @@ m2 :> {p1}) /\ tagged = {p1, p2} /\ invited = {m1}

Opening == {r \in OpenRequests : opening[r] # Closed}

\* Bound: m2 gets another position once, the second position loses the tag once; what an open
\* reads but once (or not at all) changes between opens.
ReportsStep ==
    /\ StatusReportsNext
    /\ held' # held => held'[m1] = held[m1] /\ held[m2] = {p1} /\ held'[m2] = {p1, p2}
    /\ tagged' # tagged => tagged' = {p1}
    /\ opening' = opening => Opening = {} /\ \A w \in rows' \ rows : w.member = m1
    /\ Cardinality({s \in reports' : s.text}) <= 1

\* One report by position and one without.
AgendaStart ==
    /\ reports = {[num |-> 1, position |-> p1, text |-> TRUE],
                  [num |-> 2, position |-> NoPosition, text |-> FALSE]}
    /\ rows = {[member |-> m1, report |-> 1, order |-> 1], [member |-> m1, report |-> 2, order |-> 2]}
    /\ held = (m1 :> {p1} @@ m2 :> {}) /\ tagged = {p1} /\ invited = {m1}
    /\ opening = [r \in OpenRequests |-> Closed]

NoAgenda == items = {} /\ discussions = {} /\ over = FALSE /\ renewed = <<>>

\* Bound: the meeting is renewed once, at last; of the two items made with it,
\* one stays and the other stays as it is.  Items are added, hidden and moved before the meeting,
\* discussed after it.
AgendaStep ==
    /\ AgendaNext
    /\ renewed = <<>>
    /\ renewed' = <<>> => /\ 3 \in {i.num : i \in items'}
                          /\ {i \in items : i.num = 2} \subseteq items'
    /\ \A i \in items' : renewed' = <<>> /\ i.special = "no" /\ i.order > 3 => i.summary # {}
    /\ renewed' = <<>> => \A i \in items' : i.order <= 5
    /\ \A j \in items' : \A i \in items :
         i.num = j.num => IF over THEN i.hidden = j.hidden /\ i.order = j.order
                                  ELSE i.discussion = j.discussion
    /\ Cardinality(items \ Visible(items)) <= 1 /\ Cardinality({i \in items : i.discussion # {}}) <= 1
    /\ over => Cardinality(items') = Cardinality(items) \/ renewed' # renewed

NoTypes == types = {} /\ peers = [t \in Types |-> {}]

\* Two types that are peers, or not.
TwoTypes ==
    /\ types = {t1, t2}
    /\ \/ peers = [t \in Types |-> {}]
       \/ peers = [t \in Types |-> IF t \in types THEN types \ {t} ELSE {}]

\* No awards, and nothing published.
NoAwards ==
    Init /\ awards = [d \in Divisions |-> 0] /\ published = [k \in Award |-> NoResult]

MCInit ==
    /\ part \in {"reports", "agenda", "types", "series", "awards"}
    /\ IF part = "reports" THEN ReportsInit ELSE AgendaStart
    /\ IF part = "agenda" THEN AgendaInit ELSE NoAgenda
    /\ IF part = "series" THEN TwoTypes ELSE NoTypes
    /\ IF part = "awards" THEN BoundedInit ELSE NoAwards
    /\ meetings = {} /\ actions = {} /\ day = 0 /\ regrouped = {}

\* Bound: types are created and edited before there are meetings, and deleted at any time.
TypesStep == SeriesNext /\ meetings' = meetings /\ day' = day

SeriesStep ==
    /\ SeriesNext
    /\ types' \subseteq types
    /\ types' = types => peers' = peers

MCNext ==
    \/ part = "reports" /\ ReportsStep /\ UNCHANGED <<agendaVars, seriesVars, awardsVars, part>>
    \/ part = "agenda" /\ AgendaStep /\ UNCHANGED <<seriesVars, awardsVars, part>>
    \/ part = "types" /\ TypesStep /\ UNCHANGED <<reportVars, agendaVars, awardsVars, part>>
    \/ part = "series" /\ SeriesStep /\ UNCHANGED <<reportVars, agendaVars, awardsVars, part>>
    \/ part = "awards" /\ BoundedNext /\ UNCHANGED <<meetingVars, part>>

SameRequests == Permutations(OpenRequests)

MCSpec == MCInit /\ [][MCNext]_<<meetingVars, awardsVars, part>>
=============================================================================
